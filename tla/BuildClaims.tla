---------------------------- MODULE BuildClaims ----------------------------
(***************************************************************************)
(* What the comments of defiant-build say of its output, for requests that *)
(* show where the output says something else.                              *)
(***************************************************************************)
EXTENDS MCBuild

(* Two fields of one message that has no lifetime.                         *)
TwiceTheSame ==
  {Request(Plainly, <<FileOf(<<"p">>, "proto3",
                             <<Holding("A", <<"B", "B">>), Holding("B", <<"float">>),
                               Holding("C", <<"A">>)>>)>>)}

ConfiguredPaths ==
  {Request([Plainly EXCEPT !.path = name],
           <<FileOf(<<"p">>, "proto3", <<Holding("A", <<"float">>)>>)>>) :
     name \in {"", "my_defiant"}}

ClaimMessages == MessagesOf(TwiceTheSame \cup ConfiguredPaths)

\* The comments of message_needs_lifetime and message_type_needs_lifetime: a scalar-only
\* message is stored by value and has no lifetime.  Then no text gives it one.
LifetimesAreNeeded ==
  status = "done" =>
    \A item \in out : \A m \in item.mentions : \A d \in DeclarationOf(m.to) :
      m.arena => d.arena

\* The documentation of Config::defiant_path: the path that is configured is the one the
\* derived code uses.
ConfiguredPathIsRead ==
  status = "done" /\ config.path # "" =>
    \A d \in Declared : GetProstPath(d.attrs) = config.path
=============================================================================
