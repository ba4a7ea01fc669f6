------------------------------ MODULE Includes ------------------------------
(***************************************************************************)
(* write_includes of config.rs: the include file puts the text of every    *)
(* module into a tree of `pub mod`.  The modules are sorted, and a stack   *)
(* holds the ones that stand open.  A module is the sequence of its parts. *)
(***************************************************************************)
EXTENDS Integers, Sequences

CONSTANTS
  Names,    \* the parts a module can have
  Rank      \* their order

ASSUME RankAssumption == Rank \in [Names -> Int]

VARIABLES
  pending,  \* the modules still to be written
  stack,    \* the parts of the modules that are open
  opened,   \* the paths of all the modules opened so far
  included  \* what was included: a module, and the path it came to stand at
includeVars == <<pending, stack, opened, included>>

StartsWith(module, needle) ==
  Len(needle) <= Len(module) /\ \A i \in 1..Len(needle) : module[i] = needle[i]

(* The order of Vec<String>: the first part that differs decides, or the   *)
(* one of the two that ends.                                               *)
BeforeByLength(a, b) ==
  \/ Len(a) < Len(b)
  \/ Len(a) = Len(b) /\ \E n \in 1..Len(b) :
       Rank[a[n]] < Rank[b[n]] /\ \A i \in 1..(n - 1) : a[i] = b[i]
Before(a, b) ==
  \E n \in 1..Len(b) :
    /\ n <= Len(a) + 1
    /\ \A i \in 1..(n - 1) : a[i] = b[i]
    /\ n = Len(a) + 1 \/ Rank[a[n]] < Rank[b[n]]

Sorted(modules) == \A i, j \in DOMAIN modules : i < j => Before(modules[i], modules[j])

NothingIncluded == pending = <<>> /\ stack = <<>> /\ opened = {} /\ included = {}

Pop ==
  /\ stack' = SubSeq(stack, 1, Len(stack) - 1)
  /\ UNCHANGED <<pending, opened, included>>

CloseModule == pending # <<>> /\ ~StartsWith(Head(pending), stack) /\ Pop

OpenModule ==
  /\ pending # <<>> /\ StartsWith(Head(pending), stack) /\ Len(stack) < Len(Head(pending))
  /\ stack' = Append(stack, Head(pending)[Len(stack) + 1])
  /\ opened' = opened \cup {stack'}
  /\ UNCHANGED <<pending, included>>

IncludeFile ==
  /\ pending # <<>> /\ StartsWith(Head(pending), stack) /\ Len(stack) = Len(Head(pending))
  /\ included' = included \cup {[module |-> Head(pending), at |-> stack]}
  /\ pending' = Tail(pending)
  /\ UNCHANGED <<stack, opened>>

CloseRest == pending = <<>> /\ stack # <<>> /\ Pop

WriteIncludes == CloseModule \/ OpenModule \/ IncludeFile \/ CloseRest

(* write_includes by itself, for any modules.                              *)
IncludesInit ==
  /\ pending \in Seq(Seq(Names)) /\ Sorted(pending)
  /\ stack = <<>> /\ opened = {} /\ included = {}
IncludesSpec == IncludesInit /\ [][WriteIncludes]_includeVars

(* A module that was closed is not opened again: a second `pub mod` of the *)
(* same name would not compile.                                            *)
OpensOnce == [][Len(stack') > Len(stack) => stack' \notin opened]_stack
=============================================================================
