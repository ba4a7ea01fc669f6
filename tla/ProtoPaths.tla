----------------------------- MODULE ProtoPaths -----------------------------
(***************************************************************************)
(* path.rs and extern_paths.rs: the two tables a Config keeps by Protobuf  *)
(* path.  A matcher of a PathMap is a suffix ("c", "b.c"), a prefix        *)
(* (".a.b") or the global path; one that is fully qualified is written     *)
(* [full |-> TRUE, parts |-> <<"a", "b">>].                                *)
(***************************************************************************)
EXTENDS Descriptors

Full(parts) == [full |-> TRUE, parts |-> parts]
Suffix(parts) == [full |-> FALSE, parts |-> parts]

(* The path itself, its suffixes from the longest, its prefixes from the   *)
(* longest, and the global path.                                           *)
SubPaths(path) ==
  <<Full(path)>>
    \o [i \in 1..Len(path) |-> Suffix(SubSeq(path, i, Len(path)))]
    \o [i \in 1..(Len(path) - 1) |-> Full(SubSeq(path, 1, Len(path) - i))]
    \o <<Full(<<>>)>>

(* The value of the first matcher of the most specific sub-path that any   *)
(* matcher names, or what the caller takes for none.                       *)
FindBestMatching(matchers, path, otherwise) ==
  LET found(sub) == SelectInSeq(matchers, LAMBDA m : m.path = sub)
      best == SelectInSeq(SubPaths(path), LAMBDA sub : found(sub) # 0)
  IN IF best = 0 THEN otherwise ELSE matchers[found(SubPaths(path)[best])].value

GetFirstField(matchers, message, field, otherwise) ==
  FindBestMatching(matchers, Append(message, field), otherwise)

(***************************************************************************)
(* ExternPaths.  A Rust path is the sequence of its segments.              *)
(***************************************************************************)
InsertExtern(so, entry) ==
  IF so.failed \/ entry.proto = <<>> \/ entry.proto \in DOMAIN so.paths
  THEN [so EXCEPT !.failed = TRUE]
  ELSE [so EXCEPT !.paths = (entry.proto :> entry.rust) @@ @]

WellKnown == << [proto |-> <<"google", "protobuf">>, rust |-> <<"defiant_types">>],
                [proto |-> <<"google", "protobuf", "Empty">>, rust |-> <<"()">>] >>

NewExternPaths(entries, types) ==
  FoldLeft(InsertExtern, [failed |-> FALSE, paths |-> <<>>],
           entries \o (IF types THEN WellKnown ELSE <<>>))

(* The segments of a Rust path as modules: a leading "crate" is a keyword. *)
AsModules(rust) ==
  [i \in 1..Len(rust) |-> IF i = 1 /\ rust[i] = "crate" THEN rust[i] ELSE Snake[rust[i]]]

(* The Rust path of a name that is mapped itself, or below the longest of  *)
(* its prefixes that is; <<>> for a name no entry is about.                *)
ResolveExtern(paths, ident) ==
  LET mapped == {i \in 1..Len(ident) : SubSeq(ident, 1, i) \in DOMAIN paths}
      cut == CHOOSE i \in mapped : \A j \in mapped : j <= i
      rust == paths[SubSeq(ident, 1, cut)]
  IN CASE mapped = {} -> <<>>
       [] Len(ident) \in mapped -> paths[ident]
       [] OTHER -> AsModules(rust \o SubSeq(ident, cut + 1, Len(ident) - 1))
                     \o <<Camel[Last(ident)]>>
=============================================================================
