----------------------------- MODULE RustTypes -----------------------------
(***************************************************************************)
(* The types the generator writes for fields, as the derive macro gets     *)
(* them from syn.  A type is a path, with the lifetime 'arena or without   *)
(* and with generic types, a reference, which always has that lifetime, or *)
(* a slice.                                                                *)
(***************************************************************************)
EXTENDS Integers, Sequences, SequencesExt

PathType(path, arena, generics) ==
  [shape |-> "path", path |-> path, arena |-> arena, generics |-> generics]
RefType(type) == [shape |-> "ref", of |-> type]
SliceType(type) == [shape |-> "slice", of |-> type]
Primitive(name) == PathType(<<name>>, FALSE, <<>>)
OptionType(type) == PathType(<<"core", "option", "Option">>, FALSE, <<type>>)
NoType == [shape |-> "none"]
=============================================================================
