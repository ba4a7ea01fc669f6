---------------------------- MODULE Build_proofs ----------------------------
(***************************************************************************)
(* What is proved of a build.  In order: write_includes opens every module *)
(* once; the walk of the generator keeps its open calls in order and       *)
(* writes to the file it is in; so the modules that are left are those     *)
(* that were written to and the include file has each of them where its    *)
(* name says; and the path of the generator always leads to what it is     *)
(* at, so that the comments of an item are those of its own element.       *)
(***************************************************************************)
EXTENDS Build, SequenceTheorems, FiniteSetTheorems, WellFoundedInduction, TLAPS

(***************************************************************************)
(* write_includes opens every module once, whatever the modules are: in    *)
(* the sorted list the modules below a path stand together.                *)
(***************************************************************************)
(* What lies between two modules below a path lies below it too.           *)
LEMMA BelowIsContiguous ==
  ASSUME NEW a \in Seq(Names), NEW b \in Seq(Names), NEW c \in Seq(Names), NEW p \in Seq(Names),
         Before(a, b), Before(b, c), StartsWith(a, p), StartsWith(c, p)
  PROVE  StartsWith(b, p)
<1>1. PICK n \in 1..Len(b) :
        /\ n <= Len(a) + 1
        /\ \A i \in 1..(n - 1) : a[i] = b[i]
        /\ n = Len(a) + 1 \/ Rank[a[n]] < Rank[b[n]]
  BY DEF Before
<1>2. PICK m \in 1..Len(c) :
        /\ m <= Len(b) + 1
        /\ \A i \in 1..(m - 1) : b[i] = c[i]
        /\ m = Len(b) + 1 \/ Rank[b[m]] < Rank[c[m]]
  BY DEF Before
<1>3. /\ Len(p) <= Len(a) /\ Len(p) <= Len(c)
      /\ \A i \in 1..Len(p) : a[i] = p[i] /\ c[i] = p[i]
  BY DEF StartsWith
<1>4. /\ Len(a) \in Nat /\ Len(b) \in Nat /\ Len(c) \in Nat /\ Len(p) \in Nat
      /\ \A i \in 1..Len(a) : a[i] \in Names
      /\ \A i \in 1..Len(b) : b[i] \in Names
      /\ \A i \in 1..Len(c) : c[i] \in Names
  OBVIOUS
<1>5. n > Len(p)
  <2> SUFFICES ASSUME n <= Len(p) PROVE FALSE
    BY <1>4
  <2>1. Rank[a[n]] < Rank[b[n]] /\ a[n] = c[n]
    BY <1>1, <1>3, <1>4
  <2>2. Rank[a[n]] \in Int /\ Rank[b[n]] \in Int
    <3>1. a[n] \in Names /\ b[n] \in Names
      BY <1>1, <1>3, <1>4
    <3> QED BY <3>1, RankAssumption
  <2>3. ~(m > n)
    BY <1>1, <1>2, <1>4, <2>1, <2>2
  <2>4. ~(m = n)
    BY <1>1, <1>2, <1>4, <2>1, <2>2
  <2>5. ~(m < n)
    <3> SUFFICES ASSUME m < n PROVE FALSE
      OBVIOUS
    <3>1. a[m] = b[m] /\ a[m] = c[m] /\ m <= Len(b)
      BY <1>1, <1>2, <1>3, <1>4
    <3>2. Rank[b[m]] \in Int
      BY <3>1, <1>2, <1>4, RankAssumption
    <3> QED BY <1>2, <1>4, <3>1, <3>2
  <2> QED BY <2>3, <2>4, <2>5, <1>1, <1>2, <1>4
<1>6. Len(p) <= Len(b) /\ \A i \in 1..Len(p) : b[i] = p[i]
  BY <1>1, <1>3, <1>4, <1>5
<1> QED BY <1>6 DEF StartsWith

(***************************************************************************)
(* The stack lies on the way to a module that precedes the pending ones,   *)
(* and nothing pending lies below a module that was closed.                *)
(***************************************************************************)
Leads(e) ==
  /\ StartsWith(e, stack)
  /\ \A i \in DOMAIN pending : (i = 1 /\ e = pending[1]) \/ Before(e, pending[i])

IncludesInv ==
  /\ pending \in Seq(Seq(Names)) /\ stack \in Seq(Names) /\ opened \subseteq Seq(Names)
  /\ Sorted(pending)
  /\ \E e \in Seq(Names) : Leads(e)
  /\ \A p \in opened : \/ StartsWith(stack, p)
                       \/ \A i \in DOMAIN pending : ~StartsWith(pending[i], p)

(* Closing the last module, when nothing pending lies below it.            *)
LEMMA PopKeepsInv ==
  ASSUME IncludesInv, stack # <<>>, Pop,
         pending # <<>> => ~StartsWith(Head(pending), stack)
  PROVE  IncludesInv'
<1> USE DEF IncludesInv
<1>1. /\ stack' = SubSeq(stack, 1, Len(stack) - 1) /\ stack' \in Seq(Names)
      /\ Len(stack') = Len(stack) - 1 /\ Len(stack) \in Nat \ {0}
      /\ \A i \in 1..(Len(stack) - 1) : stack'[i] = stack[i]
      /\ UNCHANGED <<pending, opened>>
  <2>1. Len(stack) \in Nat \ {0} /\ stack' = SubSeq(stack, 1, Len(stack) - 1)
    BY EmptySeq DEF Pop
  <2>2. \A i \in 1..(Len(stack) - 1) : stack[i] \in Names
    BY <2>1
  <2>3. stack' \in Seq(Names)
    BY <2>1, <2>2, SubSeqProperties
  <2>4. Len(stack') = Len(stack) - 1 /\ \A i \in 1..(Len(stack) - 1) : stack'[i] = stack[i]
    <3>0. Len(stack) - 1 \in Nat
      BY <2>1
    <3>1. PICK n \in Nat : n = Len(stack) - 1
      BY <3>0
    <3>2. /\ Len(SubSeq(stack, 1, n)) = IF 1 <= n THEN n - 1 + 1 ELSE 0
          /\ \A i \in 1..(n - 1 + 1) : SubSeq(stack, 1, n)[i] = stack[1 + i - 1]
      BY <2>2, <3>1, SubSeqProperties
    <3>3. Len(SubSeq(stack, 1, n)) = n /\ \A i \in 1..n : SubSeq(stack, 1, n)[i] = stack[i]
      BY <3>2
    <3> QED BY <2>1, <3>1, <3>3
  <2> QED BY <2>1, <2>3, <2>4 DEF Pop
<1>2. \E e \in Seq(Names) : Leads(e)'
  <2>1. PICK e \in Seq(Names) : Leads(e)
    OBVIOUS
  <2>2. StartsWith(e, stack')
    BY <1>1, <2>1 DEF Leads, StartsWith
  <2> QED BY <1>1, <2>1, <2>2 DEF Leads
<1>3. ASSUME NEW p \in opened, StartsWith(stack, p)
      PROVE  \/ StartsWith(stack', p)
             \/ \A i \in DOMAIN pending : ~StartsWith(pending[i], p)
  <2>1. CASE Len(p) < Len(stack)
    BY <1>1, <1>3, <2>1 DEF StartsWith
  <2>2. CASE Len(p) >= Len(stack)
    <3>1. p = stack
      <4>1. p \in Seq(Names) /\ Len(p) = Len(stack)
        BY <1>1, <1>3, <2>2 DEF StartsWith
      <4>2. \A i \in 1..Len(p) : p[i] = stack[i]
        BY <1>3 DEF StartsWith
      <4> QED BY <4>1, <4>2, SeqEqual
    <3>2. SUFFICES ASSUME NEW i \in DOMAIN pending, StartsWith(pending[i], stack) PROVE FALSE
      BY <3>1
    <3>3. pending # <<>> /\ Head(pending) = pending[1] /\ 1 \in DOMAIN pending
          /\ pending[1] \in Seq(Names) /\ pending[i] \in Seq(Names) /\ i \in Nat /\ i >= 1
      OBVIOUS
    <3>4. i # 1
      BY <3>2, <3>3
    <3>5. PICK e \in Seq(Names) : Leads(e)
      OBVIOUS
    <3>6. StartsWith(e, stack) /\ (e = pending[1] \/ Before(e, pending[1]))
      BY <3>3, <3>5 DEF Leads
    <3>7. Before(pending[1], pending[i])
      BY <3>3, <3>4 DEF Sorted
    <3>8. StartsWith(pending[1], stack)
      BY <3>2, <3>3, <3>6, <3>7, BelowIsContiguous
    <3> QED BY <3>3, <3>8
  <2> QED BY <2>1, <2>2, <1>1, <1>3
<1> QED BY <1>1, <1>2, <1>3

(* Opening the next module on the way to the first pending one: it is new. *)
LEMMA OpenKeepsInv ==
  ASSUME IncludesInv, OpenModule
  PROVE  IncludesInv' /\ stack' \notin opened
<1> USE DEF IncludesInv
<1> DEFINE h == Head(pending)
<1>1. /\ pending # <<>> /\ h = pending[1] /\ h \in Seq(Names) /\ 1 \in DOMAIN pending
      /\ Len(stack) \in Nat /\ Len(stack) < Len(h) /\ StartsWith(h, stack)
      /\ stack' = Append(stack, h[Len(stack) + 1]) /\ opened' = opened \cup {stack'}
      /\ pending' = pending
  BY DEF OpenModule
<1>2. /\ stack' \in Seq(Names) /\ Len(stack') = Len(stack) + 1
      /\ \A i \in 1..Len(stack) : stack'[i] = stack[i]
      /\ stack'[Len(stack) + 1] = h[Len(stack) + 1]
  BY <1>1
<1>3. StartsWith(h, stack')
  BY <1>1, <1>2 DEF StartsWith
<1>4. Leads(h)'
  BY <1>1, <1>3 DEF Leads, Sorted
<1>5. stack' \notin opened
  <2>1. ~StartsWith(stack, stack')
    BY <1>1, <1>2 DEF StartsWith
  <2> QED BY <1>1, <1>3, <2>1
<1>6. ASSUME NEW p \in opened, StartsWith(stack, p)
      PROVE  StartsWith(stack', p)
  BY <1>1, <1>2, <1>6 DEF StartsWith
<1>7. StartsWith(stack', stack')
  BY <1>2 DEF StartsWith
<1> QED BY <1>1, <1>2, <1>4, <1>5, <1>6, <1>7

(* Including the first pending module, whose path the stack is.            *)
LEMMA IncludeKeepsInv ==
  ASSUME IncludesInv, IncludeFile
  PROVE  IncludesInv'
<1> USE DEF IncludesInv
<1>0. PICK h \in Seq(Names) : pending # <<>> /\ h = Head(pending)
  BY DEF IncludeFile
<1>1. /\ pending # <<>> /\ h = pending[1] /\ 1 \in DOMAIN pending
      /\ StartsWith(h, stack) /\ pending' = Tail(pending) /\ UNCHANGED <<stack, opened>>
  BY <1>0 DEF IncludeFile
<1>2. /\ pending' \in Seq(Seq(Names))
      /\ \A i \in DOMAIN pending' :
           i + 1 \in DOMAIN pending /\ pending'[i] = pending[i + 1] /\ i \in Nat /\ i >= 1
  BY <1>1
<1>3. Sorted(pending')
  <2> SUFFICES ASSUME NEW i \in DOMAIN pending', NEW j \in DOMAIN pending', i < j
               PROVE  Before(pending'[i], pending'[j])
    BY DEF Sorted
  <2>1. i + 1 < j + 1
    BY <1>2
  <2> QED BY <1>2, <2>1 DEF Sorted
<1>4. Leads(h)'
  <2>1. \A i \in DOMAIN pending' : Before(h, pending'[i])
    <3> TAKE i \in DOMAIN pending'
    <3>1. 1 < i + 1
      BY <1>2
    <3> QED BY <1>1, <1>2, <3>1 DEF Sorted
  <2> QED BY <1>1, <2>1 DEF Leads
<1> QED BY <1>1, <1>2, <1>3, <1>4

(* Every step of write_includes keeps the stack on that way.               *)
LEMMA IncludesStep == IncludesInv /\ [WriteIncludes]_includeVars => IncludesInv'
<1> SUFFICES ASSUME IncludesInv, [WriteIncludes]_includeVars PROVE IncludesInv'
  OBVIOUS
<1>1. CASE CloseModule
  <2>1. stack # <<>>
    BY <1>1 DEF CloseModule, StartsWith, IncludesInv
  <2> QED BY <1>1, <2>1, PopKeepsInv DEF CloseModule
<1>2. CASE OpenModule
  BY <1>2, OpenKeepsInv
<1>3. CASE IncludeFile
  BY <1>3, IncludeKeepsInv
<1>4. CASE CloseRest
  BY <1>4, PopKeepsInv DEF CloseRest
<1>5. CASE UNCHANGED includeVars
  BY <1>5 DEF IncludesInv, Leads, includeVars
<1> QED BY <1>1, <1>2, <1>3, <1>4, <1>5 DEF WriteIncludes

(* It starts with nothing opened, and any sorted list pending.             *)
LEMMA IncludesStart == IncludesInit => IncludesInv
<1> SUFFICES ASSUME IncludesInit PROVE IncludesInv
  OBVIOUS
<1>1. \E e \in Seq(Names) : Leads(e)
  <2>1. CASE pending = <<>>
    <3>1. <<>> \in Seq(Names) /\ Leads(<<>>)
      BY <2>1 DEF IncludesInit, Leads, StartsWith
    <3> QED BY <3>1
  <2>2. CASE pending # <<>>
    <3>1. pending[1] \in Seq(Names) /\ 1 \in DOMAIN pending
      BY <2>2 DEF IncludesInit
    <3>2. Leads(pending[1])
      BY <3>1 DEF IncludesInit, Leads, StartsWith, Sorted
    <3> QED BY <3>1, <3>2
  <2> QED BY <2>1, <2>2
<1> QED BY <1>1 DEF IncludesInit, IncludesInv

(* write_includes never opens a module it has closed: config.rs opens and  *)
(* closes by comparing each module with the stack, and remembers nothing.  *)
THEOREM OpensModulesOnce == IncludesSpec => OpensOnce
<1>1. IncludesInv /\ [WriteIncludes]_includeVars
        => [Len(stack') > Len(stack) => stack' \notin opened]_stack
  <2> SUFFICES ASSUME IncludesInv, [WriteIncludes]_includeVars, Len(stack') > Len(stack)
               PROVE  stack' \notin opened
    OBVIOUS
  <2>1. CASE OpenModule
    BY <2>1, OpenKeepsInv
  <2>2. CASE Pop
    <3>1. Len(stack) \in Nat /\ Len(stack') <= Len(stack)
      BY <2>2 DEF Pop, IncludesInv
    <3> QED BY <3>1, <2>2
  <2>3. CASE UNCHANGED stack
    BY <2>3 DEF IncludesInv
  <2> QED BY <2>1, <2>2, <2>3 DEF WriteIncludes, CloseModule, CloseRest, IncludeFile, includeVars
<1> QED BY <1>1, IncludesStart, IncludesStep, PTL DEF IncludesSpec, OpensOnce

(***************************************************************************)
(* The open calls of the generator: the file at the bottom, each message   *)
(* at a nested one of the message below, and where they stand.             *)
(***************************************************************************)
FileMessage(f) == [MessageWith("", <<>>) EXCEPT !.nested = f.messages, !.enums = f.enums]
FileStages == {"nested", "enums", "services", "end"}
MessageStages == {"fields", "oneofs", "nested", "enums", "variants", "name"}
FrameSet ==
  [message : Messages \cup {FileMessage(f) : f \in ToSet(files)}, name : Seq(STRING),
   stage : FileStages \cup MessageStages, next : Nat \ {0}]

FramesInv ==
  /\ frames \in Seq(FrameSet)
  /\ frames # <<>> =>
       /\ file \in 1..Len(files)
       /\ frames[1].message = FileMessage(File) /\ frames[1].stage \in FileStages
       /\ \A k \in 2..Len(frames) : frames[k].message \in Messages /\ frames[k].stage \in MessageStages
       /\ \A k \in 1..(Len(frames) - 1) : frames[k].stage = "nested"

(* What becomes of the frame on top. *)
LEMMA AdvanceIs ==
  ASSUME frames \in Seq(FrameSet), frames # <<>>
  PROVE  /\ Advance \in Seq(FrameSet) /\ Len(Advance) = Len(frames) /\ Len(frames) \in Nat \ {0}
         /\ \A k \in 1..(Len(frames) - 1) : Advance[k] = frames[k]
         /\ Advance[Len(frames)] = [message |-> Top.message, name |-> Top.name, stage |-> Top.stage,
                                    next |-> Top.next + 1]
         /\ Top = frames[Len(frames)] /\ Top \in FrameSet
<1>1. Len(frames) \in Nat \ {0} /\ Top = frames[Len(frames)] /\ Top \in FrameSet
  BY EmptySeq DEF Top, Last
<1>2. PICK new : new = [Top EXCEPT !.next = @ + 1]
  OBVIOUS
<1>3. new \in FrameSet /\ new = [message |-> Top.message, name |-> Top.name, stage |-> Top.stage,
                                 next |-> Top.next + 1]
  <2>1. PICK t \in FrameSet : t = Top
    BY <1>1
  <2>2. /\ t = [message |-> t.message, name |-> t.name, stage |-> t.stage, next |-> t.next]
        /\ t.message \in Messages \cup {FileMessage(f) : f \in ToSet(files)}
        /\ t.name \in Seq(STRING) /\ t.stage \in FileStages \cup MessageStages /\ t.next \in Nat \ {0}
    BY <2>1 DEF FrameSet
  <2>3. new = [message |-> t.message, name |-> t.name, stage |-> t.stage, next |-> t.next + 1]
    BY <1>2, <2>1, <2>2
  <2>4. t.next + 1 \in Nat \ {0}
    BY <2>2
  <2>5. new \in FrameSet
    BY <2>2, <2>3, <2>4 DEF FrameSet
  <2> QED BY <2>1, <2>3, <2>5
<1>4. Advance = [frames EXCEPT ![Len(frames)] = new]
  BY <1>2 DEF Advance, WithTop
<1> HIDE DEF Top, FrameSet
<1>5. QED BY <1>1, <1>3, <1>4

(* The same of a frame that enters its next stage.                         *)
LEMMA EnterIs ==
  ASSUME frames \in Seq(FrameSet), frames # <<>>, NEW s \in FileStages \cup MessageStages
  PROVE  /\ Enter(s) \in Seq(FrameSet) /\ Len(Enter(s)) = Len(frames) /\ Len(frames) \in Nat \ {0}
         /\ \A k \in 1..(Len(frames) - 1) : Enter(s)[k] = frames[k]
         /\ Enter(s)[Len(frames)] = [message |-> Top.message, name |-> Top.name, stage |-> s,
                                     next |-> 1]
         /\ Top = frames[Len(frames)] /\ Top \in FrameSet
<1>1. Len(frames) \in Nat \ {0} /\ Top = frames[Len(frames)] /\ Top \in FrameSet
  BY EmptySeq DEF Top, Last
<1>2. PICK new : new = [Top EXCEPT !.stage = s, !.next = 1]
  OBVIOUS
<1>3. new \in FrameSet /\ new = [message |-> Top.message, name |-> Top.name, stage |-> s, next |-> 1]
  <2>1. PICK t \in FrameSet : t = Top
    BY <1>1
  <2>2. /\ t = [message |-> t.message, name |-> t.name, stage |-> t.stage, next |-> t.next]
        /\ t.message \in Messages \cup {FileMessage(f) : f \in ToSet(files)}
        /\ t.name \in Seq(STRING) /\ t.stage \in FileStages \cup MessageStages /\ t.next \in Nat \ {0}
    BY <2>1 DEF FrameSet
  <2>3. new = [message |-> t.message, name |-> t.name, stage |-> s, next |-> 1]
    BY <1>2, <2>1, <2>2
  <2>5. new \in FrameSet
    BY <2>2, <2>3 DEF FrameSet
  <2> QED BY <2>1, <2>3, <2>5
<1>4. Enter(s) = [frames EXCEPT ![Len(frames)] = new]
  BY <1>2 DEF Enter, WithTop
<1> HIDE DEF Top, FrameSet
<1>5. QED BY <1>1, <1>3, <1>4

(* An item of the file being generated, of the name it says, whose comments *)
(* are looked up by one of the paths.                                      *)
ItemOf(item, proto, docs) ==
  item.unit = Module(File) /\ item.file = file /\ item.proto = proto /\ item.doc \in docs

(* Every item keeps what it is made with, whatever else is said of it. *)
LEMMA ItemsAre ==
  /\ \A m, w : ItemOf(StructItem(m, w), FqName(m.name), {<<>>, w})
  /\ \A n, f, w : ItemOf(FieldItem(n, f, w), Append(n, f.name), {<<>>, w})
  /\ \A n, f, e, w : ItemOf(MapItem(n, f, e, w), Append(n, f.name), {<<>>, w})
  /\ \A m, n, o, w : ItemOf(OneofFieldItem(m, n, o, w), Append(n, m.oneofs[o].name), {<<>>, w})
  /\ \A m, n, o, w : ItemOf(OneofItem(m, n, o, w), Append(n, m.oneofs[o].name), {<<>>, w})
  /\ \A n, o, f, w : ItemOf(VariantItem(n, o, f, w), Append(n, f.name), {<<>>, w})
  /\ \A m : ItemOf(NameItem(m), FqName(m.name), {<<>>})
  /\ \A s, m, w : ItemOf(MethodItem(s, m, w), File.package \o <<s.name, m.name>>, {w})
<1>1. \A n, w : Doc(n, w) \in {<<>>, w}
  BY DEF Doc
<1> HIDE DEF Doc
<1>2. \A m, w : ItemOf(StructItem(m, w), FqName(m.name), {<<>>, w})
  BY <1>1 DEF StructItem, Item, ItemOf
<1>3. \A n, f, w : ItemOf(FieldItem(n, f, w), Append(n, f.name), {<<>>, w})
  BY <1>1 DEF FieldItem, Item, ItemOf
<1>4. \A n, f, e, w : ItemOf(MapItem(n, f, e, w), Append(n, f.name), {<<>>, w})
  BY <1>1 DEF MapItem, Item, ItemOf
<1>5. \A m, n, o, w : ItemOf(OneofFieldItem(m, n, o, w), Append(n, m.oneofs[o].name), {<<>>, w})
  BY <1>1 DEF OneofFieldItem, Item, ItemOf
<1>6. \A m, n, o, w : ItemOf(OneofItem(m, n, o, w), Append(n, m.oneofs[o].name), {<<>>, w})
  BY <1>1 DEF OneofItem, Item, ItemOf
<1>7. \A n, o, f, w : ItemOf(VariantItem(n, o, f, w), Append(n, f.name), {<<>>, w})
  BY <1>1 DEF VariantItem, Item, ItemOf
<1>8. \A m : ItemOf(NameItem(m), FqName(m.name), {<<>>})
  BY <1>1 DEF NameItem, Item, ItemOf
<1>9. \A s, m, w : ItemOf(MethodItem(s, m, w), File.package \o <<s.name, m.name>>, {w})
  BY <1>1 DEF MethodItem, Item, ItemOf
<1> QED BY <1>2, <1>3, <1>4, <1>5, <1>6, <1>7, <1>8, <1>9

(* The numbers of a list are the ones asked for. *)
LEMMA NumbersAreIn ==
  ASSUME NEW n \in Nat, NEW S \in SUBSET (1..n)
  PROVE  /\ Len(Numbers[S]) \in Nat /\ Numbers[S] \in [1..Len(Numbers[S]) -> S]
         /\ \A k \in 1..Len(Numbers[S]) : Numbers[S][k] \in S
<1> DEFINE rank == [i \in S |-> Cardinality({j \in S : j <= i})]
           card == Cardinality(S)
<1>1. IsFiniteSet(S) /\ card \in Nat
  <2>1. IsFiniteSet(1..n)
    BY FS_Interval
  <2> QED BY <2>1, FS_Subset, FS_CardinalityType
<1>2. ASSUME NEW i \in S PROVE rank[i] \in 1..card
  <2>1. i \in {j \in S : j <= i} /\ {j \in S : j <= i} \in SUBSET S
    OBVIOUS
  <2>2. IsFiniteSet({j \in S : j <= i}) /\ Cardinality({j \in S : j <= i}) <= card
    BY <1>1, <2>1, FS_Subset
  <2>3. Cardinality({j \in S : j <= i}) # 0 /\ Cardinality({j \in S : j <= i}) \in Nat
    BY <2>1, <2>2, FS_EmptySet, FS_CardinalityType
  <2> QED BY <1>1, <2>2, <2>3
<1>3. ASSUME NEW i \in S, NEW k \in S, i < k PROVE rank[i] # rank[k]
  <2>1. /\ {j \in S : j <= i} \in SUBSET {j \in S : j <= k} /\ IsFiniteSet({j \in S : j <= k})
        /\ k \in {j \in S : j <= k} /\ k \notin {j \in S : j <= i}
    <3>1. IsFiniteSet({j \in S : j <= k})
      BY <1>1, FS_Subset
    <3>2. \A j \in S : j <= i => j <= k
      BY <1>3
    <3>3. ~(k <= i)
      BY <1>3
    <3>4. k <= k /\ k \in S
      OBVIOUS
    <3>5. {j \in S : j <= i} \in SUBSET {j \in S : j <= k}
      BY <3>2
    <3>6. k \in {j \in S : j <= k} /\ k \notin {j \in S : j <= i}
      BY <3>3, <3>4
    <3> QED BY <3>1, <3>5, <3>6
  <2>2. {j \in S : j <= i} # {j \in S : j <= k}
    BY <2>1
  <2>3. Cardinality({j \in S : j <= i}) # Cardinality({j \in S : j <= k})
    BY <2>1, <2>2, FS_Subset
  <2> QED BY <2>3
<1>4. rank \in Injection(S, 1..card)
  <2>1. rank \in [S -> 1..card]
    BY <1>2
  <2>2. \A i, k \in S : rank[i] = rank[k] => i = k
    <3> SUFFICES ASSUME NEW i \in S, NEW k \in S, rank[i] = rank[k], i # k PROVE FALSE
      OBVIOUS
    <3>1. i < k \/ k < i
      OBVIOUS
    <3> HIDE DEF rank
    <3> QED BY <1>3, <3>1
  <2> QED BY <2>1, <2>2 DEF Injection, IsInjective
<1>5. rank \in Surjection(S, 1..card)
  <2>1. IsFiniteSet(1..card) /\ Cardinality(1..card) = card
    BY <1>1, FS_Interval
  <2> HIDE DEF rank
  <2> QED BY <1>4, <2>1, FS_Injection
<1>6. \A k \in 1..card : \E i \in S : rank[i] = k
  <2> HIDE DEF rank
  <2> QED BY <1>5 DEF Surjection
<1>7. S \in SUBSET Nat
  OBVIOUS
<1>8. Numbers[S] = [k \in 1..card |-> CHOOSE i \in S : Cardinality({j \in S : j <= i}) = k]
  BY <1>7 DEF Numbers
<1>9. \A k \in 1..card : Numbers[S][k] \in S
  BY <1>6, <1>8
<1>10. Numbers[S] \in [1..card -> S]
  BY <1>8, <1>9
<1>11. Len(Numbers[S]) = card
  BY <1>1, <1>10
<1> QED BY <1>1, <1>9, <1>10, <1>11

(* The generator works on one of the files of the request. *)
RequestInv ==
  /\ \E request \in Requests : files = request.files
  /\ file \in Nat \ {0}

(* What the assumption on the requests says of the files being built.      *)
LEMMA FilesAre ==
  ASSUME RequestInv
  PROVE  /\ IsList(files)
         /\ \A i \in 1..Len(files) :
              /\ files[i] \in ToSet(files)
              /\ DOMAIN files[i] = {"package", "syntax", "messages", "enums", "services"}
              /\ files[i].package \in Seq(STRING) /\ Module(files[i]) \in Seq(Names)
              /\ files[i].messages \in Seq(Messages)
              /\ AreEnums(files[i].enums) /\ AreServices(files[i].services)
<1>1. PICK request \in Requests : files = request.files
  BY DEF RequestInv
<1>2. IsList(files)
  BY <1>1, RequestsAssumption
<1>3. \A i \in 1..Len(files) : files[i] \in ToSet(files)
  BY <1>2 DEF IsList, ToSet
<1> QED BY <1>1, <1>2, <1>3, RequestsAssumption

(* What the message on top is like: the one of the file is like any other. *)
MessageLike(m) ==
  /\ m.nested \in Seq(Messages) /\ IsList(m.fields) /\ IsList(m.oneofs) /\ AreEnums(m.enums)

(* What the frame on top is, the one of the file included.                 *)
LEMMA TopIs ==
  ASSUME RequestInv, FramesInv, frames # <<>>
  PROVE  /\ Len(frames) \in Nat \ {0} /\ Top = frames[Len(frames)] /\ Top \in FrameSet
         /\ Top.next \in Nat \ {0} /\ Top.name \in Seq(STRING) /\ MessageLike(Message)
         /\ file \in 1..Len(files)
<1>1. Len(frames) \in Nat \ {0} /\ Top = frames[Len(frames)] /\ Top \in FrameSet
  BY AdvanceIs DEF FramesInv
<1>2. /\ Top.next \in Nat \ {0} /\ Top.name \in Seq(STRING)
      /\ Top.message \in Messages \cup {FileMessage(f) : f \in ToSet(files)}
  BY <1>1 DEF FrameSet
<1>3. MessageLike(Message)
  <2>1. CASE Top.message \in Messages
    BY <2>1, MessagesAssumption DEF Message, MessageLike
  <2>2. CASE Top.message \in {FileMessage(f) : f \in ToSet(files)}
    <3>1. PICK f \in ToSet(files) : Message = FileMessage(f)
      BY <2>2 DEF Message
    <3>2. PICK i \in 1..Len(files) : f = files[i]
      BY <3>1, FilesAre DEF ToSet, IsList
    <3>3. f.messages \in Seq(Messages) /\ AreEnums(f.enums)
      BY <3>2, FilesAre
    <3>4. IsList(<<>>)
      BY DEF IsList
    <3>5. /\ FileMessage(f).nested = f.messages /\ FileMessage(f).enums = f.enums
          /\ FileMessage(f).fields = <<>> /\ FileMessage(f).oneofs = <<>>
      BY DEF FileMessage, MessageWith
    <3> QED BY <3>1, <3>3, <3>4, <3>5 DEF MessageLike
  <2> QED BY <1>2, <2>1, <2>2
<1> QED BY <1>1, <1>2, <1>3 DEF FramesInv

(* What the lists of a message are the numbers of. *)
LEMMA ListsAre ==
  ASSUME NEW m, MessageLike(m)
  PROVE  /\ Len(NestedTypes(m)) \in Nat /\ Len(PlainFields(m)) \in Nat /\ Len(OneofFields(m)) \in Nat
         /\ \A k \in 1..Len(NestedTypes(m)) : NestedTypes(m)[k] \in 1..Len(m.nested)
         /\ \A k \in 1..Len(PlainFields(m)) : PlainFields(m)[k] \in 1..Len(m.fields)
         /\ \A k \in 1..Len(OneofFields(m)) : OneofFields(m)[k] \in 1..Len(m.oneofs)
         /\ \A o : ToSet(Variants(m, o)) \subseteq 1..Len(m.fields)
<1>1. /\ Len(m.nested) \in Nat /\ DOMAIN m.nested = 1..Len(m.nested)
      /\ Len(m.fields) \in Nat /\ DOMAIN m.fields = 1..Len(m.fields)
      /\ Len(m.oneofs) \in Nat /\ DOMAIN m.oneofs = 1..Len(m.oneofs)
  BY DEF MessageLike, IsList
<1>2. Len(NestedTypes(m)) \in Nat /\ \A k \in 1..Len(NestedTypes(m)) : NestedTypes(m)[k] \in 1..Len(m.nested)
  <2> DEFINE S == {i \in DOMAIN m.nested : ~m.nested[i].mapEntry}
  <2>1. NestedTypes(m) = Numbers[S]
    BY DEF NestedTypes
  <2>2. S \in SUBSET (1..Len(m.nested))
    BY <1>1
  <2> HIDE DEF S
  <2> QED BY <1>1, <2>1, <2>2, NumbersAreIn
<1>3. Len(PlainFields(m)) \in Nat /\ \A k \in 1..Len(PlainFields(m)) : PlainFields(m)[k] \in 1..Len(m.fields)
  <2> DEFINE S == {i \in DOMAIN m.fields : InNoOneof(m.fields[i])}
  <2>1. PlainFields(m) = Numbers[S]
    BY DEF PlainFields
  <2>2. S \in SUBSET (1..Len(m.fields))
    BY <1>1
  <2> HIDE DEF S
  <2> QED BY <1>1, <2>1, <2>2, NumbersAreIn
<1>4. Len(OneofFields(m)) \in Nat /\ \A k \in 1..Len(OneofFields(m)) : OneofFields(m)[k] \in 1..Len(m.oneofs)
  <2> DEFINE S == {o \in DOMAIN m.oneofs : Variants(m, o) # <<>>}
  <2>1. OneofFields(m) = Numbers[S]
    BY DEF OneofFields
  <2>2. S \in SUBSET (1..Len(m.oneofs))
    BY <1>1
  <2> HIDE DEF S
  <2> QED BY <1>1, <2>1, <2>2, NumbersAreIn
<1>5. ASSUME NEW o PROVE ToSet(Variants(m, o)) \subseteq 1..Len(m.fields)
  <2> DEFINE S == {i \in DOMAIN m.fields : ~InNoOneof(m.fields[i]) /\ m.fields[i].oneof = o}
  <2>1. Variants(m, o) = Numbers[S]
    BY DEF Variants
  <2>2. S \in SUBSET (1..Len(m.fields))
    BY <1>1
  <2> HIDE DEF S
  <2>3. Variants(m, o) \in [1..Len(Variants(m, o)) -> S]
    BY <1>1, <2>1, <2>2, NumbersAreIn
  <2> QED BY <2>2, <2>3 DEF ToSet
<1> QED BY <1>2, <1>3, <1>4, <1>5

(* The nested message at hand. *)
LEMMA ChildIs ==
  ASSUME RequestInv, FramesInv, AtChild
  PROVE  /\ frames # <<>> /\ Child \in 1..Len(Message.nested) /\ ChildMessage \in Messages
         /\ Top.stage = "nested"
<1>1. frames # <<>> /\ Top.stage = "nested" /\ Top.next <= Len(NestedTypes(Message))
  BY DEF AtChild, Working
<1>2. Top.next \in Nat \ {0} /\ MessageLike(Message)
  BY <1>1, TopIs
<1>3. Child \in 1..Len(Message.nested)
  BY <1>1, <1>2, ListsAre DEF Child
<1>4. Message.nested \in Seq(Messages)
  BY <1>2 DEF MessageLike
<1>5. ChildMessage \in Messages
  BY <1>3, <1>4 DEF ChildMessage
<1> QED BY <1>1, <1>3, <1>5

(* The frames stay in order when the one on top goes on,                   *)
LEMMA FramesAdvance ==
  ASSUME FramesInv, frames # <<>>, frames' = Advance, UNCHANGED <<files, file>>
  PROVE  FramesInv' /\ frames' # <<>>
<1>1. /\ frames' \in Seq(FrameSet) /\ Len(frames') = Len(frames) /\ Len(frames) \in Nat \ {0}
      /\ \A k \in 1..(Len(frames) - 1) : frames'[k] = frames[k]
      /\ frames'[Len(frames)].message = frames[Len(frames)].message
      /\ frames'[Len(frames)].stage = frames[Len(frames)].stage
  BY AdvanceIs DEF FramesInv
<1>2. frames' # <<>>
  BY <1>1
<1>3. FrameSet' = FrameSet /\ (FileMessage(File))' = FileMessage(File)
  BY DEF FrameSet, File, FileMessage
<1>4. \A k \in 1..Len(frames) :
        frames'[k].message = frames[k].message /\ frames'[k].stage = frames[k].stage
  <2>1. \A k \in 1..Len(frames) : k \in 1..(Len(frames) - 1) \/ k = Len(frames)
    BY <1>1
  <2> QED BY <1>1, <2>1
<1>5. /\ \A k \in 2..Len(frames) : k \in 1..Len(frames)
      /\ \A k \in 1..(Len(frames) - 1) : k \in 1..Len(frames)
      /\ 1 \in 1..Len(frames)
  BY <1>1
<1> HIDE DEF FrameSet, FileMessage, File
<1> QED BY <1>1, <1>2, <1>3, <1>4, <1>5 DEF FramesInv

(* when it enters a stage that its message, or the file, has,              *)
LEMMA FramesEnter ==
  ASSUME FramesInv, frames # <<>>, NEW s, frames' = Enter(s), UNCHANGED <<files, file>>,
         Len(frames) = 1 => s \in FileStages, Len(frames) # 1 => s \in MessageStages
  PROVE  FramesInv' /\ frames' # <<>>
<1>0. s \in FileStages \cup MessageStages
  OBVIOUS
<1>1. /\ frames' \in Seq(FrameSet) /\ Len(frames') = Len(frames) /\ Len(frames) \in Nat \ {0}
      /\ \A k \in 1..(Len(frames) - 1) : frames'[k] = frames[k]
      /\ frames'[Len(frames)].message = frames[Len(frames)].message
      /\ frames'[Len(frames)].stage = s
  <2>1. FramesInv => frames \in Seq(FrameSet)
    BY DEF FramesInv
  <2>2. Top = frames[Len(frames)]
    BY DEF Top, Last
  <2> HIDE DEF FramesInv, FrameSet, Enter, Top
  <2>3. /\ Enter(s) \in Seq(FrameSet) /\ Len(Enter(s)) = Len(frames) /\ Len(frames) \in Nat \ {0}
        /\ \A k \in 1..(Len(frames) - 1) : Enter(s)[k] = frames[k]
        /\ Enter(s)[Len(frames)] = [message |-> Top.message, name |-> Top.name, stage |-> s, next |-> 1]
    BY <1>0, <2>1, EnterIs
  <2> QED BY <2>2, <2>3
<1>2. frames' # <<>>
  BY <1>1
<1>3. FrameSet' = FrameSet /\ (FileMessage(File))' = FileMessage(File)
  BY DEF FrameSet, File, FileMessage
<1>4. \A k \in 1..Len(frames) : frames'[k].message = frames[k].message
  <2>1. \A k \in 1..Len(frames) : k \in 1..(Len(frames) - 1) \/ k = Len(frames)
    BY <1>1
  <2> QED BY <1>1, <2>1
<1>5. /\ \A k \in 2..Len(frames) : k \in 1..Len(frames)
      /\ \A k \in 1..(Len(frames) - 1) : k \in 1..Len(frames)
      /\ 1 \in 1..Len(frames)
  BY <1>1
<1>6. frames'[1].stage \in FileStages
  <2>1. CASE Len(frames) = 1
    BY <1>1, <2>1
  <2>2. CASE Len(frames) # 1
    <3>1. 1 \in 1..(Len(frames) - 1)
      BY <1>1, <2>2
    <3> QED BY <1>1, <3>1 DEF FramesInv
  <2> QED BY <2>1, <2>2
<1>7. ASSUME NEW k \in 2..Len(frames) PROVE frames'[k].stage \in MessageStages
  <2>1. CASE k = Len(frames)
    <3>1. Len(frames) # 1
      BY <1>1, <2>1
    <3> QED BY <1>1, <2>1, <3>1
  <2>2. CASE k # Len(frames)
    <3>1. k \in 1..(Len(frames) - 1)
      BY <1>1, <2>2
    <3> QED BY <1>1, <3>1 DEF FramesInv
  <2> QED BY <2>1, <2>2
<1>8. /\ file \in 1..Len(files) /\ frames[1].message = FileMessage(File)
      /\ \A k \in 2..Len(frames) : frames[k].message \in Messages
      /\ \A k \in 1..(Len(frames) - 1) : frames[k].stage = "nested"
  BY DEF FramesInv
<1> HIDE DEF FrameSet, FileMessage, File
<1>9. /\ file' \in 1..Len(files') /\ frames'[1].message = (FileMessage(File))'
      /\ \A k \in 2..Len(frames') : frames'[k].message \in Messages /\ frames'[k].stage \in MessageStages
      /\ \A k \in 1..(Len(frames') - 1) : frames'[k].stage = "nested"
  BY <1>1, <1>3, <1>4, <1>5, <1>7, <1>8
<1> QED BY <1>1, <1>2, <1>3, <1>6, <1>9 DEF FramesInv

(* when the frame of a nested message is put on top,                       *)
LEMMA FramesOpen ==
  ASSUME RequestInv, FramesInv, AtChild, NEW name \in Seq(STRING),
         frames' = Append(Advance, Frame(ChildMessage, name, "fields")), UNCHANGED <<files, file>>
  PROVE  FramesInv' /\ frames' # <<>>
<1>0. frames # <<>> /\ ChildMessage \in Messages /\ Top.stage = "nested"
  BY ChildIs
<1> DEFINE new == [message |-> ChildMessage, name |-> name, stage |-> "fields", next |-> 1]
<1>1. new \in FrameSet /\ new = Frame(ChildMessage, name, "fields")
  BY <1>0 DEF FrameSet, Frame, MessageStages
<1>2. /\ Advance \in Seq(FrameSet) /\ Len(Advance) = Len(frames) /\ Len(frames) \in Nat \ {0}
      /\ \A k \in 1..(Len(frames) - 1) : Advance[k] = frames[k]
      /\ Advance[Len(frames)].message = frames[Len(frames)].message
      /\ Advance[Len(frames)].stage = "nested"
      /\ frames[Len(frames)].stage = "nested"
  BY <1>0, AdvanceIs DEF FramesInv
<1>3. /\ frames' \in Seq(FrameSet) /\ Len(frames') = Len(frames) + 1
      /\ \A k \in 1..Len(frames) : frames'[k] = Advance[k]
      /\ frames'[Len(frames) + 1] = new
  <2> HIDE DEF new, FrameSet
  <2> QED BY <1>1, <1>2
<1>4. FrameSet' = FrameSet /\ (FileMessage(File))' = FileMessage(File)
  BY DEF FrameSet, File, FileMessage
<1>5. /\ file \in 1..Len(files) /\ frames[1].message = FileMessage(File)
      /\ frames[1].stage \in FileStages
      /\ \A k \in 2..Len(frames) : frames[k].message \in Messages /\ frames[k].stage \in MessageStages
      /\ \A k \in 1..(Len(frames) - 1) : frames[k].stage = "nested"
  BY <1>0 DEF FramesInv
<1>6. \A k \in 1..Len(frames) :
        frames'[k].message = frames[k].message /\ frames'[k].stage = frames[k].stage
  <2>1. \A k \in 1..Len(frames) : k \in 1..(Len(frames) - 1) \/ k = Len(frames)
    BY <1>2
  <2> QED BY <1>2, <1>3, <2>1
<1>7. /\ \A k \in 2..Len(frames') : k \in 2..Len(frames) \/ k = Len(frames) + 1
      /\ \A k \in 2..Len(frames) : k \in 1..Len(frames)
      /\ \A k \in 1..(Len(frames') - 1) : k \in 1..(Len(frames) - 1) \/ k = Len(frames)
      /\ \A k \in 1..(Len(frames') - 1) : k \in 1..Len(frames)
      /\ 1 \in 1..Len(frames)
  BY <1>2, <1>3
<1>8. frames'[Len(frames) + 1].message \in Messages /\ frames'[Len(frames) + 1].stage \in MessageStages
  BY <1>0, <1>3 DEF MessageStages
<1> HIDE DEF FrameSet, FileMessage, File, new
<1>9. /\ file' \in 1..Len(files') /\ frames'[1].message = (FileMessage(File))'
      /\ frames'[1].stage \in FileStages
      /\ \A k \in 2..Len(frames') : frames'[k].message \in Messages /\ frames'[k].stage \in MessageStages
      /\ \A k \in 1..(Len(frames') - 1) : frames'[k].stage = "nested"
  BY <1>2, <1>4, <1>5, <1>6, <1>7, <1>8
<1>10. frames' # <<>>
  BY <1>2, <1>3
<1> QED BY <1>3, <1>4, <1>9, <1>10 DEF FramesInv

(* and when the one of a finished message is taken away.                   *)
LEMMA FramesClose ==
  ASSUME FramesInv, frames # <<>>, Top.stage = "name", frames' = Front(frames), UNCHANGED <<files, file>>
  PROVE  /\ FramesInv' /\ frames' # <<>> /\ Len(frames) - 1 \in Nat \ {0} /\ Len(frames') = Len(frames) - 1
         /\ \A k \in 1..(Len(frames) - 1) : frames'[k] = frames[k]
<1>1. Len(frames) \in Nat \ {0} /\ frames \in Seq(FrameSet) /\ frames[Len(frames)].stage = "name"
  BY AdvanceIs DEF FramesInv
<1>2. /\ file \in 1..Len(files) /\ frames[1].message = FileMessage(File)
      /\ frames[1].stage \in FileStages
      /\ \A k \in 2..Len(frames) : frames[k].message \in Messages /\ frames[k].stage \in MessageStages
      /\ \A k \in 1..(Len(frames) - 1) : frames[k].stage = "nested"
  BY DEF FramesInv
<1>3. Len(frames) # 1
  BY <1>1, <1>2 DEF FileStages
<1>4. PICK n \in Nat \ {0} : n = Len(frames) - 1
  <2>1. Len(frames) - 1 \in Nat \ {0}
    BY <1>1, <1>3
  <2> QED BY <2>1
<1>5. /\ frames' \in Seq(FrameSet) /\ Len(frames') = n
      /\ \A k \in 1..n : frames'[k] = frames[k]
  <2>1. frames' = SubSeq(frames, 1, n)
    BY <1>4 DEF Front
  <2>2. \A i \in 1..n : frames[i] \in FrameSet
    <3> HIDE DEF FrameSet
    <3> QED BY <1>1, <1>4
  <2> HIDE DEF FrameSet
  <2>3. /\ SubSeq(frames, 1, n) \in Seq(FrameSet)
        /\ Len(SubSeq(frames, 1, n)) = IF 1 <= n THEN n - 1 + 1 ELSE 0
        /\ \A i \in 1..(n - 1 + 1) : SubSeq(frames, 1, n)[i] = frames[1 + i - 1]
    BY <2>2, <1>4, SubSeqProperties
  <2> QED BY <2>1, <2>3
<1>6. FrameSet' = FrameSet /\ (FileMessage(File))' = FileMessage(File)
  BY DEF FrameSet, File, FileMessage
<1>7. /\ \A k \in 2..n : k \in 2..Len(frames) /\ k \in 1..n
      /\ \A k \in 1..(n - 1) : k \in 1..(Len(frames) - 1) /\ k \in 1..n
      /\ 1 \in 1..n
  BY <1>1, <1>4
<1> HIDE DEF FrameSet, FileMessage, File
<1>8. /\ file' \in 1..Len(files') /\ frames'[1].message = (FileMessage(File))'
      /\ frames'[1].stage \in FileStages
      /\ \A k \in 2..Len(frames') : frames'[k].message \in Messages /\ frames'[k].stage \in MessageStages
      /\ \A k \in 1..(Len(frames') - 1) : frames'[k].stage = "nested"
  BY <1>2, <1>5, <1>6, <1>7
<1>9. frames' # <<>>
  BY <1>4, <1>5
<1> QED BY <1>4, <1>5, <1>6, <1>8, <1>9 DEF FramesInv

(* The file, its open calls, and the names they give. *)
WalkInv == RequestInv /\ FramesInv /\ typePath \in Seq(STRING)

(* What the generator writes are items of the file, while it is generated. *)
WritesTo(f, unit) ==
  /\ out \subseteq out' /\ \A item \in out' \ out : item.unit = unit /\ item.file = f
  /\ out' # out => frames # <<>>

(* A name in the module at hand: Append, where the code joins with dots.   *)
LEMMA FqNameIs ==
  ASSUME WalkInv, frames # <<>>, NEW name \in STRING
  PROVE  FqName(name) = Append(File.package \o typePath, name) /\ FqName(name) \in Seq(STRING)
<1>1. File.package \in Seq(STRING)
  <2>1. file \in 1..Len(files)
    BY DEF WalkInv, FramesInv
  <2> QED BY <2>1, FilesAre DEF WalkInv, File
<1>2. typePath \in Seq(STRING)
  BY DEF WalkInv
<1>3. PICK s \in Seq(STRING) : s = File.package \o typePath
  BY <1>1, <1>2, ConcatProperties
<1>4. File.package \o typePath \o <<name>> = Append(s, name) /\ Append(s, name) \in Seq(STRING)
  BY <1>3
<1> QED BY <1>3, <1>4 DEF FqName

(* Which stages the frame on top can be in, the file or a message.         *)
LEMMA StagesAre ==
  ASSUME WalkInv, frames # <<>>
  PROVE  /\ Len(frames) # 1 => Top.stage \in MessageStages /\ Message \in Messages
         /\ Len(frames) = 1 => Top.stage \in FileStages
<1>1. Len(frames) \in Nat \ {0} /\ Top = frames[Len(frames)]
  BY TopIs DEF WalkInv
<1>2. Len(frames) # 1 => Len(frames) \in 2..Len(frames)
  BY <1>1
<1> QED BY <1>1, <1>2 DEF WalkInv, FramesInv, Message

(* Every step of the walk keeps this, and writes to the file it is in only. *)
LEMMA WalkKeepsFrames ==
  ASSUME WalkInv, Walk
  PROVE  WalkInv' /\ WritesTo(file, Module(File)) /\ UNCHANGED <<config, files, file>>
         /\ (frames # <<>> => frames' # <<>>)
<1> USE DEF Fixed
<1>0. ASSUME UNCHANGED <<files, file>> PROVE RequestInv'
  BY <1>0 DEF WalkInv, RequestInv
<1>1. CASE RefuseSyntax
  BY <1>0, <1>1 DEF RefuseSyntax, WalkInv, WritesTo, FramesInv, FrameSet, File, FileMessage
<1>2. CASE StartFile
  <2>1. file \in 1..Len(files) /\ frames = <<>>
    BY <1>2, FilesAre DEF StartFile, AtFileStart, WalkInv, RequestInv, IsList
  <2>2. PICK frame : frame = Frame(FileMessage(File), <<>>, "nested")
    OBVIOUS
  <2>3. frames' = <<frame>>
    BY <1>2, <2>2 DEF StartFile, FileMessage
  <2>4. frame \in FrameSet /\ frame.message = FileMessage(File) /\ frame.stage = "nested"
    <3>1. File \in ToSet(files)
      BY <2>1, FilesAre DEF File, WalkInv
    <3>2. FileMessage(File) \in {FileMessage(f) : f \in ToSet(files)} /\ <<>> \in Seq(STRING)
      BY <3>1
    <3> HIDE DEF FileMessage, File
    <3> QED BY <2>2, <3>2 DEF FrameSet, Frame, FileStages
  <2>5. UNCHANGED <<config, files, file, out>> /\ typePath' = <<>>
    BY <1>2 DEF StartFile
  <2>6. FrameSet' = FrameSet /\ (FileMessage(File))' = FileMessage(File)
    BY <2>5 DEF FrameSet, File, FileMessage
  <2> HIDE DEF FrameSet, FileMessage, File
  <2>7. /\ frames' \in Seq(FrameSet) /\ Len(frames') = 1 /\ frames'[1] = frame /\ frames' # <<>>
    BY <2>3, <2>4
  <2>8. FramesInv'
    <3>1. /\ \A k \in 2..Len(frames') : FALSE
          /\ \A k \in 1..(Len(frames') - 1) : FALSE
      BY <2>7
    <3> QED BY <2>1, <2>4, <2>5, <2>6, <2>7, <3>1 DEF FramesInv, FileStages
  <2> QED BY <1>0, <2>1, <2>5, <2>7, <2>8 DEF WalkInv, WritesTo
<1>3. CASE SkipExternalMessage
  <2>1. frames # <<>> /\ frames' = Advance /\ UNCHANGED <<config, files, file, typePath, out>>
    BY <1>3 DEF SkipExternalMessage, AtChild, Working
  <2> QED BY <1>0, <2>1, FramesAdvance DEF WalkInv, WritesTo
<1>4. CASE OverflowStack
  BY <1>0, <1>4 DEF OverflowStack, WalkInv, WritesTo, FramesInv, FrameSet, File, FileMessage
<1>5. CASE OpenMessage
  <2> DEFINE name == FqName(ChildMessage.name)
             item == StructItem(ChildMessage, Append(path, Child - 1))
  <2>1. AtChild /\ out' = out \cup {item} /\ frames' = Append(Advance, Frame(ChildMessage, name, "fields"))
        /\ UNCHANGED <<config, files, file, typePath>>
    BY <1>5 DEF OpenMessage, Write
  <2>2. ChildMessage \in Messages /\ frames # <<>>
    BY <2>1, ChildIs DEF WalkInv
  <2>3. name \in Seq(STRING)
    <3>1. ChildMessage.name \in STRING
      BY <2>2, MessagesAssumption
    <3> QED BY <2>2, <3>1, FqNameIs
  <2>4. item.unit = Module(File) /\ item.file = file
    BY ItemsAre DEF ItemOf
  <2> HIDE DEF item, name
  <2>5. FramesInv' /\ frames' # <<>>
    BY <2>1, <2>3, FramesOpen DEF WalkInv
  <2> QED BY <1>0, <2>1, <2>2, <2>4, <2>5 DEF WalkInv, WritesTo
<1>6. CASE WriteField
  <2> DEFINE i == PlainFields(Message)[Top.next]
             field == Message.fields[i]
             where == Append(path, i - 1)
  <2>1. frames # <<>> /\ frames' = Advance /\ UNCHANGED <<config, files, file, typePath>>
    BY <1>6 DEF WriteField, Working
  <2>2. PICK item : out' = out \cup {item} /\ item.unit = Module(File) /\ item.file = file
    <3>1. CASE Write({FieldItem(Top.name, field, where)})
      BY <3>1, ItemsAre DEF ItemOf, Write
    <3>2. ASSUME NEW entry, Write({MapItem(Top.name, field, entry, where)})
          PROVE \E item : out' = out \cup {item} /\ item.unit = Module(File) /\ item.file = file
      BY <3>2, ItemsAre DEF ItemOf, Write
    <3> QED BY <1>6, <3>1, <3>2 DEF WriteField
  <2> QED BY <1>0, <2>1, <2>2, FramesAdvance DEF WalkInv, WritesTo
<1>7. CASE EndFields
  <2>1. frames # <<>> /\ frames' = Enter("oneofs") /\ Top.stage = "fields"
        /\ UNCHANGED <<config, files, file, typePath, out>>
    BY <1>7 DEF EndFields, Finished
  <2>2. Len(frames) # 1 /\ "oneofs" \in MessageStages
    BY <2>1, StagesAre DEF FileStages, MessageStages
  <2> QED BY <1>0, <2>1, <2>2, FramesEnter DEF WalkInv, WritesTo
<1>8. CASE WriteOneofField
  <2>1. frames # <<>> /\ frames' = Advance /\ UNCHANGED <<config, files, file, typePath>>
    BY <1>8 DEF WriteOneofField, Working
  <2>2. PICK item : out' = out \cup {item} /\ item.unit = Module(File) /\ item.file = file
    <3> DEFINE o == OneofFields(Message)[Top.next]
               item == OneofFieldItem(Message, Top.name, o, Append(path, o - 1))
    <3>1. out' = out \cup {item}
      BY <1>8 DEF WriteOneofField, Write
    <3>2. item.unit = Module(File) /\ item.file = file
      BY ItemsAre DEF ItemOf
    <3> HIDE DEF item
    <3> QED BY <3>1, <3>2
  <2> QED BY <1>0, <2>1, <2>2, FramesAdvance DEF WalkInv, WritesTo
<1>9. CASE EndOneofs
  <2>1. frames # <<>> /\ Top.stage = "oneofs" /\ UNCHANGED <<config, files, file, out>>
    BY <1>9 DEF EndOneofs, Finished
  <2>2. Len(frames) # 1 /\ Message \in Messages /\ "nested" \in MessageStages /\ "name" \in MessageStages
    BY <2>1, StagesAre DEF FileStages, MessageStages
  <2>3. frames' = Enter("nested") \/ frames' = Enter("name")
    BY <1>9 DEF EndOneofs
  <2>4. FramesInv' /\ frames' # <<>>
    BY <2>1, <2>2, <2>3, FramesEnter DEF WalkInv
  <2>5. typePath' \in Seq(STRING)
    <3>1. Message.name \in STRING /\ typePath \in Seq(STRING)
      BY <2>2, MessagesAssumption DEF WalkInv
    <3>2. typePath' = Append(typePath, Message.name) \/ typePath' = typePath
      BY <1>9 DEF EndOneofs
    <3> QED BY <3>1, <3>2
  <2> QED BY <1>0, <2>1, <2>4, <2>5 DEF WalkInv, WritesTo
<1>10. CASE EndNested
  <2>1. frames # <<>> /\ frames' = Enter("enums") /\ UNCHANGED <<config, files, file, typePath, out>>
    BY <1>10 DEF EndNested, Finished
  <2>2. "enums" \in MessageStages /\ "enums" \in FileStages
    BY DEF FileStages, MessageStages
  <2> QED BY <1>0, <2>1, <2>2, FramesEnter DEF WalkInv, WritesTo
<1>11. CASE AppendEnum
  <2> DEFINE enum == Message.enums[Top.next]
  <2>1. frames # <<>> /\ UNCHANGED <<config, files, file, typePath>>
        /\ (frames' = Advance \/ frames' = frames)
    BY <1>11 DEF AppendEnum, Working
  <2>2. FramesInv' /\ frames' # <<>>
    <3>1. CASE frames' = frames
      BY <2>1, <3>1 DEF WalkInv, FramesInv, FrameSet, File, FileMessage
    <3> QED BY <2>1, <3>1, FramesAdvance DEF WalkInv
  <2>3. WritesTo(file, Module(File))
    <3>1. out' = out \/ out' = out \cup EnumItems(enum, Append(path, Top.next - 1))
      BY <1>11 DEF AppendEnum, Write
    <3>2. \A item \in EnumItems(enum, Append(path, Top.next - 1)) :
             item.unit = Module(File) /\ item.file = file
      BY DEF EnumItems, Item
    <3> HIDE DEF enum
    <3> QED BY <2>1, <3>1, <3>2 DEF WritesTo
  <2> QED BY <1>0, <2>1, <2>2, <2>3 DEF WalkInv
<1>12. CASE EndEnums
  <2>1. frames # <<>> /\ UNCHANGED <<config, files, file, typePath, out>>
    BY <1>12 DEF EndEnums, Finished
  <2>2. \/ Len(frames) # 1 /\ frames' = Enter("variants")
        \/ Len(frames) = 1 /\ frames' = Enter("services")
        \/ Len(frames) = 1 /\ frames' = Enter("end")
    BY <1>12 DEF EndEnums, AtFile
  <2>3. "variants" \in MessageStages /\ "services" \in FileStages /\ "end" \in FileStages
    BY DEF FileStages, MessageStages
  <2>4. FramesInv' /\ frames' # <<>>
    BY <2>1, <2>2, <2>3, FramesEnter DEF WalkInv
  <2> QED BY <1>0, <2>1, <2>4 DEF WalkInv, WritesTo
<1>13. CASE AppendOneof
  <2> DEFINE o == OneofFields(Message)[Top.next]
             variant(i) == VariantItem(Top.name, Message.oneofs[o], Message.fields[i], path \o <<2, i - 1>>)
             items == {OneofItem(Message, Top.name, o, path \o <<8, o - 1>>)}
                        \cup {variant(i) : i \in ToSet(Variants(Message, o))}
  <2>1. frames # <<>> /\ UNCHANGED <<config, files, file, typePath>>
        /\ (frames' = Advance \/ frames' = frames)
    BY <1>13 DEF AppendOneof, Working
  <2>2. FramesInv' /\ frames' # <<>>
    <3>1. CASE frames' = frames
      BY <2>1, <3>1 DEF WalkInv, FramesInv, FrameSet, File, FileMessage
    <3> QED BY <2>1, <3>1, FramesAdvance DEF WalkInv
  <2>3. WritesTo(file, Module(File))
    <3>1. out' = out \/ out' = out \cup items
      BY <1>13 DEF AppendOneof, Write
    <3>2. \A item \in items : item.unit = Module(File) /\ item.file = file
      <4>1. \A i : variant(i).unit = Module(File) /\ variant(i).file = file
        BY ItemsAre DEF ItemOf
      <4>2. \A w : /\ OneofItem(Message, Top.name, o, w).unit = Module(File)
                   /\ OneofItem(Message, Top.name, o, w).file = file
        BY ItemsAre DEF ItemOf
      <4> HIDE DEF variant, o
      <4> QED BY <4>1, <4>2
    <3> HIDE DEF items
    <3> QED BY <2>1, <3>1, <3>2 DEF WritesTo
  <2> QED BY <1>0, <2>1, <2>2, <2>3 DEF WalkInv
<1>14. CASE EndVariants
  <2>1. frames # <<>> /\ frames' = Enter("name") /\ Top.stage = "variants"
        /\ UNCHANGED <<config, files, file, out>> /\ typePath' = Front(typePath)
    BY <1>14 DEF EndVariants, Finished
  <2>2. Len(frames) # 1 /\ "name" \in MessageStages
    BY <2>1, StagesAre DEF FileStages, MessageStages
  <2>3. typePath' \in Seq(STRING)
    <3>1. typePath \in Seq(STRING)
      BY DEF WalkInv
    <3>2. \A i \in 1..(Len(typePath) - 1) : typePath[i] \in STRING
      BY <3>1
    <3>3. Len(typePath) - 1 \in Int
      BY <3>1
    <3> QED BY <2>1, <3>2, <3>3, SubSeqProperties DEF Front
  <2>4. FramesInv' /\ frames' # <<>>
    BY <2>1, <2>2, FramesEnter DEF WalkInv
  <2> QED BY <1>0, <2>1, <2>3, <2>4 DEF WalkInv, WritesTo
<1>15. CASE EndMessage
  <2>1. frames # <<>> /\ frames' = Front(frames) /\ Top.stage = "name"
        /\ UNCHANGED <<config, files, file, typePath>>
    BY <1>15 DEF EndMessage, Working
  <2>2. FramesInv' /\ frames' # <<>>
    BY <2>1, FramesClose DEF WalkInv
  <2>3. WritesTo(file, Module(File))
    <3>1. out' = out \/ out' = out \cup {NameItem(Message)}
      BY <1>15 DEF EndMessage, Write
    <3>2. NameItem(Message).unit = Module(File) /\ NameItem(Message).file = file
      BY ItemsAre DEF ItemOf
    <3> QED BY <2>1, <3>1, <3>2 DEF WritesTo
  <2> QED BY <1>0, <2>1, <2>2, <2>3 DEF WalkInv
<1>16. CASE PushService
  <2> DEFINE items == ServiceItems(File.services[Top.next], Append(path, Top.next - 1))
  <2>1. frames # <<>> /\ frames' = Advance /\ UNCHANGED <<config, files, file, typePath>>
    BY <1>16 DEF PushService, Working
  <2>2. FramesInv' /\ frames' # <<>>
    BY <2>1, FramesAdvance DEF WalkInv
  <2>3. WritesTo(file, Module(File))
    <3>1. out' = out \/ out' = out \cup items
      BY <1>16 DEF PushService, Write
    <3>2. \A item \in items : item.unit = Module(File) /\ item.file = file
      <4>1. \A v, m, w : /\ MethodItem(v, m, w).unit = Module(File)
                         /\ MethodItem(v, m, w).file = file
        BY ItemsAre DEF ItemOf
      <4>2. \A k, n, p, w : Item(k, n, p, w).unit = Module(File) /\ Item(k, n, p, w).file = file
        BY DEF Item
      <4> DEFINE s == File.services[Top.next]
                 w == Append(path, Top.next - 1)
      <4>3. items = {Item("service", Camel[s.name], Append(File.package, s.name), w)}
                      \cup {MethodItem(s, s.methods[i], w \o <<2, i - 1>>) : i \in 1..Len(s.methods)}
        BY DEF ServiceItems
      <4>4. /\ Item("service", Camel[s.name], Append(File.package, s.name), w).unit = Module(File)
            /\ Item("service", Camel[s.name], Append(File.package, s.name), w).file = file
        BY <4>2
      <4>5. \A i \in 1..Len(s.methods) :
              /\ MethodItem(s, s.methods[i], w \o <<2, i - 1>>).unit = Module(File)
              /\ MethodItem(s, s.methods[i], w \o <<2, i - 1>>).file = file
        BY <4>1
      <4> HIDE DEF items, s, w
      <4> QED BY <4>3, <4>4, <4>5, Zenon
    <3> HIDE DEF items
    <3> QED BY <2>1, <3>1, <3>2 DEF WritesTo
  <2> QED BY <1>0, <2>1, <2>2, <2>3 DEF WalkInv
<1>17. CASE EndServices
  <2>1. frames # <<>> /\ frames' = Enter("end") /\ Top.stage = "services"
        /\ UNCHANGED <<config, files, file, typePath, out>>
    BY <1>17 DEF EndServices, Finished
  <2>2. Len(frames) = 1 /\ "end" \in FileStages
    BY <2>1, StagesAre DEF FileStages, MessageStages
  <2> QED BY <1>0, <2>1, <2>2, FramesEnter DEF WalkInv, WritesTo
<1> QED BY <1>1, <1>2, <1>3, <1>4, <1>5, <1>6, <1>7, <1>8, <1>9, <1>10, <1>11, <1>12, <1>13,
           <1>14, <1>15, <1>16, <1>17 DEF Walk

(* The modules are the units of what is written, but for the file that is  *)
(* still being generated.                                                  *)
ModulesInv ==
  /\ IsFiniteSet(modules) /\ modules \subseteq Seq(Names)
  /\ \A item \in out : item.unit \in modules \/ (frames # <<>> /\ item.unit = Module(File))
  /\ \A m \in modules : \E item \in out : item.unit = m

(* Each module is included where its name says, or still pending.          *)
Mirror == {[module |-> m, at |-> m] : m \in modules}
PhaseInv ==
  /\ status \in {"including", "done"} => frames = <<>>
  /\ status \notin {"including", "done"} => NothingIncluded
  /\ status = "done" => included = IF config.include THEN Mirror ELSE {}
  /\ status = "including" =>
       /\ config.include /\ included \subseteq Mirror
       /\ \A m \in modules : [module |-> m, at |-> m] \in included
                             \/ \E i \in DOMAIN pending : pending[i] = m
       /\ \A i \in DOMAIN pending : pending[i] \in modules

BuildInv == WalkInv /\ ModulesInv /\ PhaseInv /\ IncludesInv

(* Before the include file is written, its invariant holds.                *)
LEMMA NothingIncludedInv ==
  ASSUME NothingIncluded
  PROVE  IncludesInv
<1>1. <<>> \in Seq(Names) /\ Leads(<<>>)
  BY DEF NothingIncluded, Leads, StartsWith
<1>2. \E e \in Seq(Names) : Leads(e)
  BY <1>1
<1>3. Sorted(pending) /\ pending \in Seq(Seq(Names)) /\ stack \in Seq(Names) /\ opened = {}
  BY DEF NothingIncluded, Sorted
<1> QED BY <1>2, <1>3 DEF IncludesInv

(* A build starts in it.                                                   *)
LEMMA BuildStarts == Init => BuildInv
<1> SUFFICES ASSUME Init PROVE BuildInv
  OBVIOUS
<1>1. WalkInv
  <2>1. \E request \in Requests : files = request.files
    BY DEF Init
  <2> QED BY <2>1 DEF Init, WalkInv, RequestInv, FramesInv
<1>2. ModulesInv
  BY FS_EmptySet DEF Init, ModulesInv
<1>3. PhaseInv /\ IncludesInv
  BY NothingIncludedInv DEF Init, PhaseInv
<1> QED BY <1>1, <1>2, <1>3 DEF BuildInv

(* What leaves the walk alone keeps its invariant.                         *)
LEMMA SameWalk ==
  ASSUME WalkInv, UNCHANGED <<files, file, frames, typePath>>
  PROVE  WalkInv'
<1>1. FrameSet' = FrameSet /\ (FileMessage(File))' = FileMessage(File)
  BY DEF FrameSet, File, FileMessage
<1> HIDE DEF FrameSet, FileMessage, File
<1> QED BY <1>1 DEF WalkInv, RequestInv, FramesInv

(* The sorted list of the modules has each of them: no module is before    *)
(* itself, so none is there twice.                                         *)
LEMMA SortedHasAll ==
  ASSUME NEW S \in SUBSET Seq(Names), IsFiniteSet(S),
         NEW order \in [1..Cardinality(S) -> S], Sorted(order)
  PROVE  /\ order \in Seq(S)
         /\ \A m \in S : \E i \in DOMAIN order : order[i] = m
<1>1. Cardinality(S) \in Nat
  BY FS_CardinalityType
<1>2. ASSUME NEW a \in Seq(Names) PROVE ~Before(a, a)
  <2>1. Len(a) \in Nat /\ \A n \in 1..Len(a) : Rank[a[n]] \in Int
    BY RankAssumption
  <2> QED BY <2>1 DEF Before
<1>3. ASSUME NEW i \in 1..Cardinality(S), NEW j \in 1..Cardinality(S), order[i] = order[j]
      PROVE  i = j
  <2>1. order[i] \in Seq(Names) /\ i \in DOMAIN order /\ j \in DOMAIN order
    OBVIOUS
  <2>2. ~(i < j) /\ ~(j < i)
    BY <1>2, <1>3, <2>1 DEF Sorted
  <2> QED BY <2>2
<1>4. order \in Injection(1..Cardinality(S), S)
  BY <1>3 DEF Injection, IsInjective
<1>5. Cardinality(1..Cardinality(S)) = Cardinality(S)
  BY <1>1, FS_Interval
<1>6. order \in Surjection(1..Cardinality(S), S)
  BY <1>4, <1>5, FS_Injection
<1>7. \A m \in S : \E i \in DOMAIN order : order[i] = m
  BY <1>6 DEF Surjection
<1>8. order \in Seq(S)
  BY <1>1
<1> QED BY <1>7, <1>8

(* A sorted list starts where write_includes can start.                    *)
LEMMA SortedLeads ==
  ASSUME NEW p \in Seq(Seq(Names)), Sorted(p)
  PROVE  \E e \in Seq(Names) : \A i \in DOMAIN p : (i = 1 /\ e = p[1]) \/ Before(e, p[i])
<1>1. CASE p = <<>>
  <2>1. <<>> \in Seq(Names) /\ \A i \in DOMAIN p : FALSE
    BY <1>1
  <2> QED BY <2>1
<1>2. CASE p # <<>>
  <2>1. p[1] \in Seq(Names) /\ 1 \in DOMAIN p /\ \A i \in DOMAIN p : i \in Nat /\ i >= 1
    BY <1>2
  <2>2. \A i \in DOMAIN p : i = 1 \/ Before(p[1], p[i])
    BY <2>1 DEF Sorted
  <2> QED BY <2>1, <2>2
<1> QED BY <1>1, <1>2

(* Finalize hands every module to write_includes, sorted.                  *)
LEMMA FinalizeKeeps ==
  ASSUME BuildInv, Finalize
  PROVE  BuildInv'
<1>1. /\ frames = <<>> /\ status = "generating"
      /\ UNCHANGED <<config, files, file, frames, typePath, out, modules, stack, opened, included>>
  BY DEF Finalize
<1>2. WalkInv' /\ ModulesInv'
  BY <1>1, SameWalk DEF BuildInv, ModulesInv, File, Module
<1>3. NothingIncluded
  BY <1>1 DEF BuildInv, PhaseInv
<1>4. CASE status' \in {"panic", "done"} /\ UNCHANGED pending
  <2>1. status' = "done" => ~config.include
    BY <1>1 DEF Finalize
  <2>2. NothingIncluded' /\ included' = {}
    BY <1>1, <1>3, <1>4 DEF NothingIncluded
  <2>3. PhaseInv'
    BY <1>1, <1>4, <2>1, <2>2 DEF PhaseInv
  <2>4. IncludesInv'
    BY <1>1, <1>4 DEF BuildInv, IncludesInv, Leads
  <2> QED BY <1>2, <2>3, <2>4 DEF BuildInv
<1>5. CASE /\ status' = "including" /\ config.include
           /\ pending' \in {order \in [1..Cardinality(modules) -> modules] : Sorted(order)}
  <2>1. /\ pending' \in [1..Cardinality(modules) -> modules] /\ Sorted(pending')
        /\ IsFiniteSet(modules) /\ modules \in SUBSET Seq(Names)
    BY <1>5 DEF BuildInv, ModulesInv
  <2>2. /\ pending' \in Seq(modules)
        /\ \A m \in modules : \E i \in DOMAIN pending' : pending'[i] = m
    BY <2>1, SortedHasAll
  <2>3. pending' \in Seq(Seq(Names))
    BY <2>1, <2>2
  <2>4. \A i \in DOMAIN pending' : pending'[i] \in modules
    BY <2>1
  <2>5. included' = {} /\ stack' = <<>> /\ opened' = {}
    BY <1>1, <1>3 DEF NothingIncluded
  <2>6. PhaseInv'
    BY <1>1, <1>5, <2>2, <2>4, <2>5 DEF PhaseInv
  <2>7. IncludesInv'
    <3>1. PICK e \in Seq(Names) :
            \A i \in DOMAIN pending' : (i = 1 /\ e = pending'[1]) \/ Before(e, pending'[i])
      BY <2>1, <2>3, SortedLeads
    <3>2. StartsWith(e, stack')
      BY <2>5 DEF StartsWith
    <3>3. Leads(e)'
      BY <3>1, <3>2 DEF Leads
    <3> QED BY <2>1, <2>3, <2>5, <3>3 DEF IncludesInv
  <2> QED BY <1>2, <2>6, <2>7 DEF BuildInv
<1> QED BY <1>4, <1>5 DEF Finalize

(* The first element of a sequence, and the others.                        *)
Led(s, t, S) ==
  /\ Head(s) = s[1] /\ s[1] \in S /\ 1 \in DOMAIN s
  /\ \A i \in DOMAIN t : i + 1 \in DOMAIN s /\ t[i] = s[i + 1]
  /\ \A i \in DOMAIN s : i = 1 \/ (i - 1 \in DOMAIN t /\ t[i - 1] = s[i])

(* The tail of a sequence is the sequence one place on.                    *)
LEMMA TailIs ==
  ASSUME NEW S, NEW s \in Seq(S), s # <<>>, NEW t, t = Tail(s)
  PROVE  Led(s, t, S)
<1>1. /\ Len(s) \in Nat \ {0} /\ DOMAIN s = 1..Len(s) /\ Head(s) = s[1] /\ s[1] \in S
      /\ Len(t) = Len(s) - 1 /\ DOMAIN t = 1..Len(t)
  BY EmptySeq
<1>2. \A i \in 1..Len(t) : t[i] = s[i + 1]
  BY <1>1
<1>3. \A i \in 1..Len(t) : i + 1 \in 1..Len(s)
  BY <1>1
<1>4. ASSUME NEW i \in 1..Len(s), i # 1
      PROVE  i - 1 \in 1..Len(t) /\ t[i - 1] = s[i]
  <2>0. PICK m \in Nat : m = Len(s)
    BY <1>1
  <2>1. PICK k \in 1..m : k = i
    BY <2>0
  <2>2. Len(t) = m - 1 /\ k # 1
    BY <1>1, <1>4, <2>0, <2>1, Zenon
  <2>3. PICK j \in 1..(m - 1) : j = k - 1 /\ j + 1 = k
    BY <2>2
  <2>4. t[j] = s[j + 1]
    BY <1>2, <2>2, Zenon
  <2> QED BY <2>1, <2>2, <2>3, <2>4, Zenon
<1> QED BY <1>1, <1>2, <1>3, <1>4 DEF Led

(* An included module is one that was pending, included at its own name.   *)
LEMMA IncludeStepKeeps ==
  ASSUME BuildInv, IncludeStep
  PROVE  BuildInv'
<1>1. /\ status = "including" /\ WriteIncludes
      /\ UNCHANGED <<config, files, file, frames, typePath, out, status, modules>>
  BY DEF IncludeStep, genVars
<1>2. WalkInv' /\ ModulesInv'
  BY <1>1, SameWalk DEF BuildInv, ModulesInv, File, Module
<1>3. IncludesInv'
  BY <1>1, IncludesStep DEF BuildInv
<1>4. /\ config.include /\ included \subseteq Mirror /\ frames = <<>>
      /\ \A m \in modules : [module |-> m, at |-> m] \in included
                            \/ \E i \in DOMAIN pending : pending[i] = m
      /\ \A i \in DOMAIN pending : pending[i] \in modules
  BY <1>1 DEF BuildInv, PhaseInv
<1>5. Mirror' = Mirror
  BY <1>1 DEF Mirror
<1>6. CASE UNCHANGED <<pending, included>>
  BY <1>1, <1>2, <1>3, <1>4, <1>5, <1>6 DEF BuildInv, PhaseInv
<1>7. CASE IncludeFile
  <2>1. /\ pending \in Seq(Seq(Names)) /\ stack \in Seq(Names)
    BY DEF BuildInv, IncludesInv
  <2>2. /\ pending # <<>> /\ pending' = Tail(pending) /\ StartsWith(Head(pending), stack)
        /\ Len(stack) = Len(Head(pending))
        /\ included' = included \cup {[module |-> Head(pending), at |-> stack]}
    BY <1>7 DEF IncludeFile
  <2>3. /\ Head(pending) = pending[1] /\ pending[1] \in Seq(Names) /\ 1 \in DOMAIN pending
        /\ \A i \in DOMAIN pending' : i + 1 \in DOMAIN pending /\ pending'[i] = pending[i + 1]
        /\ \A i \in DOMAIN pending : i = 1 \/ (i - 1 \in DOMAIN pending' /\ pending'[i - 1] = pending[i])
    <3>1. PICK S, s, t : S = Seq(Names) /\ s = pending /\ t = pending'
      OBVIOUS
    <3>2. s \in Seq(S) /\ s # <<>> /\ t = Tail(s)
      BY <2>1, <2>2, <3>1
    <3>3. Led(s, t, S)
      BY <3>2, TailIs
    <3> QED BY <3>1, <3>3 DEF Led
  <2>4. stack = Head(pending)
    <3>1. \A i \in 1..Len(stack) : Head(pending)[i] = stack[i]
      BY <2>2 DEF StartsWith
    <3> QED BY <2>1, <2>2, <2>3, <3>1, SeqEqual
  <2>5. included' = included \cup {[module |-> pending[1], at |-> pending[1]]}
    BY <2>2, <2>3, <2>4
  <2>6. included' \subseteq Mirror
    BY <1>4, <2>3, <2>5 DEF Mirror
  <2>7. \A m \in modules : [module |-> m, at |-> m] \in included'
                           \/ \E i \in DOMAIN pending' : pending'[i] = m
    <3> TAKE m \in modules
    <3>1. CASE [module |-> m, at |-> m] \in included
      BY <2>5, <3>1
    <3>2. ASSUME NEW i \in DOMAIN pending, pending[i] = m
          PROVE  [module |-> m, at |-> m] \in included' \/ \E j \in DOMAIN pending' : pending'[j] = m
      <4>1. CASE i = 1
        BY <2>5, <3>2, <4>1
      <4>2. CASE i # 1
        BY <2>3, <3>2, <4>2
      <4> QED BY <4>1, <4>2
    <3> QED BY <1>4, <3>1, <3>2
  <2>8. \A i \in DOMAIN pending' : pending'[i] \in modules
    BY <1>4, <2>3
  <2>9. PhaseInv'
    BY <1>1, <1>4, <1>5, <2>6, <2>7, <2>8 DEF PhaseInv
  <2> QED BY <1>2, <1>3, <2>9 DEF BuildInv
<1> QED BY <1>1, <1>6, <1>7 DEF WriteIncludes, CloseModule, OpenModule, CloseRest, Pop

(* Every step of a build keeps it.                                         *)
LEMMA BuildSteps == BuildInv /\ [Next]_vars => BuildInv'
<1> SUFFICES ASSUME BuildInv, [Next]_vars PROVE BuildInv'
  OBVIOUS
<1>1. CASE Prepare
  <2>1. /\ status = "start" /\ status' \in {"error", "generating"}
        /\ UNCHANGED <<config, files, file, frames, typePath, out, modules, includeVars>>
    BY <1>1 DEF Prepare
  <2>2. WalkInv' /\ ModulesInv'
    BY <2>1, SameWalk DEF BuildInv, ModulesInv, File, Module
  <2> QED BY <2>1, <2>2 DEF BuildInv, PhaseInv, NothingIncluded, IncludesInv, Leads, includeVars
<1>2. CASE GenerateStep
  <2>1. Walk /\ UNCHANGED <<modules, packages, includeVars>> /\ WalkInv
    BY <1>2 DEF GenerateStep, BuildInv
  <2>2. WalkInv' /\ WritesTo(file, Module(File)) /\ UNCHANGED <<config, files, file>>
        /\ (frames # <<>> => frames' # <<>>)
    BY <2>1, WalkKeepsFrames
  <2>3. status = "generating" /\ status' \notin {"including", "done"}
    BY <2>1 DEF Walk, RefuseSyntax, StartFile, SkipExternalMessage, OverflowStack, OpenMessage, WriteField,
                EndFields, WriteOneofField, EndOneofs, EndNested, AppendEnum, EndEnums, AppendOneof,
                EndVariants, EndMessage, PushService, EndServices, AtFileStart, AtChild, Working, Finished
  <2>4. ModulesInv'
    <3>1. (Module(File))' = Module(File)
      BY <2>2 DEF Module, File
    <3> HIDE DEF Module, File
    <3> QED BY <2>1, <2>2, <3>1 DEF BuildInv, ModulesInv, WritesTo
  <2>5. PhaseInv' /\ IncludesInv'
    BY <2>1, <2>3 DEF BuildInv, PhaseInv, NothingIncluded, IncludesInv, Leads, includeVars
  <2> QED BY <2>2, <2>4, <2>5 DEF BuildInv
<1>3. CASE EndFile
  <2>1. /\ status = "generating" /\ frames # <<>> /\ frames' = <<>> /\ file' = file + 1
        /\ modules' = Kept(Module(File))
        /\ UNCHANGED <<config, files, typePath, out, status, includeVars>>
    BY <1>3 DEF EndFile
  <2>2. WalkInv'
    BY <2>1 DEF BuildInv, WalkInv, RequestInv, FramesInv
  <2>3. ModulesInv'
    <3>1. Module(File) \in Seq(Names)
      BY <2>1, FilesAre DEF BuildInv, WalkInv, FramesInv, File
    <3>2. PICK here \in Seq(Names) : here = Module(File)
      BY <3>1
    <3>3. modules' = IF \E item \in out : item.unit = here THEN modules \cup {here} ELSE modules \ {here}
      BY <2>1, <3>2 DEF Kept
    <3>4. /\ IsFiniteSet(modules) /\ modules \subseteq Seq(Names)
          /\ \A item \in out : item.unit \in modules \/ item.unit = here
          /\ \A m \in modules : \E item \in out : item.unit = m
      BY <3>2 DEF BuildInv, ModulesInv
    <3>5. IsFiniteSet(modules')
      BY <3>3, <3>4, FS_AddElement, FS_RemoveElement
    <3> QED BY <2>1, <3>3, <3>4, <3>5 DEF ModulesInv
  <2> QED BY <2>1, <2>2, <2>3 DEF BuildInv, PhaseInv, NothingIncluded, IncludesInv, Leads, includeVars
<1>4. CASE Finalize
  BY <1>4, FinalizeKeeps
<1>5. CASE IncludeStep
  BY <1>5, IncludeStepKeeps
<1>6. CASE Finish
  <2>1. /\ status = "including" /\ status' = "done" /\ pending = <<>>
        /\ UNCHANGED <<config, files, file, frames, typePath, out, modules, includeVars>>
    BY <1>6 DEF Finish
  <2>2. WalkInv' /\ ModulesInv'
    BY <2>1, SameWalk DEF BuildInv, ModulesInv, File, Module
  <2>3. /\ config.include /\ included \subseteq Mirror /\ frames = <<>>
        /\ \A m \in modules : [module |-> m, at |-> m] \in included
    BY <2>1 DEF BuildInv, PhaseInv
  <2>4. included' = Mirror' /\ Mirror' = Mirror
    BY <2>1, <2>3 DEF Mirror, includeVars
  <2> QED BY <2>1, <2>2, <2>3, <2>4 DEF BuildInv, PhaseInv, IncludesInv, Leads, includeVars
<1>7. CASE UNCHANGED vars
  <2>1. UNCHANGED <<config, files, file, frames, typePath, out, status, modules, includeVars>>
    BY <1>7 DEF vars, genVars
  <2>2. WalkInv' /\ ModulesInv'
    BY <2>1, SameWalk DEF BuildInv, ModulesInv, File, Module
  <2> QED BY <2>1, <2>2 DEF BuildInv, PhaseInv, NothingIncluded, IncludesInv, Leads, includeVars, Mirror
<1> QED BY <1>1, <1>2, <1>3, <1>4, <1>5, <1>6, <1>7 DEF Next

(* The build leaves the modules it wrote to, and the include file puts the *)
(* text of each where its name says: compile_fds drops the buffers that    *)
(* stayed empty, and write_includes loses no module and moves none.        *)
THEOREM ModulesAreMirrored == Spec => []IncludesMirrorModules
<1>1. BuildInv => IncludesMirrorModules
  <2> SUFFICES ASSUME BuildInv, status = "done"
               PROVE  /\ modules = {item.unit : item \in out}
                      /\ included = IF config.include THEN {[module |-> m, at |-> m] : m \in modules} ELSE {}
    BY DEF IncludesMirrorModules
  <2>1. frames = <<>> /\ included = IF config.include THEN Mirror ELSE {}
    BY DEF BuildInv, PhaseInv
  <2>2. modules = {item.unit : item \in out}
    BY <2>1 DEF BuildInv, ModulesInv
  <2> QED BY <2>1, <2>2 DEF Mirror
<1> QED BY <1>1, BuildStarts, BuildSteps, PTL DEF Spec

(* The same of a whole build: whatever is generated before.                *)
THEOREM BuildOpensModulesOnce == Spec => OpensOnce
<1>1. BuildInv /\ [Next]_vars => [Len(stack') > Len(stack) => stack' \notin opened]_stack
  <2> SUFFICES ASSUME BuildInv, [Next]_vars, stack' # stack, Len(stack') > Len(stack)
               PROVE  stack' \notin opened
    OBVIOUS
  <2>1. WriteIncludes /\ IncludesInv
    BY DEF Next, Prepare, GenerateStep, EndFile, Finalize, IncludeStep, Finish, includeVars, vars, BuildInv
  <2>2. CASE OpenModule
    BY <2>1, <2>2, OpenKeepsInv
  <2>3. CASE Pop
    <3>1. Len(stack) \in Nat /\ Len(stack') <= Len(stack)
      BY <2>1, <2>3 DEF Pop, IncludesInv
    <3> QED BY <3>1
  <2> QED BY <2>1, <2>2, <2>3 DEF WriteIncludes, CloseModule, CloseRest, IncludeFile
<1> QED BY <1>1, BuildStarts, BuildSteps, PTL DEF Spec, OpensOnce

(* A nonempty set of natural numbers has a least element. *)
LEMMA LeastElement ==
  ASSUME NEW S \in SUBSET Nat, S # {}
  PROVE  \E x \in S : \A y \in S : x <= y
<1> DEFINE R == OpToRel(<, Nat)
<1>1. IsWellFoundedOn(R, Nat)
  BY NatLessThanWellFounded
<1>2. \A x, y \in Nat : <<y, x>> \in R <=> y < x
  BY DEF OpToRel
<1> HIDE DEF R
<1>3. PICK x \in S : \A y \in S : ~ (<<y, x>> \in R)
  BY <1>1, WFMin, Zenon
<1>4. ASSUME NEW y \in S
      PROVE  x <= y
  <2>1. x \in Nat /\ y \in Nat
    OBVIOUS
  <2>2. ~ (y < x)
    BY <1>2, <1>3, <2>1, Zenon
  <2>3. QED BY <2>1, <2>2
<1>5. QED BY <1>4

(* Induction, with the numbers a claim holds for as a set: the provers take *)
(* no operator for the claim.                                              *)
LEMMA Induction ==
  ASSUME NEW S, 0 \in S, NEW N \in Nat, \A n \in Nat : n < N /\ n \in S => n + 1 \in S
  PROVE  \A n \in 0 .. N : n \in S
<1> DEFINE T == { n \in 0 .. N : n \notin S }
<1> SUFFICES ASSUME T # {} PROVE FALSE
  OBVIOUS
<1>1. T \in SUBSET Nat
  OBVIOUS
<1>2. PICK x \in T : \A y \in T : x <= y
  BY <1>1, LeastElement
<1>3. x \in Nat /\ x <= N /\ x \notin S /\ x # 0
  BY <1>2
<1>4. x - 1 \in 0 .. N /\ ~ (x <= x - 1) /\ x - 1 \in Nat /\ x - 1 < N /\ (x - 1) + 1 = x
  BY <1>3
<1>5. x - 1 \notin T
  BY <1>2, <1>4
<1>6. x - 1 \in S
  BY <1>4, <1>5
<1> QED
  BY <1>3, <1>4, <1>6

(* What a path leads to is what the steps along it lead to, one by one.    *)
Start(f) == [element |-> f, name |-> f.package]
Follows(after, f, p) ==
  after = [i \in 0..(Len(p) \div 2) |->
             IF i = 0 THEN Start(f) ELSE Step(after[i - 1], p[2 * i - 1], p[2 * i])]

(* g says what path p of file f leads to, after each of its N steps. *)
StepsAlong(g, f, p, N) ==
  /\ Len(p) = 2 * N /\ g[0] = Start(f)
  /\ \A i \in 1..N : g[i] = Step(g[i - 1], p[2 * i - 1], p[2 * i])

(* So much for Reached: it is the last of the steps, however they are given. *)
LEMMA ReachedIs ==
  ASSUME NEW f, NEW p, NEW g, NEW N \in Nat, StepsAlong(g, f, p, N)
  PROVE  Reached(f, p) = g[N]
<1>0. Len(p) = 2 * N /\ g[0] = Start(f)
      /\ \A i \in 1..N : g[i] = Step(g[i - 1], p[2 * i - 1], p[2 * i])
  BY DEF StepsAlong
<1>1. Len(p) \div 2 = N
  BY <1>0
<1> DEFINE h == [i \in 0..N |-> g[i]]
           F == CHOOSE after : Follows(after, f, p)
<1>2. Follows(h, f, p)
  <2>1. ASSUME NEW i \in 0..N
        PROVE  g[i] = IF i = 0 THEN Start(f) ELSE Step(h[i - 1], p[2 * i - 1], p[2 * i])
    <3>1. CASE i = 0
      BY <1>0, <3>1
    <3>2. CASE i # 0
      <4>1. i \in 1..N /\ i - 1 \in 0..N
        BY <3>2
      <4>2. h[i - 1] = g[i - 1]
        BY <4>1
      <4> QED BY <1>0, <3>2, <4>1, <4>2
    <3> QED BY <3>1, <3>2
  <2>2. h = [i \in 0..N |-> IF i = 0 THEN Start(f) ELSE Step(h[i - 1], p[2 * i - 1], p[2 * i])]
    BY <2>1
  <2> HIDE DEF h
  <2> QED BY <1>1, <2>2 DEF Follows
<1>3. Follows(F, f, p)
  <2> HIDE DEF h
  <2> QED BY <1>2, Zenon
<1>4. Reached(f, p) = F[Len(p) \div 2]
  BY Zenon DEF Reached, Follows, Start
<1> HIDE DEF F, h
<1>5. F = [i \in 0..N |-> IF i = 0 THEN Start(f) ELSE Step(F[i - 1], p[2 * i - 1], p[2 * i])]
  BY <1>1, <1>3 DEF Follows
<1> DEFINE S == {i \in Nat : F[i] = g[i]}
<1>6. 0 \in S
  BY <1>0, <1>5
<1>7. ASSUME NEW n \in Nat, n < N, n \in S PROVE n + 1 \in S
  <2>1. n + 1 \in 0..N /\ n + 1 \in 1..N /\ n + 1 # 0 /\ (n + 1) - 1 = n
    BY <1>7
  <2>2. F[n + 1] = IF n + 1 = 0 THEN Start(f)
                   ELSE Step(F[(n + 1) - 1], p[2 * (n + 1) - 1], p[2 * (n + 1)])
    BY <1>5, <2>1, Zenon
  <2>3. F[n + 1] = Step(F[n], p[2 * (n + 1) - 1], p[2 * (n + 1)])
    BY <2>1, <2>2, Zenon
  <2>4. g[n + 1] = Step(g[n], p[2 * (n + 1) - 1], p[2 * (n + 1)])
    BY <1>0, <2>1
  <2> QED BY <1>7, <2>3, <2>4
<1>8. N \in 0..N
  OBVIOUS
<1>9. N \in S => F[N] = g[N]
  OBVIOUS
<1>10. \A n \in Nat : n < N /\ n \in S => n + 1 \in S
  BY <1>7
<1> HIDE DEF S
<1>11. N \in S
  BY <1>6, <1>8, <1>10, Induction
<1> QED BY <1>1, <1>4, <1>9, <1>11

(* The lists below a file, a message, an enum and a service.               *)
LEMMA WithinIs ==
  /\ \A m \in Messages : /\ Within(m, 2) = m.fields /\ Within(m, 3) = m.nested
                         /\ Within(m, 4) = m.enums /\ Within(m, 8) = m.oneofs
  /\ \A f : DOMAIN f = {"package", "syntax", "messages", "enums", "services"} =>
       Within(f, 4) = f.messages /\ Within(f, 5) = f.enums /\ Within(f, 6) = f.services
  /\ \A e : DOMAIN e = {"name", "values"} => Within(e, 2) = e.values
  /\ \A s : DOMAIN s = {"name", "methods"} => Within(s, 2) = s.methods
<1>1. ASSUME NEW m \in Messages
      PROVE  /\ Within(m, 2) = m.fields /\ Within(m, 3) = m.nested
             /\ Within(m, 4) = m.enums /\ Within(m, 8) = m.oneofs
  <2>1. DOMAIN m = {"name", "fields", "nested", "enums", "oneofs", "mapEntry"}
    BY MessagesAssumption
  <2>2. /\ "fields" \in DOMAIN m /\ "nested" \in DOMAIN m /\ "enums" \in DOMAIN m /\ "oneofs" \in DOMAIN m
        /\ "values" \notin DOMAIN m /\ "methods" \notin DOMAIN m /\ "messages" \notin DOMAIN m
        /\ "services" \notin DOMAIN m
    BY <2>1
  <2> QED BY <2>2 DEF Within
<1>2. ASSUME NEW f, DOMAIN f = {"package", "syntax", "messages", "enums", "services"}
      PROVE  Within(f, 4) = f.messages /\ Within(f, 5) = f.enums /\ Within(f, 6) = f.services
  <2>1. "nested" \notin DOMAIN f /\ "messages" \in DOMAIN f /\ "services" \in DOMAIN f
    BY <1>2
  <2> QED BY <2>1 DEF Within
<1>3. ASSUME NEW e, DOMAIN e = {"name", "values"} PROVE Within(e, 2) = e.values
  <2>1. "fields" \notin DOMAIN e /\ "values" \in DOMAIN e /\ "methods" \notin DOMAIN e
    BY <1>3
  <2> QED BY <2>1 DEF Within
<1>4. ASSUME NEW s, DOMAIN s = {"name", "methods"} PROVE Within(s, 2) = s.methods
  <2>1. "fields" \notin DOMAIN s /\ "values" \notin DOMAIN s /\ "methods" \in DOMAIN s
    BY <1>4
  <2> QED BY <2>1 DEF Within
<1> QED BY <1>1, <1>2, <1>3, <1>4

(***************************************************************************)
(* The path of the generator: two numbers for each open message, that lead *)
(* to it, and below a list of the one on top the number of that list.      *)
(***************************************************************************)
NameAt(k) == IF k = 1 THEN File.package ELSE frames[k].name
ListNumber(stage, k) ==
  CASE stage = "fields" -> 2 [] stage = "oneofs" -> 8 [] stage = "services" -> 6
    [] stage = "nested" -> (IF k = 1 THEN 4 ELSE 3) [] stage = "enums" -> (IF k = 1 THEN 5 ELSE 4)
Unlisted == {"variants", "name", "end"}
InModule == FileStages \cup {"nested", "enums", "variants"}

TopInv(n) ==
  /\ path \in Seq(Nat)
  /\ Len(path) = IF Top.stage \in Unlisted THEN 2 * n - 2 ELSE 2 * n - 1
  /\ Top.stage \notin Unlisted => path[2 * n - 1] = ListNumber(Top.stage, n)
  /\ Len(typePath) = IF Top.stage \in InModule THEN n - 1 ELSE n - 2
  /\ File.package \o typePath = IF Top.stage \in InModule THEN NameAt(n) ELSE NameAt(n - 1)

LinkInv(k) ==
  /\ path[2 * k - 1] = ListNumber("nested", k)
  /\ path[2 * k] + 1 \in 1..Len(frames[k].message.nested)
  /\ frames[k + 1].message = frames[k].message.nested[path[2 * k] + 1]
  /\ frames[k + 1].name = Append(NameAt(k), frames[k + 1].message.name)

PathInv ==
  frames # <<>> => TopInv(Len(frames)) /\ \A k \in 1..(Len(frames) - 1) : LinkInv(k)

(* What the path has led to, k messages deep. *)
ReachedAt(k) == IF k = 0 THEN Start(File)
                ELSE [element |-> frames[k + 1].message, name |-> frames[k + 1].name]

(* Each open message is a step on from the one below it.                   *)
LEMMA LinksAreSteps ==
  ASSUME WalkInv, PathInv, frames # <<>>, NEW k \in 1..(Len(frames) - 1)
  PROVE  ReachedAt(k) = Step(ReachedAt(k - 1), path[2 * k - 1], path[2 * k])
<1> DEFINE m == frames[k].message
           i == path[2 * k]
<1>1. /\ Len(frames) \in Nat \ {0} /\ k \in Nat \ {0} /\ LinkInv(k) /\ file \in 1..Len(files)
  BY TopIs DEF WalkInv, PathInv
<1>2. /\ path[2 * k - 1] = ListNumber("nested", k) /\ i + 1 \in 1..Len(m.nested)
      /\ frames[k + 1].message = m.nested[i + 1]
      /\ frames[k + 1].name = Append(NameAt(k), m.nested[i + 1].name)
  BY <1>1 DEF LinkInv
<1>3. path \in Seq(Nat) /\ i \in Nat /\ Len(m.nested) \in Nat
  <2>1. path \in Seq(Nat) /\ Len(path) >= 2 * Len(frames) - 2
    BY <1>1 DEF PathInv, TopInv
  <2>2. 2 * k \in 1..Len(path)
    BY <1>1, <2>1
  <2>3. m.nested \in Seq(Messages)
    <3>1. CASE k = 1
      BY <1>1, <3>1, FilesAre DEF WalkInv, FramesInv, FileMessage, File, MessageWith
    <3>2. CASE k # 1
      BY <1>1, <3>2, MessagesAssumption DEF WalkInv, FramesInv
    <3> QED BY <3>1, <3>2
  <2>4. i \in Nat
    BY <2>1, <2>2
  <2>5. Len(m.nested) \in Nat
    BY <2>3
  <2> QED BY <2>1, <2>4, <2>5
<1>4. i < Len(m.nested)
  BY <1>2, <1>3
<1>5. ReachedAt(k) = [element |-> m.nested[i + 1], name |-> Append(NameAt(k), m.nested[i + 1].name)]
  BY <1>1, <1>2 DEF ReachedAt
<1>6. ReachedAt(k - 1).name = NameAt(k)
  BY <1>1 DEF ReachedAt, NameAt, Start
<1>7. Within(ReachedAt(k - 1).element, path[2 * k - 1]) = m.nested
  <2>1. CASE k = 1
    <3>1. m = FileMessage(File) /\ DOMAIN File = {"package", "syntax", "messages", "enums", "services"}
      BY <1>1, <2>1, FilesAre DEF WalkInv, FramesInv, File
    <3>2. m.nested = File.messages
      BY <3>1 DEF FileMessage, MessageWith
    <3>3. ReachedAt(0).element = File /\ ListNumber("nested", 1) = 4
      BY DEF ReachedAt, Start, ListNumber
    <3> QED BY <1>2, <2>1, <3>1, <3>2, <3>3, WithinIs
  <2>2. CASE k # 1
    <3>1. m \in Messages /\ ReachedAt(k - 1).element = m /\ ListNumber("nested", k) = 3
      BY <1>1, <2>2 DEF WalkInv, FramesInv, ReachedAt, ListNumber
    <3> QED BY <1>2, <3>1, WithinIs
  <2> QED BY <2>1, <2>2
<1> HIDE DEF m
<1>8. QED BY <1>4, <1>5, <1>6, <1>7 DEF Step

(* Two or four numbers more lead to an element of the message on top, or   *)
(* to one below that.                                                      *)
Below(p) ==
  p \in Seq(Nat) /\ \A i \in 1..(2 * Len(frames) - 2) : p[i] = path[i]

(* One step on, to an element of a list of the message on top.             *)
LEMMA OneStepOn ==
  ASSUME WalkInv, PathInv, frames # <<>>,
         NEW p, Below(p), Len(p) = 2 * Len(frames),
         NEW list, list = Within(ReachedAt(Len(frames) - 1).element, p[2 * Len(frames) - 1]),
         p[2 * Len(frames)] < Len(list)
  PROVE  ElementAt(File, p) = Append(NameAt(Len(frames)), list[p[2 * Len(frames)] + 1].name)
<1> DEFINE n == Len(frames)
           g == [k \in 0..n |-> IF k = n THEN Step(ReachedAt(n - 1), p[2 * n - 1], p[2 * n]) ELSE ReachedAt(k)]
<1>1. n \in Nat \ {0}
  BY TopIs DEF WalkInv
<1>2. g[0] = Start(File)
  BY <1>1 DEF ReachedAt
<1>3. ASSUME NEW k \in 1..n PROVE g[k] = Step(g[k - 1], p[2 * k - 1], p[2 * k])
  <2>1. k - 1 \in 0..n /\ k - 1 # n /\ g[k - 1] = ReachedAt(k - 1) /\ k \in 0..n
    BY <1>1
  <2>2. CASE k = n
    BY <2>1, <2>2
  <2>3. CASE k # n
    <3>1. k \in 1..(n - 1)
      BY <1>1, <2>3
    <3>2. 2 * k - 1 \in 1..(2 * n - 2) /\ 2 * k \in 1..(2 * n - 2)
      BY <1>1, <3>1
    <3>3. p[2 * k - 1] = path[2 * k - 1] /\ p[2 * k] = path[2 * k]
      BY <3>2 DEF Below
    <3>4. ReachedAt(k) = Step(ReachedAt(k - 1), path[2 * k - 1], path[2 * k])
      BY <3>1, LinksAreSteps
    <3>5. g[k] = ReachedAt(k)
      BY <2>1, <2>3
    <3> HIDE DEF g
    <3> QED BY <2>1, <3>3, <3>4, <3>5
  <2> QED BY <2>2, <2>3
<1>4. g[n] = Step(ReachedAt(n - 1), p[2 * n - 1], p[2 * n])
  BY <1>1
<1> HIDE DEF g
<1>5. Reached(File, p) = g[n]
  <2>1. n \in Nat /\ Len(p) = 2 * n
    BY <1>1
  <2>2. \A k \in 1..n : g[k] = Step(g[k - 1], p[2 * k - 1], p[2 * k])
    BY <1>3
  <2> HIDE DEF n
  <2>3. StepsAlong(g, File, p, n)
    BY <1>2, <2>1, <2>2, Zenon DEF StepsAlong
  <2> QED BY <2>1, <2>3, ReachedIs, Zenon
<1>6. ReachedAt(n - 1).name = NameAt(n)
  BY <1>1 DEF ReachedAt, NameAt, Start
<1> HIDE DEF n
<1>7. Step(ReachedAt(n - 1), p[2 * n - 1], p[2 * n]).name = Append(ReachedAt(n - 1).name, list[p[2 * n] + 1].name)
  BY DEF Step, n
<1> QED BY <1>4, <1>5, <1>6, <1>7 DEF ElementAt, n

(* Two steps on, to an element of a list of such an element.               *)
LEMMA TwoStepsOn ==
  ASSUME WalkInv, PathInv, frames # <<>>,
         NEW p, Below(p), Len(p) = 2 * Len(frames) + 2,
         NEW list, list = Within(ReachedAt(Len(frames) - 1).element, p[2 * Len(frames) - 1]),
         p[2 * Len(frames)] < Len(list),
         NEW element, element = list[p[2 * Len(frames)] + 1],
         NEW inner, inner = Within(element, p[2 * Len(frames) + 1]),
         p[2 * Len(frames) + 2] < Len(inner)
  PROVE  ElementAt(File, p) = Append(Append(NameAt(Len(frames)), element.name),
                                     inner[p[2 * Len(frames) + 2] + 1].name)
<1> DEFINE n == Len(frames)
           one == Step(ReachedAt(n - 1), p[2 * n - 1], p[2 * n])
           two == Step(one, p[2 * n + 1], p[2 * n + 2])
           g == [k \in 0..(n + 1) |-> IF k = n + 1 THEN two ELSE IF k = n THEN one ELSE ReachedAt(k)]
<1>1. n \in Nat \ {0} /\ n + 1 \in Nat
  BY TopIs DEF WalkInv
<1>2. g[0] = Start(File)
  BY <1>1 DEF ReachedAt
<1>3. ASSUME NEW k \in 1..(n + 1) PROVE g[k] = Step(g[k - 1], p[2 * k - 1], p[2 * k])
  <2>1. k - 1 \in 0..(n + 1) /\ k \in 0..(n + 1) /\ k - 1 # n + 1
    BY <1>1
  <2>2. CASE k = n + 1
    <3>1. k - 1 = n /\ 2 * k - 1 = 2 * n + 1 /\ 2 * k = 2 * n + 2 /\ n # n + 1
      BY <1>1, <2>2
    <3>2. g[k] = two /\ g[n] = one
      BY <1>1, <2>1, <2>2, <3>1
    <3> HIDE DEF g, one
    <3> QED BY <3>1, <3>2
  <2>3. CASE k = n
    <3>1. k - 1 # n /\ k # n + 1
      BY <1>1, <2>3
    <3>2. g[k] = one /\ g[k - 1] = ReachedAt(k - 1)
      BY <2>1, <2>3, <3>1
    <3> HIDE DEF g
    <3> QED BY <2>3, <3>2
  <2>4. CASE k # n /\ k # n + 1
    <3>1. k \in 1..(n - 1) /\ k - 1 # n
      BY <1>1, <2>4
    <3>2. 2 * k - 1 \in 1..(2 * n - 2) /\ 2 * k \in 1..(2 * n - 2)
      BY <1>1, <3>1
    <3>3. p[2 * k - 1] = path[2 * k - 1] /\ p[2 * k] = path[2 * k]
      BY <3>2 DEF Below
    <3>4. ReachedAt(k) = Step(ReachedAt(k - 1), path[2 * k - 1], path[2 * k])
      BY <3>1, LinksAreSteps
    <3>5. g[k] = ReachedAt(k) /\ g[k - 1] = ReachedAt(k - 1)
      BY <2>1, <2>4, <3>1
    <3> HIDE DEF g
    <3> QED BY <3>3, <3>4, <3>5
  <2> QED BY <2>2, <2>3, <2>4
<1>4. g[n + 1] = two
  BY <1>1
<1> HIDE DEF g, two, one
<1>5. Reached(File, p) = g[n + 1]
  <2>1. n + 1 \in Nat /\ Len(p) = 2 * (n + 1)
    BY <1>1
  <2>2. \A k \in 1..(n + 1) : g[k] = Step(g[k - 1], p[2 * k - 1], p[2 * k])
    BY <1>3
  <2> HIDE DEF n
  <2>3. StepsAlong(g, File, p, n + 1)
    BY <1>2, <2>1, <2>2, Zenon DEF StepsAlong
  <2> QED BY <2>1, <2>3, ReachedIs, Zenon
<1>6. ReachedAt(n - 1).name = NameAt(n)
  BY <1>1 DEF ReachedAt, NameAt, Start
<1> HIDE DEF n
<1>7. one = [element |-> element, name |-> Append(ReachedAt(n - 1).name, element.name)]
  BY DEF Step, n, one
<1>8. one.element = element /\ one.name = Append(NameAt(n), element.name)
  BY <1>6, <1>7
<1>9. two.name = Append(one.name, inner[p[2 * n + 2] + 1].name)
  BY <1>8 DEF Step, n, two
<1> QED BY <1>4, <1>5, <1>8, <1>9 DEF ElementAt, n

(* All but the last of a sequence. *)
LEMMA FrontIs ==
  ASSUME NEW S, NEW s \in Seq(S), Len(s) # 0
  PROVE  /\ Front(s) \in Seq(S) /\ Len(Front(s)) = Len(s) - 1
         /\ \A i \in 1..(Len(s) - 1) : Front(s)[i] = s[i]
<1>1. PICK n \in Nat : n = Len(s) - 1
  <2>1. Len(s) \in Nat
    OBVIOUS
  <2> QED BY <2>1
<1>2. Front(s) = SubSeq(s, 1, n)
  BY <1>1 DEF Front
<1>3. \A i \in 1..n : s[i] \in S
  BY <1>1
<1>4. /\ SubSeq(s, 1, n) \in Seq(S)
      /\ Len(SubSeq(s, 1, n)) = IF 1 <= n THEN n - 1 + 1 ELSE 0
      /\ \A i \in 1..(n - 1 + 1) : SubSeq(s, 1, n)[i] = s[1 + i - 1]
  BY <1>1, <1>3, SubSeqProperties
<1> QED BY <1>1, <1>2, <1>4

(* And with another number for the last one.                               *)
LEMMA RepathIs ==
  ASSUME NEW s \in Seq(Nat), Len(s) # 0, NEW x \in Nat
  PROVE  /\ Append(Front(s), x) \in Seq(Nat) /\ Len(Append(Front(s), x)) = Len(s)
         /\ Append(Front(s), x)[Len(s)] = x
         /\ \A i \in 1..(Len(s) - 1) : Append(Front(s), x)[i] = s[i]
<1>1. /\ Front(s) \in Seq(Nat) /\ Len(Front(s)) = Len(s) - 1
      /\ \A i \in 1..(Len(s) - 1) : Front(s)[i] = s[i]
  BY FrontIs
<1>2. PICK f \in Seq(Nat) : f = Front(s)
  BY <1>1
<1>3. Len(s) \in Nat /\ Len(f) = Len(s) - 1
  BY <1>1, <1>2
<1>4. \A i \in 1..(Len(s) - 1) : Append(f, x)[i] = f[i]
  BY <1>3
<1>5. Append(f, x)[Len(s)] = x /\ Len(Append(f, x)) = Len(s) /\ Append(f, x) \in Seq(Nat)
  BY <1>3
<1> QED BY <1>1, <1>2, <1>4, <1>5

(* As long as the same messages are open, the links between them hold.     *)
LEMMA PathStep ==
  ASSUME PathInv, UNCHANGED <<files, file>>,
         NEW n \in Nat \ {0}, n = Len(frames), n = Len(frames'),
         \A k \in 1..n : frames'[k].message = frames[k].message /\ frames'[k].name = frames[k].name,
         \A i \in 1..(2 * n - 2) : path'[i] = path[i],
         TopInv(n)'
  PROVE  PathInv'
<1>1. frames # <<>>
  OBVIOUS
<1>2. File' = File
  BY DEF File
<1>3. ASSUME NEW k \in 1..(n - 1) PROVE LinkInv(k)'
  <2>1. LinkInv(k)
    BY <1>1, <1>3 DEF PathInv
  <2>2. k \in 1..n /\ k + 1 \in 1..n /\ 2 * k \in 1..(2 * n - 2) /\ 2 * k - 1 \in 1..(2 * n - 2)
    BY <1>3
  <2>3. path'[2 * k - 1] = path[2 * k - 1] /\ path'[2 * k] = path[2 * k]
    BY <2>2
  <2>4. NameAt(k)' = NameAt(k)
    BY <1>2, <2>2 DEF NameAt
  <2>5. /\ frames'[k].message = frames[k].message
        /\ frames'[k + 1].message = frames[k + 1].message /\ frames'[k + 1].name = frames[k + 1].name
    BY <2>2
  <2> QED BY <2>1, <2>3, <2>4, <2>5 DEF LinkInv
<1> QED BY <1>3 DEF PathInv

(* When the frame on top goes on, the path stays what it is.               *)
LEMMA PathAdvance ==
  ASSUME WalkInv, PathInv, frames # <<>>, frames' = Advance, UNCHANGED <<files, file, path, typePath>>
  PROVE  PathInv'
<1>1. PICK n \in Nat \ {0} : n = Len(frames)
  BY TopIs DEF WalkInv
<1>2. /\ Len(frames') = n /\ Top = frames[n]
      /\ \A k \in 1..(n - 1) : frames'[k] = frames[k]
      /\ frames'[n] = [message |-> Top.message, name |-> Top.name, stage |-> Top.stage,
                       next |-> Top.next + 1]
  BY <1>1, AdvanceIs DEF WalkInv, FramesInv
<1>3. \A k \in 1..n : /\ frames'[k].message = frames[k].message /\ frames'[k].name = frames[k].name
                      /\ frames'[k].stage = frames[k].stage
  <2>1. \A k \in 1..n : k \in 1..(n - 1) \/ k = n
    BY <1>1
  <2> QED BY <1>2, <2>1
<1>4. Top' = frames'[n] /\ Top.stage' = Top.stage
  BY <1>1, <1>2, <1>3 DEF Top, Last
<1>5. TopInv(n)
  BY <1>1 DEF PathInv
<1>6. Top.stage \notin InModule => n # 1
  BY <1>1, StagesAre DEF InModule
<1>7. File' = File
  BY DEF File
<1>8. NameAt(n)' = NameAt(n)
  BY <1>3, <1>7 DEF NameAt
<1>9. n # 1 => NameAt(n - 1)' = NameAt(n - 1)
  <2>1. n # 1 => n - 1 \in 1..n
    OBVIOUS
  <2> QED BY <2>1, <1>3, <1>7 DEF NameAt
<1>10. TopInv(n)'
  BY <1>4, <1>5, <1>6, <1>7, <1>8, <1>9 DEF TopInv
<1> QED BY <1>1, <1>2, <1>3, <1>10, PathStep

(* When it enters a stage, the path has to lead below the list of that stage. *)
LEMMA PathEnter ==
  ASSUME WalkInv, PathInv, frames # <<>>, NEW s \in FileStages \cup MessageStages,
         frames' = Enter(s), UNCHANGED <<files, file>>,
         NEW n \in Nat \ {0}, n = Len(frames), s \notin InModule => n # 1,
         path' \in Seq(Nat), Len(path') = IF s \in Unlisted THEN 2 * n - 2 ELSE 2 * n - 1,
         s \notin Unlisted => path'[2 * n - 1] = ListNumber(s, n),
         \A i \in 1..(2 * n - 2) : path'[i] = path[i],
         Len(typePath') = IF s \in InModule THEN n - 1 ELSE n - 2,
         File.package \o typePath' = IF s \in InModule THEN NameAt(n) ELSE NameAt(n - 1)
  PROVE  PathInv'
<1>2. /\ Len(frames') = n /\ Top = frames[n]
      /\ \A k \in 1..(n - 1) : frames'[k] = frames[k]
      /\ frames'[n] = [message |-> Top.message, name |-> Top.name, stage |-> s, next |-> 1]
  <2>1. frames \in Seq(FrameSet)
    BY DEF WalkInv, FramesInv
  <2>2. /\ Len(Enter(s)) = Len(frames) /\ Top = frames[Len(frames)]
        /\ \A k \in 1..(Len(frames) - 1) : Enter(s)[k] = frames[k]
        /\ Enter(s)[Len(frames)] = [message |-> Top.message, name |-> Top.name, stage |-> s, next |-> 1]
    BY <2>1, EnterIs, Zenon
  <2> QED BY <2>2, Zenon
<1>3. \A k \in 1..n : frames'[k].message = frames[k].message /\ frames'[k].name = frames[k].name
  <2>1. \A k \in 1..n : k \in 1..(n - 1) \/ k = n
    OBVIOUS
  <2>2. frames'[n].message = Top.message /\ frames'[n].name = Top.name
    BY <1>2
  <2>3. frames'[n].message = frames[n].message /\ frames'[n].name = frames[n].name
    BY <1>2, <2>2
  <2> QED BY <1>2, <2>1, <2>3, Zenon
<1>4. Top.stage' = s
  BY <1>2 DEF Top, Last
<1>7. File' = File
  BY DEF File
<1>8. NameAt(n)' = NameAt(n)
  <2>1. frames'[n].name = frames[n].name
    BY <1>3
  <2>2. File'.package = File.package
    BY <1>7
  <2> HIDE DEF File
  <2> QED BY <2>1, <2>2 DEF NameAt
<1>9. n # 1 => NameAt(n - 1)' = NameAt(n - 1)
  <2>1. n # 1 => n - 1 \in 1..n
    OBVIOUS
  <2> QED BY <2>1, <1>3, <1>7 DEF NameAt
<1>10. TopInv(n)'
  <2>1. ListNumber(s, n)' = ListNumber(s, n)
    BY DEF ListNumber
  <2> QED BY <1>4, <1>7, <1>8, <1>9, <2>1 DEF TopInv
<1> QED BY <1>2, <1>3, <1>10, PathStep

(* One more element behind a sequence.                                     *)
LEMMA AppendIs ==
  ASSUME NEW S, NEW s \in Seq(S), NEW x \in S, NEW l \in Nat, Len(s) = l
  PROVE  /\ Append(s, x) \in Seq(S) /\ Len(Append(s, x)) = l + 1 /\ Append(s, x)[l + 1] = x
         /\ \A i \in 1..l : Append(s, x)[i] = s[i]
OBVIOUS

(* Paths with one number more, or two.                                     *)
LongerByOne(p, s, x, l) ==
  p \in Seq(Nat) /\ Len(p) = l + 1 /\ p[l + 1] = x /\ \A i \in 1..l : p[i] = s[i]

(* Append puts one number behind a path.                                   *)
LEMMA OneMore ==
  ASSUME NEW s \in Seq(Nat), NEW x \in Nat, NEW l \in Nat, Len(s) = l, NEW p, p = Append(s, x)
  PROVE  LongerByOne(p, s, x, l)
BY AppendIs DEF LongerByOne

LongerByTwo(p, s, x, y, l) ==
  p \in Seq(Nat) /\ Len(p) = l + 2 /\ p[l + 1] = x /\ p[l + 2] = y /\ \A i \in 1..l : p[i] = s[i]

(* A path with two numbers put behind it.                                  *)
LEMMA TwoMore ==
  ASSUME NEW s \in Seq(Nat), NEW x \in Nat, NEW y \in Nat, NEW l \in Nat, Len(s) = l,
         NEW p, p = s \o <<x, y>>
  PROVE  LongerByTwo(p, s, x, y, l)
<1>1. PICK t : t = <<x, y>>
  OBVIOUS
<1>2. t \in Seq(Nat) /\ Len(t) = 2 /\ t[1] = x /\ t[2] = y
  BY <1>1
<1>3. /\ p \in Seq(Nat) /\ Len(p) = l + 2
      /\ \A k \in 1..(l + 2) : p[k] = IF k <= l THEN s[k] ELSE t[k - l]
  BY <1>1, <1>2, ConcatProperties
<1>4. PICK a \in 1..(l + 2), b \in 1..(l + 2) :
        a = l + 1 /\ b = l + 2 /\ ~(a <= l) /\ ~(b <= l) /\ a - l = 1 /\ b - l = 2
  OBVIOUS
<1>5. p[a] = t[1] /\ p[b] = t[2]
  BY <1>3, <1>4
<1>6. \A k \in 1..l : p[k] = s[k]
  <2>1. \A k \in 1..l : k \in 1..(l + 2) /\ k <= l
    OBVIOUS
  <2> QED BY <1>3, <2>1
<1> QED BY <1>2, <1>3, <1>4, <1>5, <1>6 DEF LongerByTwo

(* A message that is opened is one step more.                              *)
LEMMA PathOpen ==
  ASSUME WalkInv, PathInv, AtChild,
         NEW name, name = FqName(ChildMessage.name),
         frames' = Append(Advance, Frame(ChildMessage, name, "fields")),
         path' = Append(Append(path, Child - 1), 2), UNCHANGED <<files, file, typePath>>
  PROVE  PathInv'
<1>0. /\ frames # <<>> /\ ChildMessage \in Messages /\ Top.stage = "nested"
      /\ Child \in 1..Len(Message.nested)
  BY ChildIs DEF WalkInv
<1>1. PICK n \in Nat \ {0} : n = Len(frames)
  BY <1>0, TopIs DEF WalkInv
<1>2. /\ Advance \in Seq(FrameSet) /\ Len(Advance) = n /\ Top = frames[n]
      /\ \A k \in 1..(n - 1) : Advance[k] = frames[k]
      /\ Advance[n] = [message |-> Top.message, name |-> Top.name, stage |-> Top.stage,
                       next |-> Top.next + 1]
  BY <1>0, <1>1, AdvanceIs DEF WalkInv, FramesInv
<1>3. PICK a \in Seq(FrameSet) : a = Advance
  BY <1>2
<1>4. PICK new : new = Frame(ChildMessage, name, "fields")
  OBVIOUS
<1>5. new.message = ChildMessage /\ new.name = name /\ new.stage = "fields"
  BY <1>4 DEF Frame
<1>6. name \in Seq(STRING) /\ name = Append(File.package \o typePath, ChildMessage.name)
  <2>1. ChildMessage.name \in STRING
    BY <1>0, MessagesAssumption
  <2> QED BY <1>0, <2>1, FqNameIs
<1>7. Len(frames') = n + 1 /\ frames'[n + 1] = new /\ \A k \in 1..n : frames'[k] = a[k]
  <2>1. new \in FrameSet
    BY <1>0, <1>4, <1>6 DEF Frame, FrameSet, MessageStages
  <2> HIDE DEF FrameSet
  <2>2. frames' = Append(a, new) /\ Len(a) = n
    BY <1>2, <1>3, <1>4
  <2> QED BY <2>1, <2>2
<1>8. \A k \in 1..n : frames'[k].message = frames[k].message /\ frames'[k].name = frames[k].name
  <2>1. \A k \in 1..n : k \in 1..(n - 1) \/ k = n
    OBVIOUS
  <2> QED BY <1>2, <1>3, <1>7, <2>1
<1>9. TopInv(n) /\ \A k \in 1..(n - 1) : LinkInv(k)
  BY <1>0, <1>1 DEF PathInv
<1>10. /\ path \in Seq(Nat) /\ Len(path) = 2 * n - 1 /\ path[2 * n - 1] = ListNumber("nested", n)
       /\ Len(typePath) = n - 1 /\ File.package \o typePath = NameAt(n)
  BY <1>0, <1>9 DEF TopInv, Unlisted, InModule
<1>11. PICK c \in Nat : c = Child - 1
  <2>1. Len(Message.nested) \in Nat
    BY <1>0, TopIs DEF WalkInv, MessageLike
  <2>2. Child - 1 \in Nat
    BY <1>0, <2>1
  <2> QED BY <2>2
<1>12. /\ path' \in Seq(Nat) /\ Len(path') = 2 * n + 1 /\ path'[2 * n + 1] = 2 /\ path'[2 * n] = c
       /\ \A i \in 1..(2 * n - 1) : path'[i] = path[i]
  <2>1. PICK p : p = Append(path, c)
    OBVIOUS
  <2>2. path' = Append(p, 2)
    BY <1>11, <2>1
  <2>3. PICK l \in Nat : l = 2 * n - 1
    OBVIOUS
  <2>4. p \in Seq(Nat) /\ Len(p) = l + 1 /\ p[l + 1] = c /\ \A i \in 1..l : p[i] = path[i]
    BY <1>10, <2>1, <2>3, AppendIs
  <2>5. PICK j \in Nat : j = l + 1
    OBVIOUS
  <2>6. /\ path' \in Seq(Nat) /\ Len(path') = j + 1 /\ path'[j + 1] = 2
        /\ \A i \in 1..j : path'[i] = p[i]
    <3>1. p \in Seq(Nat) /\ Len(p) = j /\ j \in Nat /\ 2 \in Nat
      BY <2>4, <2>5
    <3>2. PICK x \in Nat : x = 2
      OBVIOUS
    <3>3. path' = Append(p, x)
      BY <2>2, <3>2
    <3>4. /\ Append(p, x) \in Seq(Nat) /\ Len(Append(p, x)) = j + 1 /\ Append(p, x)[j + 1] = x
          /\ \A i \in 1..j : Append(p, x)[i] = p[i]
      BY <3>1, AppendIs
    <3> QED BY <3>2, <3>3, <3>4
  <2>7. j = 2 * n /\ l = 2 * n - 1 /\ j \in 1..j /\ \A i \in 1..l : i \in 1..j
    BY <2>3, <2>5
  <2> QED BY <2>4, <2>5, <2>6, <2>7
<1>13. File' = File
  BY DEF File
<1>14. \A k \in 1..n : NameAt(k)' = NameAt(k)
  BY <1>8, <1>13 DEF NameAt
<1>15. ASSUME NEW k \in 1..n PROVE LinkInv(k)'
  <2>1. CASE k # n
    <3>1. k \in 1..(n - 1)
      BY <2>1
    <3>2. LinkInv(k)
      BY <1>9, <3>1
    <3>3. k \in 1..n /\ k + 1 \in 1..n /\ 2 * k \in 1..(2 * n - 1) /\ 2 * k - 1 \in 1..(2 * n - 1)
      BY <3>1
    <3>4. path'[2 * k - 1] = path[2 * k - 1] /\ path'[2 * k] = path[2 * k]
      BY <1>12, <3>3
    <3>5. /\ frames'[k].message = frames[k].message
          /\ frames'[k + 1].message = frames[k + 1].message /\ frames'[k + 1].name = frames[k + 1].name
      BY <1>8, <3>3
    <3> QED BY <1>14, <3>2, <3>4, <3>5 DEF LinkInv
  <2>2. CASE k = n
    <3>1. path'[2 * n - 1] = ListNumber("nested", n)
      BY <1>10, <1>12
    <3>2. frames'[n].message = Message
      BY <1>2, <1>8 DEF Message
    <3>3. path'[2 * n] + 1 = Child
      <4>1. Child \in Int
        BY <1>0
      <4>2. c + 1 = Child
        BY <1>11, <4>1
      <4> QED BY <1>12, <4>2
    <3>4. frames'[n + 1].message = Message.nested[Child]
      BY <1>5, <1>7 DEF ChildMessage
    <3>5. frames'[n + 1].name = Append(NameAt(n), ChildMessage.name)
      BY <1>5, <1>6, <1>7, <1>10
    <3>6. frames'[n + 1].message = ChildMessage
      BY <1>5, <1>7
    <3> QED BY <1>0, <1>14, <2>2, <3>1, <3>2, <3>3, <3>4, <3>5, <3>6 DEF LinkInv
  <2> QED BY <2>1, <2>2
<1>16. TopInv(n + 1)'
  <2>1. Top' = new
    BY <1>7 DEF Top, Last
  <2>2. "fields" \notin Unlisted /\ "fields" \notin InModule /\ ListNumber("fields", n + 1)' = 2
    BY DEF Unlisted, InModule, FileStages, ListNumber
  <2>3. n + 1 - 1 = n /\ 2 * (n + 1) - 1 = 2 * n + 1 /\ n + 1 - 2 = n - 1
    OBVIOUS
  <2>4. NameAt(n)' = NameAt(n)
    BY <1>14
  <2>5. Top.stage' = "fields"
    BY <1>5, <2>1
  <2>6. /\ path' \in Seq(Nat) /\ Len(path') = 2 * (n + 1) - 1 /\ path'[2 * (n + 1) - 1] = 2
        /\ Len(typePath') = n + 1 - 2 /\ File'.package \o typePath' = NameAt(n)'
    BY <1>10, <1>12, <1>13, <2>3, <2>4
  <2>7. (NameAt(n + 1 - 1))' = NameAt(n)'
    BY <2>3
  <2> QED BY <2>2, <2>5, <2>6, <2>7 DEF TopInv
<1>17. \A k \in 1..(Len(frames') - 1) : k \in 1..n
  BY <1>7
<1> QED BY <1>7, <1>15, <1>16, <1>17 DEF PathInv

(* A message that is closed is one step less. *)
LEMMA PathClose ==
  ASSUME WalkInv, PathInv, frames # <<>>, Top.stage = "name",
         frames' = Front(frames), path' = Front(path), UNCHANGED <<files, file, typePath>>
  PROVE  PathInv'
<1>1. PICK n \in Nat \ {0} : n = Len(frames) - 1
  BY FramesClose DEF WalkInv
<1>2. Len(frames') = n /\ \A k \in 1..n : frames'[k] = frames[k]
  BY <1>1, FramesClose DEF WalkInv
<1>3. Len(frames) = n + 1
  <2>1. Len(frames) \in Nat
    BY TopIs DEF WalkInv
  <2> QED BY <1>1, <2>1
<1>4. TopInv(n + 1) /\ \A k \in 1..n : LinkInv(k)
  BY <1>1, <1>3 DEF PathInv
<1>5. /\ path \in Seq(Nat) /\ Len(path) = 2 * n
      /\ Len(typePath) = n - 1 /\ File.package \o typePath = NameAt(n)
  <2>1. "name" \in Unlisted /\ "name" \notin InModule
    BY DEF Unlisted, InModule, FileStages
  <2>2. n + 1 - 1 = n /\ 2 * (n + 1) - 2 = 2 * n /\ n + 1 - 2 = n - 1
    OBVIOUS
  <2> QED BY <1>4, <2>1, <2>2 DEF TopInv
<1>6. /\ path' \in Seq(Nat) /\ Len(path') = 2 * n - 1
      /\ \A i \in 1..(2 * n - 1) : path'[i] = path[i]
  <2>1. Len(path) # 0 /\ 2 * n - 1 = Len(path) - 1
    BY <1>5
  <2>2. path' = Front(path)
    OBVIOUS
  <2> QED BY <1>5, <2>1, <2>2, FrontIs
<1>7. File' = File
  BY DEF File
<1>8. \A k \in 1..n : NameAt(k)' = NameAt(k)
  BY <1>2, <1>7 DEF NameAt
<1>9. ASSUME NEW k \in 1..(n - 1) PROVE LinkInv(k)'
  <2>1. LinkInv(k)
    BY <1>4
  <2>2. k \in 1..n /\ k + 1 \in 1..n /\ 2 * k \in 1..(2 * n - 1) /\ 2 * k - 1 \in 1..(2 * n - 1)
    OBVIOUS
  <2>3. path'[2 * k - 1] = path[2 * k - 1] /\ path'[2 * k] = path[2 * k]
    BY <1>6, <2>2
  <2>4. frames'[k] = frames[k] /\ frames'[k + 1] = frames[k + 1]
    BY <1>2, <2>2
  <2>5. NameAt(k)' = NameAt(k) /\ ListNumber("nested", k)' = ListNumber("nested", k)
    BY <1>8, <2>2 DEF ListNumber
  <2> QED BY <2>1, <2>3, <2>4, <2>5 DEF LinkInv
<1>10. TopInv(n)'
  <2>1. Top' = frames[n] /\ n \in 1..n
    BY <1>2 DEF Top, Last
  <2>2. frames[n].stage = "nested"
    BY <1>3 DEF WalkInv, FramesInv
  <2>3. "nested" \notin Unlisted /\ "nested" \in InModule
    BY DEF Unlisted, InModule
  <2>4. path'[2 * n - 1] = ListNumber("nested", n)
    <3>1. path[2 * n - 1] = ListNumber("nested", n)
      BY <1>4, <2>1 DEF LinkInv
    <3> QED BY <1>6, <3>1
  <2>5. ListNumber("nested", n)' = ListNumber("nested", n)
    BY DEF ListNumber
  <2> QED BY <1>5, <1>6, <1>7, <1>8, <2>1, <2>2, <2>3, <2>4, <2>5 DEF TopInv
<1> QED BY <1>2, <1>9, <1>10 DEF PathInv

(* The module of a message is entered, and left.                           *)
LEMMA ModuleIsName ==
  ASSUME WalkInv, PathInv, frames # <<>>, Top.stage \notin FileStages
  PROVE  /\ Len(frames) \in Nat \ {0, 1} /\ NameAt(Len(frames)) = Top.name
         /\ NameAt(Len(frames)) = Append(NameAt(Len(frames) - 1), Message.name)
         /\ NameAt(Len(frames) - 1) \in Seq(STRING) /\ Message \in Messages
<1>1. PICK n \in Nat \ {0} : n = Len(frames)
  BY TopIs DEF WalkInv
<1>2. n # 1 /\ Message \in Messages
  BY <1>1, StagesAre
<1>3. n - 1 \in 1..(n - 1) /\ n - 1 + 1 = n /\ n - 1 \in Nat \ {0}
  BY <1>2
<1>4. LinkInv(n - 1)
  BY <1>1, <1>3 DEF PathInv
<1>5. Top = frames[n] /\ Top.message = Message
  BY <1>1, TopIs DEF WalkInv, Message
<1>6. frames[n].name = Append(NameAt(n - 1), Message.name)
  BY <1>3, <1>4, <1>5 DEF LinkInv
<1>7. NameAt(n) = frames[n].name
  BY <1>2 DEF NameAt
<1>8. NameAt(n - 1) \in Seq(STRING)
  <2>1. CASE n - 1 = 1
    <3>1. File.package \in Seq(STRING)
      BY FilesAre DEF WalkInv, FramesInv, File
    <3> QED BY <2>1, <3>1 DEF NameAt
  <2>2. CASE n - 1 # 1
    <3>1. n - 1 \in 1..Len(frames) /\ frames \in Seq(FrameSet)
      BY <1>1, <1>3 DEF WalkInv, FramesInv
    <3>2. frames[n - 1] \in FrameSet
      <4> HIDE DEF FrameSet
      <4> QED BY <3>1
    <3>3. frames[n - 1].name \in Seq(STRING)
      BY <3>2 DEF FrameSet
    <3> QED BY <2>2, <3>3 DEF NameAt
  <2> QED BY <2>1, <2>2
<1> QED BY <1>1, <1>2, <1>5, <1>6, <1>7, <1>8

(* An element behind two sequences is one behind the second of them.       *)
LEMMA ConcatAppend ==
  ASSUME NEW S, NEW p \in Seq(S), NEW t \in Seq(S), NEW x \in S
  PROVE  p \o Append(t, x) = Append(p \o t, x)
<1>1. \A q \in Seq(S) : Append(q, x) = q \o <<x>>
  OBVIOUS
<1>2. p \o t \in Seq(S) /\ <<x>> \in Seq(S)
  BY ConcatProperties
<1>3. (p \o t) \o <<x>> = p \o (t \o <<x>>)
  BY <1>2, ConcatAssociative
<1> QED BY <1>1, <1>2, <1>3

(* Leaving out the last of two sequences leaves out the last of the second. *)
LEMMA FrontOfConcat ==
  ASSUME NEW S, NEW p \in Seq(S), NEW t \in Seq(S), Len(t) # 0,
         NEW r \in Seq(S), NEW y \in S, p \o t = Append(r, y)
  PROVE  p \o Front(t) = r
<1>1. PICK f \in Seq(S) : /\ f = Front(t) /\ Len(f) = Len(t) - 1
                          /\ \A i \in 1..(Len(t) - 1) : f[i] = t[i]
  BY FrontIs
<1>2. PICK a \in Nat, b \in Nat, c \in Nat : a = Len(p) /\ b + 1 = Len(t) /\ c = Len(r)
  <2>1. Len(p) \in Nat /\ Len(t) \in Nat /\ Len(r) \in Nat
    OBVIOUS
  <2>2. Len(t) - 1 \in Nat /\ Len(t) - 1 + 1 = Len(t)
    BY <2>1
  <2> QED BY <2>1, <2>2
<1>3. /\ Len(p \o t) = a + (b + 1)
      /\ \A i \in 1..(a + (b + 1)) : (p \o t)[i] = IF i <= a THEN p[i] ELSE t[i - a]
  <2>1. /\ Len(p \o t) = Len(p) + Len(t)
        /\ \A i \in 1..(Len(p) + Len(t)) : (p \o t)[i] = IF i <= Len(p) THEN p[i] ELSE t[i - Len(p)]
    BY ConcatProperties, Zenon
  <2>2. Len(p) = a /\ Len(t) = b + 1
    BY <1>2
  <2> QED BY <2>1, <2>2, Zenon
<1>4. Len(f) = b /\ \A i \in 1..b : f[i] = t[i]
  BY <1>1, <1>2
<1>5. /\ p \o f \in Seq(S) /\ Len(p \o f) = a + b
      /\ \A i \in 1..(a + b) : (p \o f)[i] = IF i <= a THEN p[i] ELSE f[i - a]
  BY <1>2, <1>4, ConcatProperties
<1>6. Len(Append(r, y)) = c + 1 /\ \A i \in 1..c : Append(r, y)[i] = r[i]
  BY <1>2, AppendIs
<1>7. c = a + b
  BY <1>3, <1>6
<1>8. ASSUME NEW i \in 1..(a + b) PROVE (p \o f)[i] = r[i]
  <2>1. i \in 1..(a + (b + 1)) /\ i \in 1..c /\ (~(i <= a) => i - a \in 1..b)
    BY <1>7
  <2>2. r[i] = IF i <= a THEN p[i] ELSE t[i - a]
    BY <1>3, <1>6, <2>1
  <2>3. (p \o f)[i] = IF i <= a THEN p[i] ELSE f[i - a]
    BY <1>5
  <2> QED BY <1>4, <2>1, <2>2, <2>3
<1>9. Len(p \o f) = Len(r) /\ \A i \in 1..Len(p \o f) : (p \o f)[i] = r[i]
  BY <1>2, <1>5, <1>7, <1>8
<1>10. p \o f = r
  BY <1>5, <1>9, SeqEqual
<1> QED BY <1>1, <1>10

(* The same of names, as claims that can be cited for any of them.         *)
LongerName(p, t, x) == p \o Append(t, x) = Append(p \o t, x)
ShorterName(p, t, r, y) == p \o t = Append(r, y) => p \o Front(t) = r

(* Both of them hold of all names.                                         *)
LEMMA NamesGrow ==
  /\ \A p, t \in Seq(STRING) : \A x \in STRING : LongerName(p, t, x)
  /\ \A p, t, r \in Seq(STRING) : \A y \in STRING : Len(t) # 0 => ShorterName(p, t, r, y)
<1>1. ASSUME NEW S, NEW p \in Seq(S), NEW t \in Seq(S), NEW x \in S PROVE LongerName(p, t, x)
  <2>1. p \o Append(t, x) = Append(p \o t, x)
    BY ConcatAppend
  <2> QED BY <2>1 DEF LongerName
<1>2. ASSUME NEW S, NEW p \in Seq(S), NEW t \in Seq(S), Len(t) # 0, NEW r \in Seq(S), NEW y \in S
      PROVE  ShorterName(p, t, r, y)
  <2>1. ASSUME p \o t = Append(r, y) PROVE p \o Front(t) = r
    BY <1>2, <2>1, FrontOfConcat
  <2> QED BY <2>1 DEF ShorterName
<1> QED BY <1>1, <1>2

(* Below a list, a path ends in the number of it: it is left, or changed.  *)
LEMMA PathFront ==
  ASSUME NEW p \in Seq(Nat), NEW n \in Nat \ {0}, Len(p) = 2 * n - 1
  PROVE  /\ Front(p) \in Seq(Nat) /\ Len(Front(p)) = 2 * n - 2
         /\ \A i \in 1..(2 * n - 2) : Front(p)[i] = p[i]
<1>1. Len(p) # 0 /\ Len(p) - 1 = 2 * n - 2
  OBVIOUS
<1> QED BY <1>1, FrontIs

(* The other one: the last number is changed.                              *)
Repathed(q, p, n, x) ==
  /\ q \in Seq(Nat) /\ Len(q) = 2 * n - 1 /\ q[2 * n - 1] = x
  /\ \A i \in 1..(2 * n - 2) : q[i] = p[i]

(* A path whose last number is replaced is otherwise the same.             *)
LEMMA PathRepath ==
  ASSUME NEW p \in Seq(Nat), NEW n \in Nat \ {0}, Len(p) = 2 * n - 1, NEW x \in Nat,
         NEW q, q = Append(Front(p), x)
  PROVE  Repathed(q, p, n, x)
<1>1. Len(p) # 0 /\ Len(p) - 1 = 2 * n - 2
  OBVIOUS
<1>2. /\ Append(Front(p), x) \in Seq(Nat) /\ Len(Append(Front(p), x)) = Len(p)
      /\ Append(Front(p), x)[Len(p)] = x
      /\ \A i \in 1..(Len(p) - 1) : Append(Front(p), x)[i] = p[i]
  BY <1>1, RepathIs, Zenon
<1>3. /\ Append(Front(p), x) \in Seq(Nat) /\ Len(Append(Front(p), x)) = 2 * n - 1
      /\ Append(Front(p), x)[2 * n - 1] = x
      /\ \A i \in 1..(2 * n - 2) : Append(Front(p), x)[i] = p[i]
  BY <1>1, <1>2, Zenon
<1> QED BY <1>3, Zenon DEF Repathed

(* The last number of the path is that of the list that is worked on.      *)
LEMMA PathRelist ==
  ASSUME WalkInv, PathInv, frames # <<>>, NEW s \in FileStages \cup MessageStages,
         frames' = Enter(s), UNCHANGED <<files, file, typePath>>,
         NEW n \in Nat \ {0}, n = Len(frames), s \notin InModule => n # 1,
         NEW c \in Nat, path' = Append(Front(path), c), c = ListNumber(s, n),
         Top.stage \notin Unlisted, s \notin Unlisted, s \in InModule <=> Top.stage \in InModule
  PROVE  PathInv'
<1>1. TopInv(n)
  BY DEF PathInv
<1>2. /\ path \in Seq(Nat) /\ Len(path) = 2 * n - 1
      /\ Len(typePath) = (IF s \in InModule THEN n - 1 ELSE n - 2)
      /\ File.package \o typePath = (IF s \in InModule THEN NameAt(n) ELSE NameAt(n - 1))
  BY <1>1 DEF TopInv
<1>3. /\ path' \in Seq(Nat) /\ Len(path') = 2 * n - 1 /\ path'[2 * n - 1] = c
      /\ \A i \in 1..(2 * n - 2) : path'[i] = path[i]
  <2>1. PICK p, q : p = path /\ q = path'
    OBVIOUS
  <2>2. p \in Seq(Nat) /\ Len(p) = 2 * n - 1 /\ q = Append(Front(p), c)
    BY <1>2, <2>1
  <2>3. Repathed(q, p, n, c)
    BY <2>2, PathRepath
  <2> QED BY <2>1, <2>3 DEF Repathed
<1> QED BY <1>2, <1>3, PathEnter

(* Every step of the walk keeps the path to what it is at.                 *)
LEMMA WalkKeepsPath ==
  ASSUME WalkInv, PathInv, Walk
  PROVE  PathInv'
<1> USE DEF Fixed
<1>1. ASSUME UNCHANGED <<frames, path, typePath, files, file>> PROVE PathInv'
  BY <1>1 DEF PathInv, TopInv, LinkInv, NameAt, ListNumber, Top, File
<1>2. ASSUME frames # <<>>
      PROVE  /\ Len(frames) \in Nat \ {0} /\ TopInv(Len(frames))
             /\ path \in Seq(Nat) /\ typePath \in Seq(STRING) /\ File.package \in Seq(STRING)
             /\ (Len(frames) = 1 <=> Top.stage \in FileStages /\ Len(frames) = 1)
             /\ (Len(frames) # 1 => Top.stage \in MessageStages)
  <2>1. Len(frames) \in Nat \ {0} /\ file \in 1..Len(files)
    BY <1>2, TopIs DEF WalkInv
  <2>2. TopInv(Len(frames))
    BY <1>2 DEF PathInv
  <2>3. path \in Seq(Nat)
    BY <2>2 DEF TopInv
  <2>4. File.package \in Seq(STRING)
    BY <2>1, FilesAre DEF WalkInv, File
  <2>5. typePath \in Seq(STRING)
    BY DEF WalkInv
  <2> QED BY <1>2, <2>1, <2>2, <2>3, <2>4, <2>5, StagesAre
<1>3. CASE RefuseSyntax \/ OverflowStack
  BY <1>1, <1>3 DEF RefuseSyntax, OverflowStack
<1>4. CASE SkipExternalMessage \/ WriteField \/ WriteOneofField \/ PushService
  BY <1>4, PathAdvance DEF SkipExternalMessage, AtChild, WriteField, WriteOneofField, PushService, Working
<1>5. CASE AppendEnum \/ AppendOneof
  <2>1. frames # <<>> /\ UNCHANGED <<files, file, path, typePath>> /\ (frames' = Advance \/ frames' = frames)
    BY <1>5 DEF AppendEnum, AppendOneof, Working
  <2> QED BY <1>1, <2>1, PathAdvance
<1>6. CASE OpenMessage
  <2>1. PICK name : name = FqName(ChildMessage.name)
    OBVIOUS
  <2>2. /\ AtChild /\ frames' = Append(Advance, Frame(ChildMessage, name, "fields"))
        /\ path' = Append(Append(path, Child - 1), 2) /\ UNCHANGED <<files, file, typePath>>
    BY <1>6, <2>1 DEF OpenMessage
  <2> QED BY <2>1, <2>2, PathOpen
<1>7. CASE EndMessage
  <2>1. /\ frames # <<>> /\ Top.stage = "name" /\ frames' = Front(frames) /\ path' = Front(path)
        /\ UNCHANGED <<files, file, typePath>>
    BY <1>7 DEF EndMessage, Working
  <2> QED BY <2>1, PathClose
<1>8. CASE StartFile
  <2>1. PICK frame : frame = Frame([MessageWith("", <<>>) EXCEPT !.nested = File.messages, !.enums = File.enums],
                                   <<>>, "nested")
    OBVIOUS
  <2>2. frames' = <<frame>> /\ path' = <<4>> /\ typePath' = <<>> /\ UNCHANGED <<files, file>>
        /\ frame.stage = "nested"
    BY <1>8, <2>1 DEF StartFile, Frame
  <2>3. file \in 1..Len(files)
    BY <1>8, FilesAre DEF StartFile, AtFileStart, WalkInv, RequestInv, IsList
  <2>4. File' = File /\ File.package \in Seq(STRING)
    BY <2>2, <2>3, FilesAre DEF WalkInv, File
  <2>5. Len(frames') = 1 /\ frames'[1] = frame /\ Top' = frame
    BY <2>2 DEF Top, Last
  <2>6. "nested" \notin Unlisted /\ "nested" \in InModule /\ ListNumber("nested", 1)' = 4
    BY DEF Unlisted, InModule, ListNumber
  <2>7. File'.package \o typePath' = NameAt(1)'
    BY <2>2, <2>4 DEF NameAt
  <2>8. path' \in Seq(Nat) /\ Len(path') = 1 /\ path'[1] = 4 /\ Len(typePath') = 0
    BY <2>2
  <2>9. TopInv(1)'
    BY <2>2, <2>5, <2>6, <2>7, <2>8 DEF TopInv
  <2> QED BY <2>5, <2>9 DEF PathInv
<1>9. CASE EndFields
  <2>1. /\ frames # <<>> /\ frames' = Enter("oneofs") /\ path' = Append(Front(path), 8)
        /\ UNCHANGED <<files, file, typePath>> /\ Top.stage = "fields"
    BY <1>9 DEF EndFields, Finished, Repath
  <2>2. PICK n \in Nat \ {0}, c \in Nat : n = Len(frames) /\ c = 8
    BY <1>2, <2>1
  <2>3. n # 1
    BY <1>2, <2>1, <2>2, StagesAre DEF FileStages
  <2>4. /\ "oneofs" \in FileStages \cup MessageStages /\ ListNumber("oneofs", n) = 8
        /\ "oneofs" \notin InModule /\ "fields" \notin InModule
        /\ "oneofs" \notin Unlisted /\ "fields" \notin Unlisted
    BY DEF MessageStages, FileStages, InModule, Unlisted, ListNumber
  <2> QED BY <2>1, <2>2, <2>3, <2>4, PathRelist
<1>14. CASE EndNested
  <2>1. PICK c \in Nat :
          /\ frames # <<>> /\ frames' = Enter("enums") /\ path' = Append(Front(path), c)
          /\ UNCHANGED <<files, file, typePath>> /\ Top.stage = "nested"
          /\ c = IF Len(frames) = 1 THEN 5 ELSE 4
    <3>1. PICK c \in Nat : c = IF AtFile THEN 5 ELSE 4
      OBVIOUS
    <3> QED BY <1>14, <3>1 DEF EndNested, Finished, Repath, AtFile
  <2>2. PICK n \in Nat \ {0} : n = Len(frames)
    BY <1>2, <2>1
  <2>3. /\ "enums" \in FileStages \cup MessageStages /\ c = ListNumber("enums", n)
        /\ "enums" \in InModule /\ "nested" \in InModule
        /\ "enums" \notin Unlisted /\ "nested" \notin Unlisted
    BY <2>1, <2>2 DEF MessageStages, FileStages, InModule, Unlisted, ListNumber
  <2> QED BY <2>1, <2>2, <2>3, PathRelist
<1>10. CASE EndOneofs
  <2>1. frames # <<>> /\ Top.stage = "oneofs" /\ UNCHANGED <<files, file>>
    BY <1>10 DEF EndOneofs, Finished
  <2>2. PICK n \in Nat \ {0, 1} : n = Len(frames)
    BY <2>1, ModuleIsName DEF FileStages
  <2>3. "oneofs" \notin Unlisted /\ "oneofs" \notin InModule
    BY DEF Unlisted, InModule, FileStages
  <2>4. /\ path \in Seq(Nat) /\ Len(path) = 2 * n - 1 /\ Len(path) # 0
        /\ Len(typePath) = n - 2 /\ File.package \o typePath = NameAt(n - 1)
    BY <1>2, <2>1, <2>2, <2>3 DEF TopInv
  <2>5. CASE frames' = Enter("nested") /\ Repath(3) /\ typePath' = Append(typePath, Message.name)
    <3>1. /\ path' \in Seq(Nat) /\ Len(path') = 2 * n - 1 /\ path'[2 * n - 1] = 3
          /\ \A i \in 1..(2 * n - 2) : path'[i] = path[i]
      <4>1. PICK c \in Nat : c = 3 /\ path' = Append(Front(path), c)
        BY <2>5 DEF Repath
      <4>2. n \in Nat \ {0}
        BY <2>2
      <4>3. PICK p, q : p = path /\ q = path'
        OBVIOUS
      <4>4. p \in Seq(Nat) /\ Len(p) = 2 * n - 1 /\ q = Append(Front(p), c)
        BY <2>4, <4>1, <4>3
      <4>5. Repathed(q, p, n, c)
        BY <4>2, <4>4, PathRepath
      <4> QED BY <4>1, <4>3, <4>5 DEF Repathed
    <3>2. "nested" \in FileStages \cup MessageStages /\ "nested" \in InModule /\ "nested" \notin Unlisted
          /\ ListNumber("nested", n) = 3
      BY <2>2 DEF MessageStages, InModule, Unlisted, ListNumber
    <3>3. NameAt(n) = Append(NameAt(n - 1), Message.name) /\ Message.name \in STRING
      BY <2>1, <2>2, ModuleIsName, MessagesAssumption DEF FileStages
    <3>4. typePath \in Seq(STRING) /\ File.package \in Seq(STRING)
      BY <1>2, <2>1
    <3>5. Len(typePath') = n - 1
      BY <2>4, <2>5, <3>3, <3>4
    <3>6. File.package \o typePath' = NameAt(n)
      <4>1. PICK p \in Seq(STRING), t \in Seq(STRING), x \in STRING :
              p = File.package /\ t = typePath /\ x = Message.name
        BY <3>3, <3>4
      <4>2. p \o Append(t, x) = Append(p \o t, x)
        <5>1. LongerName(p, t, x)
          BY NamesGrow
        <5> QED BY <5>1 DEF LongerName
      <4> QED BY <2>4, <2>5, <3>3, <4>1, <4>2
    <3> QED BY <2>1, <2>2, <2>5, <3>1, <3>2, <3>5, <3>6, PathEnter
  <2>6. CASE frames' = Enter("name") /\ path' = Front(path) /\ typePath' = typePath
    <3>1. /\ path' \in Seq(Nat) /\ Len(path') = 2 * n - 2
          /\ \A i \in 1..(2 * n - 2) : path'[i] = path[i]
      BY <2>2, <2>4, <2>6, PathFront
    <3>2. "name" \in FileStages \cup MessageStages /\ "name" \notin InModule /\ "name" \in Unlisted
      BY DEF FileStages, MessageStages, InModule, Unlisted
    <3>3. n # 1 /\ Len(typePath') = n - 2 /\ File.package \o typePath' = NameAt(n - 1)
      BY <2>2, <2>4, <2>6
    <3> QED BY <2>1, <2>2, <2>6, <3>1, <3>2, <3>3, PathEnter
  <2> QED BY <1>10, <2>5, <2>6 DEF EndOneofs
<1>11. CASE EndEnums
  <2>1. frames # <<>> /\ Top.stage = "enums" /\ UNCHANGED <<files, file, typePath>>
    BY <1>11 DEF EndEnums, Finished
  <2>2. PICK n \in Nat \ {0} : n = Len(frames)
    BY <1>2, <2>1
  <2>3. /\ path \in Seq(Nat) /\ Len(path) = 2 * n - 1 /\ Len(path) # 0
        /\ Len(typePath) = n - 1 /\ File.package \o typePath = NameAt(n)
    BY <1>2, <2>1, <2>2 DEF TopInv, Unlisted, InModule
  <2>4. CASE ~AtFile /\ frames' = Enter("variants") /\ path' = Front(path)
    <3>1. /\ path' \in Seq(Nat) /\ Len(path') = 2 * n - 2
          /\ \A i \in 1..(2 * n - 2) : path'[i] = path[i]
      BY <2>3, <2>4, PathFront
    <3>2. "variants" \in FileStages \cup MessageStages /\ "variants" \in InModule /\ "variants" \in Unlisted
      BY DEF MessageStages, InModule, Unlisted
    <3>3. Len(typePath') = n - 1 /\ File.package \o typePath' = NameAt(n)
      BY <2>1, <2>3
    <3> QED BY <2>1, <2>2, <2>4, <3>1, <3>2, <3>3, PathEnter
  <2>5. CASE AtFile /\ frames' = Enter("services") /\ Repath(6)
    <3>1. PICK c \in Nat : c = 6 /\ path' = Append(Front(path), c)
      BY <2>5 DEF Repath
    <3>2. /\ "services" \in FileStages \cup MessageStages /\ ListNumber("services", n) = 6
          /\ "services" \in InModule /\ "enums" \in InModule
          /\ "services" \notin Unlisted /\ "enums" \notin Unlisted
      BY DEF FileStages, InModule, Unlisted, ListNumber
    <3> QED BY <2>1, <2>2, <2>5, <3>1, <3>2, PathRelist
  <2>6. CASE AtFile /\ frames' = Enter("end") /\ path' = <<>>
    <3>1. n = 1
      BY <2>2, <2>6 DEF AtFile
    <3>2. path' \in Seq(Nat) /\ Len(path') = 2 * n - 2 /\ \A i \in 1..(2 * n - 2) : path'[i] = path[i]
      BY <2>6, <3>1
    <3>3. "end" \in FileStages \cup MessageStages /\ "end" \in InModule /\ "end" \in Unlisted
      BY DEF FileStages, InModule, Unlisted
    <3>4. Len(typePath') = n - 1 /\ File.package \o typePath' = NameAt(n)
      BY <2>1, <2>3
    <3> QED BY <2>1, <2>2, <2>6, <3>2, <3>3, <3>4, PathEnter
  <2> QED BY <1>11, <2>4, <2>5, <2>6 DEF EndEnums
<1>12. CASE EndVariants
  <2>1. /\ frames # <<>> /\ Top.stage = "variants" /\ frames' = Enter("name")
        /\ typePath' = Front(typePath) /\ UNCHANGED <<files, file, path>>
    BY <1>12 DEF EndVariants, Finished
  <2>2. PICK n \in Nat \ {0, 1} : n = Len(frames)
    BY <2>1, ModuleIsName DEF FileStages
  <2>3. /\ path \in Seq(Nat) /\ Len(path) = 2 * n - 2
        /\ Len(typePath) = n - 1 /\ File.package \o typePath = NameAt(n)
    BY <1>2, <2>1, <2>2 DEF TopInv, Unlisted, InModule
  <2>4. "name" \in FileStages \cup MessageStages /\ "name" \notin InModule /\ "name" \in Unlisted
    BY DEF FileStages, MessageStages, InModule, Unlisted
  <2>5. NameAt(n) = Append(NameAt(n - 1), Message.name) /\ NameAt(n - 1) \in Seq(STRING)
    BY <2>1, <2>2, ModuleIsName DEF FileStages
  <2>6. Len(typePath') = n - 2 /\ File.package \o typePath' = NameAt(n - 1)
    <3>1. PICK p \in Seq(STRING), t \in Seq(STRING) : p = File.package /\ t = typePath
      BY <1>2, <2>1
    <3>2. Len(t) = n - 1 /\ Len(t) # 0
      BY <2>3, <3>1
    <3>3. PICK r \in Seq(STRING), y \in STRING : r = NameAt(n - 1) /\ y = Message.name
      <4>1. Message.name \in STRING
        BY <2>1, ModuleIsName, MessagesAssumption DEF FileStages
      <4> QED BY <2>5, <4>1
    <3>4. p \o t = Append(r, y)
      BY <2>3, <2>5, <3>1, <3>3
    <3>5. p \o Front(t) = r
      <4>1. ShorterName(p, t, r, y)
        BY <3>2, NamesGrow
      <4> QED BY <3>4, <4>1 DEF ShorterName
    <3>6. Len(Front(t)) = n - 2
      <4>1. Len(Front(t)) = Len(t) - 1
        BY <3>2, FrontIs
      <4> QED BY <3>2, <4>1
    <3> QED BY <2>1, <3>1, <3>3, <3>5, <3>6
  <2>7. path' \in Seq(Nat) /\ Len(path') = 2 * n - 2 /\ \A i \in 1..(2 * n - 2) : path'[i] = path[i]
    BY <2>1, <2>3
  <2>8. n # 1
    OBVIOUS
  <2> QED BY <2>1, <2>2, <2>4, <2>6, <2>7, <2>8, PathEnter
<1>13. CASE EndServices
  <2>1. /\ frames # <<>> /\ Top.stage = "services" /\ frames' = Enter("end") /\ path' = <<>>
        /\ UNCHANGED <<files, file, typePath>>
    BY <1>13 DEF EndServices, Finished
  <2>2. PICK n \in Nat \ {0} : n = Len(frames)
    BY <1>2, <2>1
  <2>3. n = 1
    BY <1>2, <2>1, <2>2 DEF MessageStages
  <2>4. Len(typePath) = n - 1 /\ File.package \o typePath = NameAt(n)
    BY <1>2, <2>1, <2>2 DEF TopInv, InModule, FileStages
  <2>5. path' \in Seq(Nat) /\ Len(path') = 2 * n - 2 /\ \A i \in 1..(2 * n - 2) : path'[i] = path[i]
    BY <2>1, <2>3
  <2>6. "end" \in FileStages \cup MessageStages /\ "end" \in InModule /\ "end" \in Unlisted
    BY DEF FileStages, InModule, Unlisted
  <2>7. Len(typePath') = n - 1 /\ File.package \o typePath' = NameAt(n)
    BY <2>1, <2>4
  <2> QED BY <2>1, <2>2, <2>5, <2>6, <2>7, PathEnter
<1> QED BY <1>3, <1>4, <1>5, <1>6, <1>7, <1>8, <1>9, <1>10, <1>11, <1>12, <1>13, <1>14 DEF Walk

(* The lists of the file, or of the message on top. *)
LEMMA OnTop ==
  ASSUME WalkInv, PathInv, frames # <<>>, NEW n \in Nat \ {0}, n = Len(frames)
  PROVE  /\ n # 1 => LET m == ReachedAt(n - 1).element
                     IN /\ Within(m, 2) = Message.fields /\ Within(m, 3) = Message.nested
                        /\ Within(m, 4) = Message.enums /\ Within(m, 8) = Message.oneofs
         /\ n = 1 => LET f == ReachedAt(n - 1).element
                     IN /\ Within(f, 4) = Message.nested /\ Within(f, 5) = Message.enums
                        /\ Within(f, 6) = File.services
<1>1. Top = frames[n] /\ file \in 1..Len(files)
  BY TopIs DEF WalkInv
<1>2. CASE n # 1
  <2>1. Message \in Messages
    BY <1>2, StagesAre
  <2>2. n - 1 # 0 /\ n - 1 + 1 = n
    BY <1>2
  <2>3. ReachedAt(n - 1).element = Message
    BY <1>1, <2>2 DEF ReachedAt, Message
  <2> QED BY <1>2, <2>1, <2>3, WithinIs
<1>3. CASE n = 1
  <2>1. ReachedAt(n - 1).element = File
    BY <1>3 DEF ReachedAt, Start
  <2>2. Message = FileMessage(File)
    BY <1>1, <1>3 DEF WalkInv, FramesInv, Message
  <2>3. Message.nested = File.messages /\ Message.enums = File.enums
    BY <2>2 DEF FileMessage, MessageWith
  <2>4. DOMAIN File = {"package", "syntax", "messages", "enums", "services"}
    BY <1>1, FilesAre DEF WalkInv, File
  <2>5. Within(File, 4) = File.messages /\ Within(File, 5) = File.enums /\ Within(File, 6) = File.services
    BY <2>4, WithinIs
  <2> QED BY <1>3, <2>1, <2>3, <2>5
<1> QED BY <1>2, <1>3

(* Where the elements of a list of the message on top are looked up.       *)
LeadsTo(n, list, i) == ElementAt(File, Append(path, i - 1)) = Append(NameAt(n), list[i].name)

(* An index behind the path leads into the list the frame is at.           *)
LEMMA Listed ==
  ASSUME WalkInv, PathInv, frames # <<>>, Top.stage \notin Unlisted,
         NEW n \in Nat \ {0}, n = Len(frames),
         NEW list, list = Within(ReachedAt(n - 1).element, ListNumber(Top.stage, n)),
         Len(list) \in Nat, NEW i \in 1..Len(list)
  PROVE  LeadsTo(n, list, i)
<1>1. path \in Seq(Nat) /\ Len(path) = 2 * n - 1 /\ path[2 * n - 1] = ListNumber(Top.stage, n)
  BY DEF PathInv, TopInv
<1>2. PICK c \in Nat : c = i - 1 /\ c + 1 = i /\ c < Len(list)
  <2>1. i - 1 \in Nat /\ i - 1 + 1 = i /\ i - 1 < Len(list)
    OBVIOUS
  <2> QED BY <2>1
<1>3. PICK l \in Nat : l = 2 * n - 1
  <2>1. 2 * n - 1 \in Nat
    OBVIOUS
  <2> QED BY <2>1, Zenon
<1>4. PICK p : p = Append(path, c)
  OBVIOUS
<1>5. p \in Seq(Nat) /\ Len(p) = l + 1 /\ p[l + 1] = c /\ \A k \in 1..l : p[k] = path[k]
  <2>1. Len(path) = l
    BY <1>1, <1>3
  <2>2. LongerByOne(p, path, c, l)
    BY <1>1, <1>4, <2>1, OneMore
  <2> QED BY <2>2 DEF LongerByOne
<1>6. l + 1 = 2 * n /\ l \in 1..l /\ \A k \in 1..(2 * n - 2) : k \in 1..l
  BY <1>3
<1>7. Len(p) = 2 * n /\ p[2 * n] = c /\ p[2 * n - 1] = ListNumber(Top.stage, n)
  BY <1>1, <1>3, <1>5, <1>6
<1>8. Below(p)
  BY <1>5, <1>6 DEF Below
<1>9. ElementAt(File, p) = Append(NameAt(n), list[p[2 * n] + 1].name)
  <2>1. /\ Len(p) = 2 * Len(frames) /\ p[2 * Len(frames)] < Len(list)
        /\ list = Within(ReachedAt(Len(frames) - 1).element, p[2 * Len(frames) - 1])
    BY <1>2, <1>7
  <2> QED BY <1>8, <2>1, OneStepOn
<1>10. list[p[2 * n] + 1].name = list[i].name
  BY <1>2, <1>7
<1> QED BY <1>2, <1>4, <1>9, <1>10 DEF LeadsTo

(* The same when the path ends at the message itself, as append_oneof has it. *)
LeadsBelow(n, d, list, i) ==
  ElementAt(File, path \o <<d, i - 1>>) = Append(NameAt(n), list[i].name)

(* Two numbers behind the path of a message lead into any of its lists.    *)
LEMMA ListedBelow ==
  ASSUME WalkInv, PathInv, frames # <<>>, Top.stage \in Unlisted,
         NEW n \in Nat \ {0}, n = Len(frames), NEW d \in Nat,
         NEW list, list = Within(ReachedAt(n - 1).element, d),
         Len(list) \in Nat, NEW i \in 1..Len(list)
  PROVE  LeadsBelow(n, d, list, i)
<1>1. path \in Seq(Nat) /\ Len(path) = 2 * n - 2
  BY DEF PathInv, TopInv
<1>2. PICK c \in Nat : c = i - 1 /\ c + 1 = i /\ c < Len(list)
  <2>1. i - 1 \in Nat /\ i - 1 + 1 = i /\ i - 1 < Len(list)
    OBVIOUS
  <2> QED BY <2>1
<1>3. PICK l \in Nat : l = 2 * n - 2
  <2>1. 2 * n - 2 \in Nat
    OBVIOUS
  <2> QED BY <2>1, Zenon
<1>4. PICK p : p = path \o <<d, c>>
  OBVIOUS
<1>6. /\ p \in Seq(Nat) /\ Len(p) = l + 2 /\ p[l + 1] = d /\ p[l + 2] = c
      /\ \A k \in 1..l : p[k] = path[k]
  <2>1. Len(path) = l
    BY <1>1, <1>3
  <2>2. LongerByTwo(p, path, d, c, l)
    BY <1>1, <1>4, <2>1, TwoMore
  <2> QED BY <2>2 DEF LongerByTwo
<1>7. l + 1 = 2 * n - 1 /\ l + 2 = 2 * n /\ \A k \in 1..(2 * n - 2) : k \in 1..l
  BY <1>3
<1>8. Below(p)
  BY <1>6, <1>7 DEF Below
<1>9. Len(p) = 2 * n /\ p[2 * n] = c /\ p[2 * n - 1] = d
  BY <1>6, <1>7
<1>10. ElementAt(File, p) = Append(NameAt(n), list[p[2 * n] + 1].name)
  <2>1. /\ Len(p) = 2 * Len(frames) /\ p[2 * Len(frames)] < Len(list)
        /\ list = Within(ReachedAt(Len(frames) - 1).element, p[2 * Len(frames) - 1])
    BY <1>2, <1>9
  <2> QED BY <1>8, <2>1, OneStepOn
<1>11. list[p[2 * n] + 1].name = list[i].name
  BY <1>2, <1>9
<1> QED BY <1>2, <1>4, <1>10, <1>11 DEF LeadsBelow

(* The j-th element of the list inner, in the i-th one of list. *)
LeadsInto(n, list, i, inner, j) ==
  ElementAt(File, Append(path, i - 1) \o <<2, j - 1>>)
    = Append(Append(NameAt(n), list[i].name), inner[j].name)

(* The values of an enum and the methods of a service are one list further. *)
LEMMA ListedTwice ==
  ASSUME WalkInv, PathInv, frames # <<>>, Top.stage \notin Unlisted,
         NEW n \in Nat \ {0}, n = Len(frames),
         NEW list, list = Within(ReachedAt(n - 1).element, ListNumber(Top.stage, n)),
         Len(list) \in Nat, NEW i \in 1..Len(list),
         NEW inner, inner = Within(list[i], 2), Len(inner) \in Nat, NEW j \in 1..Len(inner)
  PROVE  LeadsInto(n, list, i, inner, j)
<1>1. path \in Seq(Nat) /\ Len(path) = 2 * n - 1 /\ path[2 * n - 1] = ListNumber(Top.stage, n)
  BY DEF PathInv, TopInv
<1>2. PICK c \in Nat : c = i - 1 /\ c + 1 = i /\ c < Len(list)
  <2>1. i - 1 \in Nat /\ i - 1 + 1 = i /\ i - 1 < Len(list)
    OBVIOUS
  <2> QED BY <2>1
<1>3. PICK b \in Nat : b = j - 1 /\ b + 1 = j /\ b < Len(inner)
  <2>1. j - 1 \in Nat /\ j - 1 + 1 = j /\ j - 1 < Len(inner)
    OBVIOUS
  <2> QED BY <2>1
<1>4. PICK l \in Nat : l = 2 * n - 1
  <2>1. 2 * n - 1 \in Nat
    OBVIOUS
  <2> QED BY <2>1, Zenon
<1>5. PICK q : q = Append(path, c)
  OBVIOUS
<1>6. q \in Seq(Nat) /\ Len(q) = l + 1 /\ q[l + 1] = c /\ \A k \in 1..l : q[k] = path[k]
  <2>1. path \in Seq(Nat) /\ Len(path) = l
    BY <1>1, <1>4, Zenon
  <2>2. LongerByOne(q, path, c, l)
    BY <1>5, <2>1, OneMore
  <2> QED BY <2>2 DEF LongerByOne
<1>7. PICK m \in Nat, two \in Nat : m = l + 1 /\ two = 2
  OBVIOUS
<1>8. PICK p : p = q \o <<two, b>>
  OBVIOUS
<1>9. /\ p \in Seq(Nat) /\ Len(p) = l + 3 /\ p[l + 2] = 2 /\ p[l + 3] = b
      /\ \A k \in 1..(l + 1) : p[k] = q[k]
  <2>1. q \in Seq(Nat) /\ Len(q) = m
    BY <1>6, <1>7
  <2>2. LongerByTwo(p, q, two, b, m)
    BY <1>8, <2>1, TwoMore
  <2>3. m + 1 = l + 2 /\ m + 2 = l + 3
    BY <1>7
  <2> QED BY <1>7, <2>2, <2>3 DEF LongerByTwo
<1>10. /\ l \in 1..l /\ l + 1 \in 1..(l + 1) /\ l = 2 * n - 1 /\ l + 1 = 2 * n /\ l + 2 = 2 * n + 1
       /\ l + 3 = 2 * n + 2
       /\ \A k \in 1..l : k \in 1..(l + 1)
       /\ \A k \in 1..(2 * n - 2) : k \in 1..l
  BY <1>4
<1>11. \A k \in 1..l : p[k] = path[k]
  BY <1>6, <1>9, <1>10
<1>12. Below(p)
  BY <1>9, <1>10, <1>11 DEF Below
<1>13. /\ Len(p) = 2 * n + 2 /\ p[2 * n - 1] = ListNumber(Top.stage, n) /\ p[2 * n] = c
       /\ p[2 * n + 1] = 2 /\ p[2 * n + 2] = b
  BY <1>1, <1>6, <1>9, <1>10, <1>11
<1>14. PICK element : element = list[p[2 * n] + 1] /\ element = list[i]
  BY <1>2, <1>13
<1>15. ElementAt(File, p) = Append(Append(NameAt(n), element.name), inner[p[2 * n + 2] + 1].name)
  <2>1. /\ Len(p) = 2 * Len(frames) + 2 /\ p[2 * Len(frames)] < Len(list)
        /\ list = Within(ReachedAt(Len(frames) - 1).element, p[2 * Len(frames) - 1])
        /\ element = list[p[2 * Len(frames)] + 1] /\ inner = Within(element, p[2 * Len(frames) + 1])
        /\ p[2 * Len(frames) + 2] < Len(inner)
    BY <1>2, <1>3, <1>13, <1>14
  <2> QED BY <1>12, <2>1, TwoStepsOn
<1>16. ElementAt(File, Append(path, i - 1) \o <<2, j - 1>>)
         = Append(Append(NameAt(n), list[i].name), inner[j].name)
  <2>1. p = Append(path, i - 1) \o <<2, j - 1>>
    BY <1>2, <1>3, <1>5, <1>7, <1>8, Zenon
  <2>2. element.name = list[i].name /\ inner[p[2 * n + 2] + 1].name = inner[j].name
    BY <1>3, <1>13, <1>14
  <2> QED BY <1>15, <2>1, <2>2
<1> QED BY <1>16 DEF LeadsInto

(* The comments of an item are those of its own element.                   *)
Located(item) == item.doc # <<>> => ElementAt(files[item.file], item.doc) = item.proto

(* An item of a name that is found by the path it was made with.           *)
LEMMA IsLocated ==
  ASSUME NEW item, NEW proto, NEW w, ItemOf(item, proto, {<<>>, w}), ElementAt(File, w) = proto
  PROVE  Located(item)
BY DEF ItemOf, Located, File

(* The numbers of the values of an enum, and its items.                    *)
LEMMA MappedAre ==
  ASSUME NEW e, IsList(e.values)
  PROVE  Len(Mapped(e)) \in Nat /\ \A k \in 1..Len(Mapped(e)) : Mapped(e)[k] \in 1..Len(e.values)
<1> DEFINE S == {i \in DOMAIN e.values :
                   \A j \in 1..(i - 1) : e.values[j].number # e.values[i].number}
<1>1. Mapped(e) = Numbers[S]
  BY DEF Mapped
<1>2. S \in SUBSET (1..Len(e.values)) /\ Len(e.values) \in Nat
  BY DEF IsList
<1> HIDE DEF S
<1> QED BY <1>1, <1>2, NumbersAreIn

(* The items of an enum: its own, and one for each of its values.          *)
LEMMA EnumItemsAre ==
  ASSUME NEW e, NEW w, NEW item \in EnumItems(e, w)
  PROVE  \/ ItemOf(item, FqName(e.name), {<<>>, w})
         \/ \E k \in 1..Len(Mapped(e)) :
              ItemOf(item, Append(FqName(e.name), e.values[Mapped(e)[k]].name),
                     {<<>>, w \o <<2, Mapped(e)[k] - 1>>})
<1>1. \A n, v : Doc(n, v) \in {<<>>, v}
  BY DEF Doc
<1>2. \A kind, n, p, d, v, a : ItemOf([Item(kind, n, p, d) EXCEPT !.attrs = a, !.values = v], p, {d})
  BY DEF ItemOf, Item
<1>3. \A kind, n, p, d, o : ItemOf([Item(kind, n, p, d) EXCEPT !.owner = o], p, {d})
  BY DEF ItemOf, Item
<1>4. \A i, p, d, v : ItemOf(i, p, {d}) /\ d \in {<<>>, v} => ItemOf(i, p, {<<>>, v})
  BY DEF ItemOf
<1> DEFINE name == FqName(e.name)
           mapped == Mapped(e)
           variant(i) == [variant |-> VariantName(e.name, e.values[mapped[i]].name),
                          number |-> e.values[mapped[i]].number]
           enum == [Item("enum", Camel[e.name], name, Doc(name, w)) EXCEPT
                      !.attrs = DerivePath, !.values = [i \in 1..Len(mapped) |-> variant(i)]]
           value(i) == LET proto == Append(name, e.values[mapped[i]].name)
                       IN [Item("value", variant(i).variant, proto,
                                Doc(proto, w \o ValuePath(e, i))) EXCEPT !.owner = name]
<1>5. item = enum \/ \E i \in 1..Len(mapped) : item = value(i)
  BY DEF EnumItems
<1>6. ItemOf(enum, name, {<<>>, w})
  <2> HIDE DEF name, mapped
  <2>1. ItemOf(enum, name, {Doc(name, w)})
    BY <1>2
  <2> HIDE DEF enum
  <2> QED BY <1>1, <1>4, <2>1
<1>7. ASSUME NEW i PROVE ItemOf(value(i), Append(name, e.values[mapped[i]].name), {<<>>, w \o <<2, mapped[i] - 1>>})
  <2> DEFINE proto == Append(name, e.values[mapped[i]].name)
             v == w \o ValuePath(e, i)
  <2>1. v = w \o <<2, mapped[i] - 1>>
    BY DEF ValuePath
  <2> HIDE DEF name, mapped
  <2>2. ItemOf(value(i), proto, {Doc(proto, v)})
    BY <1>3
  <2> HIDE DEF value, v, proto
  <2>3. ItemOf(value(i), proto, {<<>>, v})
    BY <1>1, <1>4, <2>2
  <2> USE DEF proto
  <2> QED BY <2>1, <2>3
<1> HIDE DEF enum, value
<1> QED BY <1>5, <1>6, <1>7

(* A name below another, and one below that.                               *)
LEMMA NamesBelow ==
  ASSUME NEW s \in Seq(STRING), NEW x, NEW y
  PROVE  s \o <<x>> = Append(s, x) /\ s \o <<x, y>> = Append(Append(s, x), y)
OBVIOUS

(* What the service on top is written as.                                  *)
LEMMA ServiceItemsAre ==
  ASSUME NEW s, NEW w, NEW item \in ServiceItems(s, w)
  PROVE  \/ ItemOf(item, Append(File.package, s.name), {<<>>, w})
         \/ \E k \in 1..Len(s.methods) :
              ItemOf(item, File.package \o <<s.name, s.methods[k].name>>, {<<>>, w \o <<2, k - 1>>})
<1>1. ItemOf(Item("service", Camel[s.name], Append(File.package, s.name), w),
             Append(File.package, s.name), {<<>>, w})
  BY DEF ItemOf, Item
<1>2. \A m, v : ItemOf(MethodItem(s, m, v), File.package \o <<s.name, m.name>>, {<<>>, v})
  <2>1. \A m, v : ItemOf(MethodItem(s, m, v), File.package \o <<s.name, m.name>>, {v})
    BY ItemsAre
  <2> QED BY <2>1 DEF ItemOf
<1>3. item = Item("service", Camel[s.name], Append(File.package, s.name), w)
      \/ \E k \in 1..Len(s.methods) : item = MethodItem(s, s.methods[k], w \o <<2, k - 1>>)
  BY DEF ServiceItems
<1> QED BY <1>1, <1>2, <1>3

(* What the generator writes in a step has the comments of its element.    *)
LEMMA WalkLocates ==
  ASSUME WalkInv, PathInv, Walk
  PROVE  \A item \in out' \ out : Located(item)
<1>1. ASSUME frames # <<>>
      PROVE  /\ Len(frames) \in Nat \ {0} /\ Top.next \in Nat \ {0} /\ MessageLike(Message)
             /\ File.package \in Seq(STRING) /\ (Len(frames) # 1 => NameAt(Len(frames)) = Top.name)
             /\ (Top.stage \in InModule => File.package \o typePath = NameAt(Len(frames)))
             /\ (Top.stage \in InModule => File.package \o typePath \in Seq(STRING))
             /\ Len(Message.nested) \in Nat /\ Len(Message.fields) \in Nat
             /\ Len(Message.enums) \in Nat /\ Len(Message.oneofs) \in Nat
  <2>1. Len(frames) \in Nat \ {0} /\ Top.next \in Nat \ {0} /\ MessageLike(Message) /\ file \in 1..Len(files)
    BY <1>1, TopIs DEF WalkInv
  <2>2. Top = frames[Len(frames)]
    BY <1>1, TopIs DEF WalkInv
  <2>3. Len(frames) # 1 => NameAt(Len(frames)) = Top.name
    BY <2>2 DEF NameAt
  <2>4. File.package \in Seq(STRING)
    BY <2>1, FilesAre DEF WalkInv, File
  <2>5. File.package \o typePath \in Seq(STRING)
    BY <2>4, ConcatProperties DEF WalkInv
  <2>6. Top.stage \in InModule => File.package \o typePath = NameAt(Len(frames))
    BY <1>1 DEF PathInv, TopInv
  <2>7. /\ Len(Message.nested) \in Nat /\ Len(Message.fields) \in Nat
        /\ Len(Message.enums) \in Nat /\ Len(Message.oneofs) \in Nat
    BY <2>1 DEF MessageLike, IsList, AreEnums
  <2> QED BY <2>1, <2>3, <2>4, <2>5, <2>6, <2>7
<1>2. ASSUME frames # <<>>, Top.stage \in {"fields", "oneofs", "variants", "name"}
      PROVE  /\ Len(frames) # 1
             /\ Within(ReachedAt(Len(frames) - 1).element, 2) = Message.fields
             /\ Within(ReachedAt(Len(frames) - 1).element, 8) = Message.oneofs
  <2>1. Len(frames) # 1
    BY <1>2, StagesAre DEF FileStages
  <2> QED BY <1>1, <1>2, <2>1, OnTop
<1>3. CASE RefuseSyntax \/ StartFile \/ SkipExternalMessage \/ OverflowStack \/ EndFields \/ EndOneofs
           \/ EndNested \/ EndEnums \/ EndVariants \/ EndServices
  <2>1. out' = out
    BY <1>3 DEF RefuseSyntax, StartFile, SkipExternalMessage, OverflowStack, EndFields, EndOneofs,
                EndNested, EndEnums, EndVariants, EndServices
  <2> QED BY <2>1
<1>4. CASE OpenMessage
  <2>1. /\ AtChild /\ frames # <<>> /\ Top.stage = "nested" /\ Child \in 1..Len(Message.nested)
        /\ out' = out \cup {StructItem(ChildMessage, Append(path, Child - 1))}
    BY <1>4, ChildIs DEF OpenMessage, Write, WalkInv
  <2>2. PICK n \in Nat \ {0} : n = Len(frames)
    BY <1>1, <2>1
  <2>3. PICK w : w = Append(path, Child - 1)
    OBVIOUS
  <2>4. Message.nested = Within(ReachedAt(n - 1).element, ListNumber(Top.stage, n))
    BY <2>1, <2>2, OnTop DEF ListNumber
  <2>5. ElementAt(File, w) = Append(NameAt(n), ChildMessage.name)
    <3>1. "nested" \notin Unlisted
      BY DEF Unlisted
    <3>2. LeadsTo(n, Message.nested, Child)
      BY <1>1, <2>1, <2>2, <2>3, <2>4, <3>1, Listed
    <3> QED BY <2>3, <2>4, <3>2 DEF ChildMessage, LeadsTo
  <2>6. FqName(ChildMessage.name) = Append(NameAt(n), ChildMessage.name)
    <3>1. PICK s \in Seq(STRING) : s = File.package \o typePath /\ s = NameAt(n)
      BY <1>1, <2>1, <2>2 DEF InModule
    <3> QED BY <3>1, NamesBelow DEF FqName
  <2>7. ItemOf(StructItem(ChildMessage, w), FqName(ChildMessage.name), {<<>>, w})
    BY ItemsAre
  <2> QED BY <2>1, <2>3, <2>5, <2>6, <2>7, IsLocated
<1>5. CASE WriteField
  <2>1. frames # <<>> /\ Top.stage = "fields" /\ Top.next \in 1..Len(PlainFields(Message))
    <3>1. frames # <<>> /\ Top.stage = "fields" /\ Top.next <= Len(PlainFields(Message))
      BY <1>5 DEF WriteField, Working
    <3>2. Len(PlainFields(Message)) \in Nat /\ Top.next \in Nat \ {0}
      BY <1>1, <3>1, ListsAre
    <3> QED BY <3>1, <3>2
  <2>2. PICK n \in Nat \ {0} : n = Len(frames)
    BY <1>1, <2>1
  <2>3. PICK i \in 1..Len(Message.fields) : i = PlainFields(Message)[Top.next]
    BY <1>1, <2>1, ListsAre
  <2>4. PICK w, field : w = Append(path, i - 1) /\ field = Message.fields[i]
    OBVIOUS
  <2>5. ElementAt(File, w) = Append(Top.name, field.name)
    <3>1. "fields" \notin Unlisted /\ ListNumber("fields", n) = 2
      BY DEF Unlisted, ListNumber
    <3>2. NameAt(n) = Top.name /\ Message.fields = Within(ReachedAt(n - 1).element, ListNumber(Top.stage, n))
      BY <1>1, <1>2, <2>1, <2>2, <3>1
    <3>3. PICK list : list = Message.fields
      OBVIOUS
    <3>4. /\ list = Within(ReachedAt(n - 1).element, ListNumber(Top.stage, n)) /\ Top.stage \notin Unlisted
          /\ Len(list) \in Nat /\ i \in 1..Len(list)
      BY <1>1, <2>1, <3>1, <3>2, <3>3
    <3>5. ElementAt(File, Append(path, i - 1)) = Append(NameAt(n), list[i].name)
      <4>1. LeadsTo(n, list, i)
        BY <2>1, <2>2, <3>4, Listed
      <4> QED BY <4>1 DEF LeadsTo
    <3> QED BY <2>4, <3>2, <3>3, <3>5
  <2>6. ItemOf(FieldItem(Top.name, field, w), Append(Top.name, field.name), {<<>>, w})
        /\ \A entry : ItemOf(MapItem(Top.name, field, entry, w), Append(Top.name, field.name), {<<>>, w})
    BY ItemsAre
  <2>7. \/ out' = out \cup {FieldItem(Top.name, field, w)}
        \/ \E entry : out' = out \cup {MapItem(Top.name, field, entry, w)}
    BY <1>5, <2>3, <2>4 DEF WriteField, Write
  <2>8. Located(FieldItem(Top.name, field, w)) /\ \A entry : Located(MapItem(Top.name, field, entry, w))
    BY <2>5, <2>6, IsLocated
  <2> QED BY <2>7, <2>8
<1>6. CASE WriteOneofField
  <2>1. frames # <<>> /\ Top.stage = "oneofs" /\ Top.next \in 1..Len(OneofFields(Message))
    <3>1. frames # <<>> /\ Top.stage = "oneofs" /\ Top.next <= Len(OneofFields(Message))
      BY <1>6 DEF WriteOneofField, Working
    <3>2. Len(OneofFields(Message)) \in Nat /\ Top.next \in Nat \ {0}
      BY <1>1, <3>1, ListsAre
    <3> QED BY <3>1, <3>2
  <2>2. PICK n \in Nat \ {0} : n = Len(frames)
    BY <1>1, <2>1
  <2>3. PICK o \in 1..Len(Message.oneofs) : o = OneofFields(Message)[Top.next]
    BY <1>1, <2>1, ListsAre
  <2>4. PICK w : w = Append(path, o - 1)
    OBVIOUS
  <2>5. ElementAt(File, w) = Append(Top.name, Message.oneofs[o].name)
    <3>1. "oneofs" \notin Unlisted /\ ListNumber("oneofs", n) = 8
      BY DEF Unlisted, ListNumber
    <3>2. NameAt(n) = Top.name /\ Message.oneofs = Within(ReachedAt(n - 1).element, ListNumber(Top.stage, n))
      BY <1>1, <1>2, <2>1, <2>2, <3>1
    <3>3. PICK list : list = Message.oneofs
      OBVIOUS
    <3>4. /\ list = Within(ReachedAt(n - 1).element, ListNumber(Top.stage, n)) /\ Top.stage \notin Unlisted
          /\ Len(list) \in Nat /\ o \in 1..Len(list)
      BY <1>1, <2>1, <3>1, <3>2, <3>3
    <3>5. ElementAt(File, Append(path, o - 1)) = Append(NameAt(n), list[o].name)
      <4>1. LeadsTo(n, list, o)
        BY <2>1, <2>2, <3>4, Listed
      <4> QED BY <4>1 DEF LeadsTo
    <3> QED BY <2>4, <3>2, <3>3, <3>5
  <2>6. ItemOf(OneofFieldItem(Message, Top.name, o, w), Append(Top.name, Message.oneofs[o].name), {<<>>, w})
    BY ItemsAre
  <2>7. out' = out \cup {OneofFieldItem(Message, Top.name, o, w)}
    BY <1>6, <2>3, <2>4 DEF WriteOneofField, Write
  <2>8. Located(OneofFieldItem(Message, Top.name, o, w))
    BY <2>5, <2>6, IsLocated
  <2> QED BY <2>7, <2>8
<1>7. CASE AppendEnum
  <2>1. frames # <<>> /\ Top.stage = "enums" /\ Top.next \in 1..Len(Message.enums)
    <3>1. frames # <<>> /\ Top.stage = "enums" /\ Top.next <= Len(Message.enums)
      BY <1>7 DEF AppendEnum, Working
    <3> QED BY <1>1, <3>1
  <2>2. PICK n \in Nat \ {0} : n = Len(frames)
    BY <1>1, <2>1
  <2>3. PICK i \in 1..Len(Message.enums) : i = Top.next
    BY <2>1
  <2>4. PICK w, e : w = Append(path, i - 1) /\ e = Message.enums[i]
    OBVIOUS
  <2>5. "enums" \notin Unlisted /\ "enums" \in InModule
        /\ Message.enums = Within(ReachedAt(n - 1).element, ListNumber(Top.stage, n))
    BY <2>1, <2>2, OnTop DEF Unlisted, InModule, ListNumber
  <2>6. DOMAIN e = {"name", "values"} /\ IsList(e.values)
    BY <1>1, <2>1, <2>4 DEF MessageLike, AreEnums, IsList, ToSet
  <2>7. FqName(e.name) = Append(NameAt(n), e.name)
    <3>1. PICK s \in Seq(STRING) : s = File.package \o typePath /\ s = NameAt(n)
      BY <1>1, <2>1, <2>2, <2>5
    <3> QED BY <3>1, NamesBelow DEF FqName
  <2>8. ElementAt(File, w) = FqName(e.name)
    <3>1. LeadsTo(n, Message.enums, i)
      BY <1>1, <2>1, <2>2, <2>5, Listed
    <3> QED BY <2>4, <2>7, <3>1 DEF LeadsTo
  <2>9. ASSUME NEW k \in 1..Len(Mapped(e))
        PROVE  ElementAt(File, w \o <<2, Mapped(e)[k] - 1>>) = Append(FqName(e.name), e.values[Mapped(e)[k]].name)
    <3>1. PICK j \in 1..Len(e.values) : j = Mapped(e)[k]
      BY <2>6, MappedAre
    <3>2. Len(e.values) \in Nat /\ e.values = Within(Message.enums[i], 2)
      BY <2>4, <2>6, WithinIs DEF IsList
    <3>3. PICK list, inner : list = Message.enums /\ inner = e.values
      OBVIOUS
    <3>4. /\ list = Within(ReachedAt(n - 1).element, ListNumber(Top.stage, n)) /\ Top.stage \notin Unlisted
          /\ Len(list) \in Nat /\ i \in 1..Len(list)
          /\ inner = Within(list[i], 2) /\ Len(inner) \in Nat /\ j \in 1..Len(inner)
      BY <1>1, <2>1, <2>5, <3>1, <3>2, <3>3
    <3>5. LeadsInto(n, list, i, inner, j)
      BY <2>1, <2>2, <3>4, ListedTwice
    <3> QED BY <2>4, <2>7, <3>1, <3>3, <3>5 DEF LeadsInto
  <2>10. \A item \in EnumItems(e, w) : Located(item)
    <3> SUFFICES ASSUME NEW item \in EnumItems(e, w) PROVE Located(item)
      OBVIOUS
    <3>1. CASE ItemOf(item, FqName(e.name), {<<>>, w})
      BY <2>8, <3>1, IsLocated
    <3>2. ASSUME NEW k \in 1..Len(Mapped(e)),
                 ItemOf(item, Append(FqName(e.name), e.values[Mapped(e)[k]].name),
                        {<<>>, w \o <<2, Mapped(e)[k] - 1>>})
          PROVE  Located(item)
      <4>1. PICK v, p : v = w \o <<2, Mapped(e)[k] - 1>> /\ p = Append(FqName(e.name), e.values[Mapped(e)[k]].name)
        OBVIOUS
      <4>2. ItemOf(item, p, {<<>>, v}) /\ ElementAt(File, v) = p
        BY <2>9, <3>2, <4>1
      <4> QED BY <4>2, IsLocated
    <3> QED BY <3>1, <3>2, EnumItemsAre
  <2>11. out' = out \/ out' = out \cup EnumItems(e, w)
    BY <1>7, <2>3, <2>4 DEF AppendEnum, Write
  <2> QED BY <2>10, <2>11
<1>8. CASE AppendOneof
  <2>1. frames # <<>> /\ Top.stage = "variants" /\ Top.next \in 1..Len(OneofFields(Message))
    <3>1. frames # <<>> /\ Top.stage = "variants" /\ Top.next <= Len(OneofFields(Message))
      BY <1>8 DEF AppendOneof, Working
    <3>2. Len(OneofFields(Message)) \in Nat /\ Top.next \in Nat \ {0}
      BY <1>1, <3>1, ListsAre
    <3> QED BY <3>1, <3>2
  <2>2. PICK n \in Nat \ {0} : n = Len(frames)
    BY <1>1, <2>1
  <2>3. PICK o \in 1..Len(Message.oneofs) : o = OneofFields(Message)[Top.next]
    BY <1>1, <2>1, ListsAre
  <2>4. PICK d \in Nat, c \in Nat : d = 8 /\ c = 2
    OBVIOUS
  <2>5. /\ "variants" \in Unlisted /\ NameAt(n) = Top.name
        /\ Message.oneofs = Within(ReachedAt(n - 1).element, d)
        /\ Message.fields = Within(ReachedAt(n - 1).element, c)
    BY <1>1, <1>2, <2>1, <2>2, <2>4 DEF Unlisted
  <2>6. ElementAt(File, path \o <<d, o - 1>>) = Append(Top.name, Message.oneofs[o].name)
    <3>1. PICK list : list = Message.oneofs
      OBVIOUS
    <3>2. /\ list = Within(ReachedAt(n - 1).element, d) /\ Top.stage \in Unlisted
          /\ Len(list) \in Nat /\ o \in 1..Len(list)
      BY <1>1, <2>1, <2>5, <3>1
    <3>3. ElementAt(File, path \o <<d, o - 1>>) = Append(NameAt(n), list[o].name)
      <4>1. LeadsBelow(n, d, list, o)
        BY <2>1, <2>2, <3>2, ListedBelow
      <4> QED BY <4>1 DEF LeadsBelow
    <3> QED BY <2>5, <3>1, <3>3
  <2>7. ASSUME NEW i \in 1..Len(Message.fields)
        PROVE  ElementAt(File, path \o <<c, i - 1>>) = Append(Top.name, Message.fields[i].name)
    <3>1. PICK list : list = Message.fields
      OBVIOUS
    <3>2. /\ list = Within(ReachedAt(n - 1).element, c) /\ Top.stage \in Unlisted
          /\ Len(list) \in Nat /\ i \in 1..Len(list)
      BY <1>1, <2>1, <2>5, <3>1
    <3>3. ElementAt(File, path \o <<c, i - 1>>) = Append(NameAt(n), list[i].name)
      <4>1. LeadsBelow(n, c, list, i)
        BY <2>1, <2>2, <3>2, ListedBelow
      <4> QED BY <4>1 DEF LeadsBelow
    <3> QED BY <2>5, <3>1, <3>3
  <2>8. Located(OneofItem(Message, Top.name, o, path \o <<8, o - 1>>))
    <3>1. PICK w : w = path \o <<8, o - 1>>
      OBVIOUS
    <3>2. ItemOf(OneofItem(Message, Top.name, o, w), Append(Top.name, Message.oneofs[o].name), {<<>>, w})
      BY ItemsAre
    <3>3. ElementAt(File, w) = Append(Top.name, Message.oneofs[o].name)
      BY <2>4, <2>6, <3>1
    <3>4. Located(OneofItem(Message, Top.name, o, w))
      BY <3>2, <3>3, IsLocated
    <3> QED BY <3>1, <3>4
  <2>9. ASSUME NEW i \in ToSet(Variants(Message, o))
        PROVE  Located(VariantItem(Top.name, Message.oneofs[o], Message.fields[i], path \o <<2, i - 1>>))
    <3>1. PICK w, field, oneof : w = path \o <<2, i - 1>> /\ field = Message.fields[i] /\ oneof = Message.oneofs[o]
      OBVIOUS
    <3>2. ItemOf(VariantItem(Top.name, oneof, field, w), Append(Top.name, field.name), {<<>>, w})
      BY ItemsAre
    <3>3. ElementAt(File, w) = Append(Top.name, field.name)
      <4>1. i \in 1..Len(Message.fields)
        BY <1>1, <2>1, ListsAre
      <4> QED BY <2>4, <2>7, <3>1, <4>1
    <3>4. Located(VariantItem(Top.name, oneof, field, w))
      BY <3>2, <3>3, IsLocated
    <3> QED BY <3>1, <3>4
  <2>10. \/ out' = out
         \/ out' = out \cup ({OneofItem(Message, Top.name, o, path \o <<8, o - 1>>)}
                      \cup {VariantItem(Top.name, Message.oneofs[o], Message.fields[i], path \o <<2, i - 1>>) :
                              i \in ToSet(Variants(Message, o))})
    BY <1>8, <2>3 DEF AppendOneof, Write
  <2> DEFINE item == OneofItem(Message, Top.name, o, path \o <<8, o - 1>>)
             variant(i) == VariantItem(Top.name, Message.oneofs[o], Message.fields[i], path \o <<2, i - 1>>)
  <2>11. out' = out \/ out' = out \cup ({item} \cup {variant(i) : i \in ToSet(Variants(Message, o))})
    BY <2>10
  <2>12. Located(item) /\ \A i \in ToSet(Variants(Message, o)) : Located(variant(i))
    BY <2>8, <2>9
  <2> HIDE DEF item, variant
  <2> QED BY <2>11, <2>12
<1>9. CASE EndMessage
  <2>1. out' = out \/ out' = out \cup {NameItem(Message)}
    BY <1>9 DEF EndMessage, Write
  <2>2. NameItem(Message).doc = <<>>
    BY ItemsAre DEF ItemOf
  <2> QED BY <2>1, <2>2 DEF Located
<1>10. CASE PushService
  <2>1. /\ frames # <<>> /\ Top.stage = "services" /\ Top.next \in Nat \ {0}
        /\ Top.next <= Len(File.services) /\ file \in 1..Len(files)
    <3>1. frames # <<>> /\ Top.stage = "services" /\ Top.next <= Len(File.services)
      BY <1>10 DEF PushService, Working
    <3> QED BY <1>1, <3>1, TopIs DEF WalkInv
  <2>2. AreServices(File.services) /\ Len(File.services) \in Nat
    BY <2>1, FilesAre DEF WalkInv, File, AreServices, IsList
  <2>3. PICK n \in Nat \ {0} : n = Len(frames)
    BY <1>1, <2>1
  <2>4. n = 1
    BY <2>1, <2>3, StagesAre DEF MessageStages
  <2>5. PICK i \in 1..Len(File.services) : i = Top.next
    BY <2>1, <2>2
  <2>6. PICK w, s : w = Append(path, i - 1) /\ s = File.services[i]
    OBVIOUS
  <2>7. DOMAIN s = {"name", "methods"} /\ IsList(s.methods)
    BY <2>2, <2>6 DEF AreServices, IsList, ToSet
  <2>8. "services" \notin Unlisted /\ NameAt(n) = File.package
        /\ File.services = Within(ReachedAt(n - 1).element, ListNumber(Top.stage, n))
    BY <2>1, <2>3, <2>4, OnTop DEF Unlisted, NameAt, ListNumber
  <2>9. ElementAt(File, w) = Append(File.package, s.name)
    <3>1. LeadsTo(n, File.services, i)
      BY <2>1, <2>2, <2>3, <2>8, Listed
    <3> QED BY <2>6, <2>8, <3>1 DEF LeadsTo
  <2>10. ASSUME NEW k \in 1..Len(s.methods)
         PROVE  ElementAt(File, w \o <<2, k - 1>>) = File.package \o <<s.name, s.methods[k].name>>
    <3>1. PICK inner : inner = s.methods
      OBVIOUS
    <3>2. Len(inner) \in Nat /\ inner = Within(File.services[i], 2) /\ k \in 1..Len(inner)
      BY <2>6, <2>7, <3>1, WithinIs DEF IsList
    <3>6. PICK list : list = File.services
      OBVIOUS
    <3>7. /\ list = Within(ReachedAt(n - 1).element, ListNumber(Top.stage, n)) /\ Top.stage \notin Unlisted
          /\ Len(list) \in Nat /\ i \in 1..Len(list)
          /\ inner = Within(list[i], 2) /\ Len(inner) \in Nat /\ k \in 1..Len(inner)
      BY <2>1, <2>2, <2>8, <3>2, <3>6
    <3>8. LeadsInto(n, list, i, inner, k)
      BY <2>1, <2>3, <3>7, ListedTwice
    <3>3. ElementAt(File, Append(path, i - 1) \o <<2, k - 1>>)
            = Append(Append(NameAt(n), File.services[i].name), inner[k].name)
      BY <3>6, <3>8 DEF LeadsInto
    <3>4. PICK p \in Seq(STRING) : p = File.package
      BY <1>1, <2>1
    <3>5. p \o <<s.name, s.methods[k].name>> = Append(Append(p, s.name), s.methods[k].name)
      BY NamesBelow
    <3> QED BY <2>6, <2>8, <3>1, <3>3, <3>4, <3>5
  <2>11. \A item \in ServiceItems(s, w) : Located(item)
    <3> SUFFICES ASSUME NEW item \in ServiceItems(s, w) PROVE Located(item)
      OBVIOUS
    <3>1. CASE ItemOf(item, Append(File.package, s.name), {<<>>, w})
      BY <2>9, <3>1, IsLocated
    <3>2. ASSUME NEW k \in 1..Len(s.methods),
                 ItemOf(item, File.package \o <<s.name, s.methods[k].name>>, {<<>>, w \o <<2, k - 1>>})
          PROVE  Located(item)
      <4>1. PICK v, p : v = w \o <<2, k - 1>> /\ p = File.package \o <<s.name, s.methods[k].name>>
        OBVIOUS
      <4>2. ItemOf(item, p, {<<>>, v}) /\ ElementAt(File, v) = p
        BY <2>10, <3>2, <4>1
      <4> QED BY <4>2, IsLocated
    <3> QED BY <3>1, <3>2, ServiceItemsAre
  <2>12. out' = out \/ out' = out \cup ServiceItems(s, w)
    BY <1>10, <2>5, <2>6 DEF PushService, Write
  <2> QED BY <2>11, <2>12
<1> QED BY <1>3, <1>4, <1>5, <1>6, <1>7, <1>8, <1>9, <1>10 DEF Walk

DocsInv == WalkInv /\ PathInv /\ DocsComeFromTheirElement

(* A build starts with nothing written and no path.                        *)
LEMMA DocsStart == Init => DocsInv
<1> SUFFICES ASSUME Init PROVE DocsInv
  OBVIOUS
<1>1. WalkInv
  BY BuildStarts DEF BuildInv
<1>2. frames = <<>> /\ out = {}
  BY DEF Init
<1> QED BY <1>1, <1>2 DEF DocsInv, PathInv, DocsComeFromTheirElement

(* Every step of a build keeps the path, and what is written stays found.  *)
LEMMA DocsSteps == DocsInv /\ [Next]_vars => DocsInv'
<1> SUFFICES ASSUME DocsInv, [Next]_vars PROVE DocsInv'
  OBVIOUS
<1>1. CASE GenerateStep
  <2>1. Walk
    BY <1>1 DEF GenerateStep
  <2>2. WalkInv' /\ UNCHANGED <<files, file>>
    BY <2>1, WalkKeepsFrames DEF DocsInv
  <2>3. PathInv'
    BY <2>1, WalkKeepsPath DEF DocsInv
  <2>4. ASSUME NEW item \in out', item.doc # <<>>
        PROVE  ElementAt(files'[item.file], item.doc) = item.proto
    <3>1. files' = files
      BY <2>2
    <3>2. CASE item \in out
      BY <2>4, <3>1, <3>2 DEF DocsInv, DocsComeFromTheirElement
    <3>3. CASE item \notin out
      BY <2>1, <2>4, <3>1, <3>3, WalkLocates DEF DocsInv, Located
    <3> QED BY <3>2, <3>3
  <2>5. DocsComeFromTheirElement'
    BY <2>4 DEF DocsComeFromTheirElement
  <2> QED BY <2>2, <2>3, <2>5 DEF DocsInv
<1>2. CASE EndFile
  <2>1. frames' = <<>> /\ file' = file + 1 /\ UNCHANGED <<files, typePath, out>>
    BY <1>2 DEF EndFile
  <2>2. WalkInv'
    BY <2>1 DEF DocsInv, WalkInv, RequestInv, FramesInv
  <2> QED BY <2>1, <2>2 DEF DocsInv, PathInv, DocsComeFromTheirElement
<1>3. CASE Prepare \/ Finalize \/ IncludeStep \/ Finish \/ UNCHANGED vars
  <2>1. UNCHANGED <<files, file, frames, path, typePath, out>>
    BY <1>3 DEF Prepare, Finalize, IncludeStep, Finish, vars, genVars
  <2>2. WalkInv'
    BY <2>1, SameWalk DEF DocsInv
  <2>3. PathInv'
    BY <2>1 DEF DocsInv, PathInv, TopInv, LinkInv, NameAt, ListNumber, Top, File
  <2> QED BY <2>1, <2>2, <2>3 DEF DocsInv, DocsComeFromTheirElement
<1> QED BY <1>1, <1>2, <1>3 DEF Next

(* The comments of a declaration or a field are those of its own element of  *)
(* the .proto file: code_generator.rs keeps one path by hand, pushed and      *)
(* popped around lists that are partitioned and deduplicated on the way.      *)
THEOREM DocsAreOfTheirElement == Spec => []DocsComeFromTheirElement
<1>1. DocsInv => DocsComeFromTheirElement
  BY DEF DocsInv
<1> QED BY <1>1, DocsStart, DocsSteps, PTL DEF Spec
=============================================================================
