------------------------ MODULE DatabaseClientProofs ------------------------
(***************************************************************************)
(* Theorems about DatabaseClient, for every set of keys and shapes of      *)
(* writes, and all bounds.                                                 *)
(***************************************************************************)
EXTENDS DatabaseClient, SequenceTheorems, TLAPS

-----------------------------------------------------------------------------
(* The folds of the module, and what SequenceFolds says of each.           *)

Layer(p, visible, w)  == addWrite(visible, w)
Paint(p, node, w)     == ApplyWrite(node, w)
Keep(type, kept, m)   == IF m.type = type THEN Append(kept, m) ELSE kept
Ack(p, state, answer) == Acked(state, answer)

Layers == INSTANCE SequenceFolds WITH Op <- Layer
Nodes  == INSTANCE SequenceFolds WITH Op <- Paint
Kinds  == INSTANCE SequenceFolds WITH Op <- Keep
Acks   == INSTANCE SequenceFolds WITH Op <- Ack

LEMMA LayerIsFold == \A s : layerTreeFromWrites(s) = Layers!Fold(0, EmptyWrite, s)
BY DEF layerTreeFromWrites, Layers!Fold, FoldLeft, Layers!MapThenFoldSet,
       MapThenFoldSet, Layers!Highest, Max, Layer

LEMMA UnderIsFold == \A node, s : Under(node, s) = Nodes!Fold(0, node, s)
BY DEF Under, Nodes!Fold, FoldLeft, Nodes!MapThenFoldSet,
       MapThenFoldSet, Nodes!Highest, Max, Paint

LEMMA OfTypeIsFold == \A type, s : OfType(type, s) = Kinds!Fold(type, <<>>, s)
BY DEF OfType, Kinds!Fold, FoldLeft, Kinds!MapThenFoldSet,
       MapThenFoldSet, Kinds!Highest, Max, Keep

LEMMA LayerOfNone == layerTreeFromWrites(<<>>) = EmptyWrite
BY LayerIsFold, Layers!FoldOfNone

LEMMA LayerOfAppend ==
  ASSUME NEW S, NEW s \in Seq(S), NEW w \in S
  PROVE  layerTreeFromWrites(Append(s, w)) = addWrite(layerTreeFromWrites(s), w)
BY LayerIsFold, Layers!FoldOfAppend DEF Layer

LEMMA UnderOfNone == \A node : Under(node, <<>>) = node
BY UnderIsFold, Nodes!FoldOfNone

LEMMA UnderOfAppend ==
  ASSUME NEW node, NEW S, NEW s \in Seq(S), NEW w \in S
  PROVE  Under(node, Append(s, w)) = ApplyWrite(Under(node, s), w)
BY UnderIsFold, Nodes!FoldOfAppend DEF Paint

LEMMA OfTypeOfNone == \A type : OfType(type, <<>>) = <<>>
BY OfTypeIsFold, Kinds!FoldOfNone

LEMMA OfTypeOfAppend ==
  ASSUME NEW type, NEW S, NEW s \in Seq(S), NEW m \in S
  PROVE  OfType(type, Append(s, m))
           = IF m.type = type THEN Append(OfType(type, s), m) ELSE OfType(type, s)
BY OfTypeIsFold, Kinds!FoldOfAppend DEF Keep

AckedAll(state, answers) == FoldLeft(Acked, state, answers)

LEMMA AckedIsFold == \A state, s : AckedAll(state, s) = Acks!Fold(0, state, s)
BY DEF AckedAll, Acks!Fold, FoldLeft, Acks!MapThenFoldSet, MapThenFoldSet,
       Acks!Highest, Max, Ack

LEMMA AckedOfNone == \A state : AckedAll(state, <<>>) = state
BY AckedIsFold, Acks!FoldOfNone

LEMMA AckedOfAppend ==
  ASSUME NEW state, NEW S, NEW s \in Seq(S), NEW answer \in S
  PROVE  AckedAll(state, Append(s, answer)) = Acked(AckedAll(state, s), answer)
BY AckedIsFold, Acks!FoldOfAppend DEF Ack

-----------------------------------------------------------------------------
(* Values at some of the keys, and writes. *)

Partial == UNION {[S -> Values] : S \in SUBSET Keys}
Visible == [root : BOOLEAN, at : Partial]

LEMMA PartialIs ==
  \A f : f \in Partial <=> DOMAIN f \subseteq Keys /\ f \in [DOMAIN f -> Values]
BY DEF Partial

LEMMA NodeIsPartial == \A f : f \in Node <=> f \in Partial /\ DOMAIN f = Keys
BY PartialIs DEF Node

LEMMA AbsentIsValue == Absent \in Values /\ \A id \in 1..MaxWrites : id \in Values
BY DatabaseValuesAssumption DEF Values, Absent

LEMMA EmptyNodeIsNode == EmptyNode \in Node
BY AbsentIsValue DEF EmptyNode, Node

LEMMA OverIs ==
  ASSUME NEW f \in Partial, NEW g \in Partial
  PROVE  /\ Over(f, g) \in Partial
         /\ DOMAIN Over(f, g) = DOMAIN f \union DOMAIN g
         /\ \A k \in DOMAIN f : Over(f, g)[k] = f[k]
         /\ \A k \in DOMAIN g \ DOMAIN f : Over(f, g)[k] = g[k]
<1>1. DOMAIN Over(f, g) = DOMAIN f \union DOMAIN g
  BY DEF Over
<1>2. /\ \A k \in DOMAIN f : Over(f, g)[k] = f[k]
      /\ \A k \in DOMAIN g \ DOMAIN f : Over(f, g)[k] = g[k]
  BY DEF Over
<1>3. Over(f, g) \in [DOMAIN f \union DOMAIN g -> Values]
  BY PartialIs DEF Over
<1> QED BY <1>1, <1>2, <1>3, PartialIs

LEMMA OverNode ==
  ASSUME NEW f \in Partial, NEW node \in Node
  PROVE  Over(f, node) \in Node
<1>1. node \in Partial /\ DOMAIN node = Keys
  BY NodeIsPartial
<1>2. DOMAIN f \subseteq Keys
  BY PartialIs
<1>3. Over(f, node) \in Partial /\ DOMAIN Over(f, node) = DOMAIN f \union DOMAIN node
  BY <1>1, OverIs
<1>4. DOMAIN f \union Keys = Keys
  BY <1>2
<1> QED BY <1>1, <1>3, <1>4, NodeIsPartial

(* Functions with the same domain and values are the same.                 *)
LEMMA SamePartial ==
  ASSUME NEW f \in Partial, NEW g \in Partial, DOMAIN f = DOMAIN g,
         \A k \in DOMAIN f : f[k] = g[k]
  PROVE  f = g
BY PartialIs

LEMMA OverIsAssociative ==
  ASSUME NEW f \in Partial, NEW g \in Partial, NEW h \in Partial
  PROVE  Over(f, Over(g, h)) = Over(Over(f, g), h)
<1> DEFINE gh == Over(g, h)
           fg == Over(f, g)
           left == Over(f, gh)
           right == Over(fg, h)
<1>1. /\ gh \in Partial /\ DOMAIN gh = DOMAIN g \union DOMAIN h
      /\ \A k \in DOMAIN g : gh[k] = g[k]
      /\ \A k \in DOMAIN h \ DOMAIN g : gh[k] = h[k]
  BY OverIs
<1>2. /\ fg \in Partial /\ DOMAIN fg = DOMAIN f \union DOMAIN g
      /\ \A k \in DOMAIN f : fg[k] = f[k]
      /\ \A k \in DOMAIN g \ DOMAIN f : fg[k] = g[k]
  BY OverIs
<1> HIDE DEF gh, fg
<1>3. /\ left \in Partial /\ DOMAIN left = DOMAIN f \union DOMAIN gh
      /\ \A k \in DOMAIN f : left[k] = f[k]
      /\ \A k \in DOMAIN gh \ DOMAIN f : left[k] = gh[k]
  BY <1>1, OverIs
<1>4. /\ right \in Partial /\ DOMAIN right = DOMAIN fg \union DOMAIN h
      /\ \A k \in DOMAIN fg : right[k] = fg[k]
      /\ \A k \in DOMAIN h \ DOMAIN fg : right[k] = h[k]
  BY <1>2, OverIs
<1> HIDE DEF left, right
<1>5. DOMAIN left = DOMAIN right
  BY <1>1, <1>2, <1>3, <1>4
<1>6. ASSUME NEW k \in DOMAIN left PROVE left[k] = right[k]
  <2>1. CASE k \in DOMAIN f
    BY <2>1, <1>2, <1>3, <1>4
  <2>2. CASE k \notin DOMAIN f /\ k \in DOMAIN g
    BY <2>2, <1>1, <1>2, <1>3, <1>4
  <2>3. CASE k \notin DOMAIN f /\ k \notin DOMAIN g
    BY <2>3, <1>1, <1>2, <1>3, <1>4, <1>6
  <2> QED BY <2>1, <2>2, <2>3
<1>7. left = right
  BY <1>3, <1>4, <1>5, <1>6, SamePartial
<1> QED BY <1>7 DEF left, right, gh, fg

LEMMA OverCovered ==
  ASSUME NEW f \in Partial, NEW g \in Partial, DOMAIN g \subseteq DOMAIN f
  PROVE  Over(f, g) = f
<1>1. Over(f, g) \in Partial /\ DOMAIN Over(f, g) = DOMAIN f /\ \A k \in DOMAIN f : Over(f, g)[k] = f[k]
  BY OverIs
<1> QED BY <1>1, SamePartial

LEMMA WriteIs ==
  ASSUME NEW id \in 1..MaxWrites, NEW w \in Writes(id)
  PROVE  /\ w \in Write /\ w.id = id
         /\ w = [id |-> w.id, kind |-> w.kind, value |-> w.value]
         /\ w.kind \in {"set", "child", "merge"}
         /\ w.value \in Partial
         /\ w.kind = "set" => DOMAIN w.value = Keys
         /\ w.kind = "child" => \E k \in Keys : DOMAIN w.value = {k}
<1>1. PICK shape \in WriteShapes, v \in {id, Absent} :
        w = [id |-> id, kind |-> shape.kind, value |-> [k \in shape.keys |-> v]]
  BY DEF Writes
<1>2. v \in Values
  BY AbsentIsValue
<1>3. shape \in Shapes
  BY DatabaseValuesAssumption
<1>4. /\ shape.kind \in {"set", "child", "merge"} /\ shape.keys \subseteq Keys
      /\ shape.kind = "set" => shape.keys = Keys
      /\ shape.kind = "child" => \E k \in Keys : shape.keys = {k}
  BY <1>3 DEF Shapes
<1>5. w.value \in Partial /\ DOMAIN w.value = shape.keys
  BY <1>1, <1>2, <1>4, PartialIs
<1>6. w \in Write
  BY DEF Write
<1> QED BY <1>1, <1>4, <1>5, <1>6

LEMMA WriteTyped ==
  ASSUME NEW w \in Write
  PROVE  /\ w.id \in 1..MaxWrites /\ w \in Writes(w.id)
         /\ w = [id |-> w.id, kind |-> w.kind, value |-> w.value]
         /\ w.kind \in {"set", "child", "merge"}
         /\ w.value \in Partial
         /\ w.kind = "set" => DOMAIN w.value = Keys
         /\ w.kind = "child" => \E k \in Keys : DOMAIN w.value = {k}
<1>1. PICK id \in 1..MaxWrites : w \in Writes(id)
  BY DEF Write
<1> QED BY <1>1, WriteIs

-----------------------------------------------------------------------------
(* Writes, layered. *)

LEMMA EmptyWriteIsVisible == EmptyWrite \in Visible /\ DOMAIN EmptyWrite.at = {}
BY PartialIs DEF EmptyWrite, Visible

LEMMA AddedWrite ==
  ASSUME NEW v \in Visible, NEW w \in Write
  PROVE  /\ addWrite(v, w) \in Visible
         /\ addWrite(v, w).root = (v.root \/ w.kind = "set")
         /\ addWrite(v, w).at = Over(w.value, v.at)
<1>1. v.at \in Partial /\ v.root \in BOOLEAN /\ w.value \in Partial
  BY WriteTyped DEF Visible
<1>2. Over(w.value, v.at) \in Partial
  BY <1>1, OverIs
<1> QED BY <1>1, <1>2 DEF addWrite, Visible

LEMMA LayerTyped ==
  ASSUME NEW s \in Seq(Write)
  PROVE  layerTreeFromWrites(s) \in Visible
<1> DEFINE T == {t \in Seq(Write) : layerTreeFromWrites(t) \in Visible}
<1>1. <<>> \in T
  BY LayerOfNone, EmptyWriteIsVisible
<1>2. ASSUME NEW t \in Seq(Write), NEW w \in Write, t \in T PROVE Append(t, w) \in T
  <2>1. layerTreeFromWrites(Append(t, w)) = addWrite(layerTreeFromWrites(t), w)
    BY LayerOfAppend
  <2>2. Append(t, w) \in Seq(Write)
    OBVIOUS
  <2> QED BY <1>2, <2>1, <2>2, AddedWrite
<1>3. Seq(Write) \subseteq T
  <2> HIDE DEF T
  <2> QED BY <1>1, <1>2, Layers!SequenceInduction
<1> QED BY <1>3

(* What the layered writes have at the root, and to which keys they reach. *)
LEMMA LayerReaches ==
  ASSUME NEW s \in Seq(Write)
  PROVE  /\ layerTreeFromWrites(s).root <=> \E i \in 1..Len(s) : s[i].kind = "set"
         /\ \A k : k \in DOMAIN layerTreeFromWrites(s).at
                     <=> \E i \in 1..Len(s) : k \in DOMAIN s[i].value
<1> DEFINE Root(t) == layerTreeFromWrites(t).root <=> \E i \in 1..Len(t) : t[i].kind = "set"
           Reach(t) == \A k : k \in DOMAIN layerTreeFromWrites(t).at
                                <=> \E i \in 1..Len(t) : k \in DOMAIN t[i].value
           T == {t \in Seq(Write) : Root(t) /\ Reach(t)}
<1>1. <<>> \in T
  BY LayerOfNone DEF EmptyWrite
<1>2. ASSUME NEW t \in Seq(Write), NEW w \in Write, Root(t), Reach(t)
      PROVE  Root(Append(t, w)) /\ Reach(Append(t, w))
  <2> DEFINE a == Append(t, w)
             v == layerTreeFromWrites(t)
             n == Len(t)
  <2>1. v \in Visible
    BY LayerTyped
  <2>2. layerTreeFromWrites(a) = addWrite(v, w)
    BY LayerOfAppend
  <2>3. n \in Nat /\ Len(a) = n + 1 /\ a[n + 1] = w /\ \A i \in 1..n : a[i] = t[i]
    OBVIOUS
  <2>4. \A i : i \in 1..(n + 1) <=> i \in 1..n \/ i = n + 1
    BY <2>3
  <2>5. w.value \in Partial /\ v.at \in Partial
    BY <2>1, WriteTyped DEF Visible
  <2>6. DOMAIN Over(w.value, v.at) = DOMAIN w.value \union DOMAIN v.at
    BY <2>5, OverIs
  <2>7. v.root <=> \E i \in 1..n : t[i].kind = "set"
    BY <1>2
  <2>8. \A k : k \in DOMAIN v.at <=> \E i \in 1..n : k \in DOMAIN t[i].value
    BY <1>2
  <2> HIDE DEF a, v, n
  <2>9. layerTreeFromWrites(a).root <=> \E i \in 1..Len(a) : a[i].kind = "set"
    <3>1. layerTreeFromWrites(a).root <=> v.root \/ w.kind = "set"
      BY <2>1, <2>2, AddedWrite
    <3> QED BY <3>1, <2>3, <2>4, <2>7
  <2>10. ASSUME NEW k
         PROVE  k \in DOMAIN layerTreeFromWrites(a).at <=> \E i \in 1..Len(a) : k \in DOMAIN a[i].value
    <3>1. DOMAIN layerTreeFromWrites(a).at = DOMAIN w.value \union DOMAIN v.at
      BY <2>1, <2>2, <2>6, AddedWrite
    <3> QED BY <3>1, <2>3, <2>4, <2>8
  <2> QED BY <2>9, <2>10 DEF a
<1>3. Seq(Write) \subseteq T
  <2>1. ASSUME NEW t \in Seq(Write), NEW w \in Write, t \in T PROVE Append(t, w) \in T
    <3> HIDE DEF Root, Reach
    <3>1. Append(t, w) \in Seq(Write)
      OBVIOUS
    <3> QED BY <1>2, <2>1, <3>1
  <2> HIDE DEF T
  <2> QED BY <1>1, <2>1, Layers!SequenceInduction
<1> QED BY <1>3

LEMMA RootCovers ==
  ASSUME NEW s \in Seq(Write), layerTreeFromWrites(s).root
  PROVE  DOMAIN layerTreeFromWrites(s).at = Keys
<1>1. PICK i \in 1..Len(s) : s[i].kind = "set"
  BY LayerReaches
<1>2. DOMAIN s[i].value = Keys
  BY <1>1, WriteTyped
<1>3. DOMAIN layerTreeFromWrites(s).at \subseteq Keys
  BY LayerTyped, PartialIs DEF Visible
<1> QED BY <1>2, <1>3, LayerReaches

LEMMA OverNothing ==
  ASSUME NEW g \in Partial
  PROVE  Over(EmptyWrite.at, g) = g
<1> DEFINE f == EmptyWrite.at
<1>1. f \in Partial /\ DOMAIN f = {}
  BY EmptyWriteIsVisible DEF Visible
<1> HIDE DEF f
<1>2. Over(f, g) \in Partial
  BY <1>1, OverIs
<1>3. DOMAIN Over(f, g) = DOMAIN g
  BY <1>1, OverIs
<1>4. \A k \in DOMAIN g : Over(f, g)[k] = g[k]
  BY <1>1, OverIs, Zenon
<1>5. Over(f, g) = g
  BY <1>2, <1>3, <1>4, SamePartial
<1> QED BY <1>5 DEF f

(* Writes layered above a first one.                                       *)
LEMMA LayerUnder ==
  ASSUME NEW w \in Write, NEW s \in Seq(Write)
  PROVE  LET above == layerTreeFromWrites(s) IN
         layerTreeFromWrites(<<w>> \o s)
           = [root |-> above.root \/ w.kind = "set", at |-> Over(above.at, w.value)]
<1> DEFINE L(t) == layerTreeFromWrites(t)
           Both(t) == [root |-> L(t).root \/ w.kind = "set", at |-> Over(L(t).at, w.value)]
           T == {t \in Seq(Write) : L(<<w>> \o t) = Both(t)}
<1>1. w.value \in Partial /\ w.kind \in {"set", "child", "merge"}
  BY WriteTyped
<1>2. <<>> \in T
  <2>1. <<w>> \o <<>> = Append(<<>>, w) /\ <<>> \in Seq(Write)
    OBVIOUS
  <2>2. L(<<w>> \o <<>>) = addWrite(EmptyWrite, w)
    BY <2>1, LayerOfAppend, LayerOfNone
  <2>3. Over(w.value, EmptyWrite.at) = w.value
    BY <1>1, EmptyWriteIsVisible, OverCovered DEF Visible
  <2>4. Over(EmptyWrite.at, w.value) = w.value
    BY <1>1, OverNothing
  <2>5. EmptyWrite.root = FALSE
    BY DEF EmptyWrite
  <2> QED BY <2>1, <2>2, <2>3, <2>4, <2>5, LayerOfNone DEF addWrite
<1>3. ASSUME NEW t \in Seq(Write), NEW x \in Write, L(<<w>> \o t) = Both(t)
      PROVE  L(<<w>> \o Append(t, x)) = Both(Append(t, x))
  <2>1. <<w>> \o Append(t, x) = Append(<<w>> \o t, x) /\ <<w>> \o t \in Seq(Write)
    OBVIOUS
  <2>2. L(<<w>> \o Append(t, x)) = addWrite(L(<<w>> \o t), x)
    BY <2>1, LayerOfAppend
  <2>3. L(Append(t, x)) = addWrite(L(t), x)
    BY LayerOfAppend
  <2>4. x.value \in Partial /\ L(t).at \in Partial /\ L(t).root \in BOOLEAN
    BY WriteTyped, LayerTyped DEF Visible
  <2>5. Over(x.value, Over(L(t).at, w.value)) = Over(Over(x.value, L(t).at), w.value)
    BY <1>1, <2>4, OverIsAssociative
  <2> HIDE DEF L
  <2>6. addWrite(Both(t), x)
          = [root |-> (L(t).root \/ w.kind = "set") \/ x.kind = "set",
             at |-> Over(x.value, Over(L(t).at, w.value))]
    BY DEF addWrite
  <2>7. Both(Append(t, x))
          = [root |-> (L(t).root \/ x.kind = "set") \/ w.kind = "set",
             at |-> Over(Over(x.value, L(t).at), w.value)]
    <3>1. /\ L(Append(t, x)).root = (L(t).root \/ x.kind = "set")
          /\ L(Append(t, x)).at = Over(x.value, L(t).at)
      BY <2>3 DEF addWrite
    <3> QED BY <3>1, Zenon
  <2> QED BY <1>3, <2>2, <2>5, <2>6, <2>7
<1>4. Seq(Write) \subseteq T
  <2>1. ASSUME NEW t \in Seq(Write), NEW x \in Write, t \in T PROVE Append(t, x) \in T
    <3> HIDE DEF L, Both
    <3>1. Append(t, x) \in Seq(Write)
      OBVIOUS
    <3> QED BY <1>3, <2>1, <3>1
  <2> HIDE DEF T
  <2> QED BY <1>2, <2>1, Layers!SequenceInduction
<1> QED BY <1>4

(* A node under writes is the node under their layers.                     *)
LEMMA UnderIsLayered ==
  ASSUME NEW node \in Node, NEW s \in Seq(Write)
  PROVE  Under(node, s) = Over(layerTreeFromWrites(s).at, node)
<1> DEFINE L(t) == layerTreeFromWrites(t).at
           T == {t \in Seq(Write) : Under(node, t) = Over(L(t), node)}
<1>1. node \in Partial
  BY NodeIsPartial
<1>2. <<>> \in T
  <2>1. Over(EmptyWrite.at, node) = node
    BY <1>1, OverNothing
  <2> QED BY <2>1, UnderOfNone, LayerOfNone
<1>3. ASSUME NEW t \in Seq(Write), NEW x \in Write, Under(node, t) = Over(L(t), node)
      PROVE  Under(node, Append(t, x)) = Over(L(Append(t, x)), node)
  <2>1. L(Append(t, x)) = Over(x.value, L(t))
    BY LayerOfAppend, LayerTyped, AddedWrite
  <2>2. x.value \in Partial /\ L(t) \in Partial
    BY WriteTyped, LayerTyped DEF Visible
  <2>3. Over(x.value, Over(L(t), node)) = Over(Over(x.value, L(t)), node)
    BY <1>1, <2>2, OverIsAssociative
  <2>4. Under(node, Append(t, x)) = Over(x.value, Under(node, t))
    BY UnderOfAppend DEF ApplyWrite
  <2> QED BY <1>3, <2>1, <2>3, <2>4
<1>4. Seq(Write) \subseteq T
  <2>1. ASSUME NEW t \in Seq(Write), NEW x \in Write, t \in T PROVE Append(t, x) \in T
    <3> HIDE DEF L
    <3>1. Append(t, x) \in Seq(Write)
      OBVIOUS
    <3> QED BY <1>3, <2>1, <3>1
  <2> HIDE DEF T
  <2> QED BY <1>2, <2>1, Layers!SequenceInduction
<1> QED BY <1>4

(* FWriteTree.removeWriteId, for the oldest of the pending writes: what is *)
(* visible without it is what layering the others gives.  (For any other   *)
(* write this is not so: an update of several children that lies under the *)
(* removed write is forgotten.)                                            *)
THEOREM OldestIsTakenOut ==
  ASSUME NEW s \in Seq(Write), s # <<>>
  PROVE  VisibleWithout(s, layerTreeFromWrites(s), 1) = layerTreeFromWrites(Tail(s))
<1> DEFINE w == Head(s)
           rest == Tail(s)
           above == layerTreeFromWrites(rest)
           all == layerTreeFromWrites(s)
           n == Len(s)
<1>1. w \in Write /\ rest \in Seq(Write) /\ s = <<w>> \o rest /\ s[1] = w
  OBVIOUS
<1>2. /\ n \in Nat \ {0} /\ Len(rest) = n - 1
      /\ \A i \in 1..(n - 1) : rest[i] = s[i + 1] /\ i + 1 \in 2..n
      /\ \A j \in 2..n : s[j] = rest[j - 1] /\ j - 1 \in 1..(n - 1)
  OBVIOUS
<1>3. RemoveAt(s, 1) = rest
  BY DEF RemoveAt
<1>4. all = [root |-> above.root \/ w.kind = "set", at |-> Over(above.at, w.value)]
  BY <1>1, LayerUnder
<1>5. above.root \in BOOLEAN /\ above.at \in Partial /\ above = [root |-> above.root, at |-> above.at]
  BY <1>1, LayerTyped DEF Visible
<1>6. /\ w.kind \in {"set", "child", "merge"} /\ w.value \in Partial
      /\ w.kind = "set" => DOMAIN w.value = Keys
      /\ w.kind = "child" => \E k \in Keys : DOMAIN w.value = {k}
  BY <1>1, WriteTyped
<1>7. above.root <=> \E j \in 2..n : s[j].kind = "set"
  <2>1. above.root <=> \E i \in 1..(n - 1) : rest[i].kind = "set"
    BY <1>1, <1>2, LayerReaches
  <2> QED BY <2>1, <1>2
<1>8. \A k : k \in DOMAIN above.at <=> \E j \in 2..n : k \in DOMAIN s[j].value
  <2>1. \A k : k \in DOMAIN above.at <=> \E i \in 1..(n - 1) : k \in DOMAIN rest[i].value
    BY <1>1, <1>2, LayerReaches
  <2> QED BY <2>1, <1>2
<1>9. above.root => DOMAIN above.at = Keys
  BY <1>1, RootCovers
<1>10. DOMAIN w.value \subseteq Keys
  BY <1>6, PartialIs
<1> HIDE DEF w, rest, above, all, n
<1>11. ShadowedByLater(s, 1) <=>
         \E j \in 2..n : \/ s[j].kind = "set"
                         \/ w.kind = "child" /\ DOMAIN w.value \subseteq DOMAIN s[j].value
  BY <1>1, 1 + 1 = 2 DEF ShadowedByLater, n
<1>12. CASE ShadowedByLater(s, 1)
  <2>1. DOMAIN w.value \subseteq DOMAIN above.at
    BY <1>7, <1>8, <1>9, <1>10, <1>11, <1>12
  <2>2. Over(above.at, w.value) = above.at
    BY <1>5, <1>6, <2>1, OverCovered
  <2>3. w.kind = "set" => above.root
    BY <1>6, <1>7, <1>11, <1>12
  <2>4. all = above
    BY <1>4, <1>5, <2>2, <2>3
  <2> QED BY <1>12, <2>4 DEF VisibleWithout, all, above, rest
<1>13. CASE ~ShadowedByLater(s, 1) /\ Overlaps(s, 1)
  BY <1>13, <1>3 DEF VisibleWithout, above, rest
<1>14. CASE ~ShadowedByLater(s, 1) /\ ~Overlaps(s, 1)
  <2>1. VisibleWithout(s, all, 1) = removeWriteAtPath(all, w)
    BY <1>1, <1>14 DEF VisibleWithout
  <2>2. above.root = FALSE
    BY <1>5, <1>7, <1>11, <1>14
  <2>3. CASE w.kind = "child"
    <3>1. PICK k \in Keys : DOMAIN w.value = {k}
      BY <1>6, <2>3
    <3>2. k \notin DOMAIN above.at
      BY <1>8, <1>11, <1>14, <2>3, <3>1
    <3>3. all.root = FALSE /\ all.at = Over(above.at, w.value)
      BY <1>4, <2>2, <2>3
    <3>4. /\ DOMAIN all.at = DOMAIN above.at \union {k}
          /\ \A x \in DOMAIN above.at : all.at[x] = above.at[x]
      <4> DEFINE upper == above.at
                 lower == w.value
      <4>1. upper \in Partial /\ lower \in Partial
        BY <1>5, <1>6
      <4> HIDE DEF upper, lower
      <4>2. DOMAIN Over(upper, lower) = DOMAIN upper \union DOMAIN lower
        BY <4>1, OverIs
      <4>3. \A x \in DOMAIN upper : Over(upper, lower)[x] = upper[x]
        BY <4>1, OverIs
      <4> QED BY <3>1, <3>3, <4>2, <4>3 DEF upper, lower
    <3>5. [x \in DOMAIN all.at \ DOMAIN w.value |-> all.at[x]] = above.at
      <4>1. DOMAIN all.at \ DOMAIN w.value = DOMAIN above.at
        BY <3>1, <3>2, <3>4
      <4>2. above.at = [x \in DOMAIN above.at |-> above.at[x]]
        BY <1>5, PartialIs
      <4> QED BY <4>1, <4>2, <3>4
    <3>6. removeWriteAtPath(all, w) = [root |-> FALSE, at |-> above.at]
      BY <1>4, <2>3, <3>3, <3>5 DEF removeWriteAtPath
    <3> QED BY <2>1, <2>2, <3>6, <1>5 DEF all, above, rest
  <2>4. CASE w.kind # "child"
    <3>1. 2..n = {}
      <4>1. \A j \in 2..n : j \in (1..n) \ {1}
        BY <1>2
      <4>2. ~(\E j \in (1..Len(s)) \ {1} : TRUE)
        BY <1>1, <1>14, <2>4 DEF Overlaps
      <4> QED BY <4>1, <4>2 DEF n
    <3>2. n = 1
      BY <1>2, <3>1
    <3>3. rest = <<>>
      BY <1>2, <1>1, <3>2 DEF rest
    <3>4. above = EmptyWrite
      BY <3>3, LayerOfNone DEF above
    <3>5. DOMAIN above.at = {}
      BY <3>1, <1>8
    <3>6. CASE w.kind = "set"
      BY <2>1, <3>4, <3>6 DEF removeWriteAtPath, all, above, rest
    <3>7. CASE w.kind # "set"
      <4>1. all.root = FALSE /\ all.at = Over(above.at, w.value)
        BY <1>4, <2>2, <3>7
      <4>2. DOMAIN all.at \ DOMAIN w.value = {}
        BY <4>1, <3>5, <1>5, <1>6, OverIs, Zenon
      <4>3. removeWriteAtPath(all, w) = [root |-> FALSE, at |-> [x \in {} |-> all.at[x]]]
        BY <1>4, <3>7, <4>1, <4>2 DEF removeWriteAtPath
      <4>4. [x \in {} |-> all.at[x]] = above.at
        BY <3>4 DEF EmptyWrite
      <4> QED BY <2>1, <2>2, <4>3, <4>4, <1>5 DEF all, above, rest
    <3> QED BY <3>6, <3>7
  <2> QED BY <2>3, <2>4
<1> QED BY <1>12, <1>13, <1>14

-----------------------------------------------------------------------------
(* Messages of one type. *)

LEMMA ConcatOfAppend ==
  \A S : \A m \in S : \A a, b \in Seq(S) : Append(a \o b, m) = a \o Append(b, m)
<1> SUFFICES ASSUME NEW S, NEW m \in S, NEW a \in Seq(S), NEW b \in Seq(S)
             PROVE  Append(a \o b, m) = a \o Append(b, m)
  OBVIOUS
<1> QED OBVIOUS

LEMMA OfTypeTyped ==
  ASSUME NEW type, NEW S, NEW s \in Seq(S)
  PROVE  OfType(type, s) \in Seq(S)
<1> DEFINE T == {t \in Seq(S) : OfType(type, t) \in Seq(S)}
<1>1. <<>> \in T
  <2>1. <<>> \in Seq(S)
    OBVIOUS
  <2> QED BY <2>1, OfTypeOfNone
<1>2. ASSUME NEW t \in Seq(S), NEW m \in S, t \in T PROVE Append(t, m) \in T
  <2>1. OfType(type, Append(t, m))
          = IF m.type = type THEN Append(OfType(type, t), m) ELSE OfType(type, t)
    BY OfTypeOfAppend
  <2> QED BY <1>2, <2>1
<1>3. Seq(S) \subseteq T
  <2> HIDE DEF T
  <2> QED BY <1>1, <1>2, Kinds!SequenceInduction
<1> QED BY <1>3

LEMMA OfTypeOfConcat ==
  ASSUME NEW type, NEW S, NEW s \in Seq(S), NEW t \in Seq(S)
  PROVE  OfType(type, s \o t) = OfType(type, s) \o OfType(type, t)
<1> DEFINE T == {u \in Seq(S) : OfType(type, s \o u) = OfType(type, s) \o OfType(type, u)}
<1>1. <<>> \in T
  <2>1. s \o <<>> = s /\ <<>> \in Seq(S) /\ OfType(type, s) \o <<>> = OfType(type, s)
    BY OfTypeTyped
  <2> QED BY <2>1, OfTypeOfNone
<1>2. ASSUME NEW u \in Seq(S), NEW m \in S, u \in T PROVE Append(u, m) \in T
  <2>1. s \o Append(u, m) = Append(s \o u, m) /\ s \o u \in Seq(S) /\ Append(u, m) \in Seq(S)
    OBVIOUS
  <2>2. OfType(type, Append(s \o u, m))
          = IF m.type = type THEN Append(OfType(type, s \o u), m) ELSE OfType(type, s \o u)
    BY <2>1, OfTypeOfAppend
  <2>3. OfType(type, Append(u, m))
          = IF m.type = type THEN Append(OfType(type, u), m) ELSE OfType(type, u)
    BY OfTypeOfAppend
  <2>4. OfType(type, s) \in Seq(S) /\ OfType(type, u) \in Seq(S)
    BY OfTypeTyped
  <2>5. Append(OfType(type, s) \o OfType(type, u), m) = OfType(type, s) \o Append(OfType(type, u), m)
    BY <2>4, ConcatOfAppend, Zenon
  <2> QED BY <1>2, <2>1, <2>2, <2>3, <2>5
<1>3. Seq(S) \subseteq T
  <2> HIDE DEF T
  <2> QED BY <1>1, <1>2, Kinds!SequenceInduction
<1> QED BY <1>3

LEMMA OfTypeOfOne ==
  ASSUME NEW type, NEW m
  PROVE  OfType(type, <<m>>) = IF m.type = type THEN <<m>> ELSE <<>>
<1>1. <<m>> = Append(<<>>, m) /\ <<>> \in Seq({m}) /\ m \in {m} /\ Append(<<>>, m) = <<m>>
  OBVIOUS
<1>2. OfType(type, Append(<<>>, m))
        = IF m.type = type THEN Append(OfType(type, <<>>), m) ELSE OfType(type, <<>>)
  BY <1>1, OfTypeOfAppend
<1> QED BY <1>1, <1>2, OfTypeOfNone

LEMMA OfTypeOfTail ==
  ASSUME NEW type, NEW S, NEW s \in Seq(S), s # <<>>
  PROVE  OfType(type, s) = IF Head(s).type = type THEN <<Head(s)>> \o OfType(type, Tail(s))
                                                  ELSE OfType(type, Tail(s))
<1>1. s = <<Head(s)>> \o Tail(s) /\ <<Head(s)>> \in Seq(S) /\ Tail(s) \in Seq(S)
  OBVIOUS
<1>2. OfType(type, s) = OfType(type, <<Head(s)>>) \o OfType(type, Tail(s))
  BY <1>1, OfTypeOfConcat, Zenon
<1>3. OfType(type, Tail(s)) \in Seq(S)
  BY <1>1, OfTypeTyped
<1>4. <<>> \o OfType(type, Tail(s)) = OfType(type, Tail(s))
  BY <1>3
<1> QED BY <1>2, <1>4, OfTypeOfOne

(* They are those of the messages that have the type.                      *)
LEMMA OfTypeKeeps ==
  ASSUME NEW type, NEW S, NEW s \in Seq(S)
  PROVE  /\ \A i \in 1..Len(s) : s[i].type = type =>
              \E j \in 1..Len(OfType(type, s)) : OfType(type, s)[j] = s[i]
         /\ \A j \in 1..Len(OfType(type, s)) :
              OfType(type, s)[j].type = type /\ \E i \in 1..Len(s) : OfType(type, s)[j] = s[i]
<1> DEFINE Kept(t) == \A i \in 1..Len(t) : t[i].type = type =>
                        \E j \in 1..Len(OfType(type, t)) : OfType(type, t)[j] = t[i]
           Only(t) == \A j \in 1..Len(OfType(type, t)) :
                        OfType(type, t)[j].type = type
                          /\ \E i \in 1..Len(t) : OfType(type, t)[j] = t[i]
           T == {t \in Seq(S) : Kept(t) /\ Only(t)}
<1>1. <<>> \in T
  BY OfTypeOfNone
<1>2. ASSUME NEW t \in Seq(S), NEW m \in S, Kept(t), Only(t)
      PROVE  Kept(Append(t, m)) /\ Only(Append(t, m))
  <2> DEFINE a == Append(t, m)
             o == OfType(type, t)
             oa == OfType(type, a)
  <2>1. /\ Len(a) = Len(t) + 1 /\ a[Len(t) + 1] = m /\ Len(t) \in Nat
        /\ \A i \in 1..Len(t) : a[i] = t[i] /\ i \in 1..(Len(t) + 1)
        /\ \A i \in 1..(Len(t) + 1) : i \in 1..Len(t) \/ i = Len(t) + 1
    OBVIOUS
  <2>2. oa = IF m.type = type THEN Append(o, m) ELSE o
    BY OfTypeOfAppend
  <2>3. o \in Seq(S)
    BY OfTypeTyped
  <2>4. \A i \in 1..Len(t) : t[i].type = type => \E j \in 1..Len(o) : o[j] = t[i]
    BY <1>2
  <2>5. \A j \in 1..Len(o) : o[j].type = type /\ \E i \in 1..Len(t) : o[j] = t[i]
    BY <1>2
  <2> HIDE DEF a, o, oa
  <2>6. CASE m.type # type
    <3>1. oa = o
      BY <2>2, <2>6
    <3>2. \A i \in 1..Len(a) : a[i].type = type => \E j \in 1..Len(oa) : oa[j] = a[i]
      BY <3>1, <2>1, <2>4, <2>6
    <3>3. \A j \in 1..Len(oa) : oa[j].type = type /\ \E i \in 1..Len(a) : oa[j] = a[i]
      BY <3>1, <2>1, <2>5
    <3> QED BY <3>2, <3>3 DEF a, oa
  <2>7. CASE m.type = type
    <3>1. oa = Append(o, m)
      BY <2>2, <2>7
    <3>2. /\ Len(oa) = Len(o) + 1 /\ oa[Len(o) + 1] = m /\ Len(o) \in Nat
          /\ \A j \in 1..Len(o) : oa[j] = o[j] /\ j \in 1..(Len(o) + 1)
          /\ \A j \in 1..(Len(o) + 1) : j \in 1..Len(o) \/ j = Len(o) + 1
          /\ Len(o) + 1 \in 1..(Len(o) + 1)
      BY <3>1, <2>3
    <3>3. ASSUME NEW i \in 1..Len(a), a[i].type = type
          PROVE  \E j \in 1..Len(oa) : oa[j] = a[i]
      <4>1. CASE i \in 1..Len(t)
        BY <4>1, <3>2, <3>3, <2>1, <2>4
      <4>2. CASE i = Len(t) + 1
        BY <4>2, <3>2, <2>1
      <4> QED BY <4>1, <4>2, <2>1
    <3>4. ASSUME NEW j \in 1..Len(oa)
          PROVE  oa[j].type = type /\ \E i \in 1..Len(a) : oa[j] = a[i]
      <4>1. CASE j \in 1..Len(o)
        BY <4>1, <3>2, <2>1, <2>5
      <4>2. CASE j = Len(o) + 1
        <5>1. Len(t) + 1 \in 1..Len(a)
          BY <2>1
        <5> QED BY <4>2, <5>1, <3>2, <2>1, <2>7
      <4> QED BY <4>1, <4>2, <3>2
    <3> QED BY <3>3, <3>4 DEF a, oa
  <2> QED BY <2>6, <2>7
<1>3. Seq(S) \subseteq T
  <2>1. ASSUME NEW t \in Seq(S), NEW m \in S, t \in T PROVE Append(t, m) \in T
    <3> HIDE DEF Kept, Only
    <3>1. Append(t, m) \in Seq(S)
      OBVIOUS
    <3> QED BY <1>2, <2>1, <3>1
  <2> HIDE DEF T
  <2> QED BY <1>1, <2>1, Kinds!SequenceInduction
<1> QED BY <1>3

LEMMA OfTypeOfAll ==
  ASSUME NEW type, NEW S, NEW s \in Seq(S), \A i \in 1..Len(s) : s[i].type = type
  PROVE  OfType(type, s) = s
<1> DEFINE All(t) == (\A i \in 1..Len(t) : t[i].type = type) => OfType(type, t) = t
           T == {t \in Seq(S) : All(t)}
<1>1. <<>> \in T
  <2>1. <<>> \in Seq(S)
    OBVIOUS
  <2> QED BY <2>1, OfTypeOfNone
<1>2. ASSUME NEW t \in Seq(S), NEW m \in S, All(t),
             \A i \in 1..Len(Append(t, m)) : Append(t, m)[i].type = type
      PROVE  OfType(type, Append(t, m)) = Append(t, m)
  <2>1. /\ Append(t, m)[Len(t) + 1] = m /\ Len(t) + 1 \in 1..Len(Append(t, m))
        /\ \A i \in 1..Len(t) : Append(t, m)[i] = t[i] /\ i \in 1..Len(Append(t, m))
    OBVIOUS
  <2>2. m.type = type /\ OfType(type, t) = t
    BY <1>2, <2>1
  <2> QED BY <2>2, OfTypeOfAppend
<1>3. Seq(S) \subseteq T
  <2>1. ASSUME NEW t \in Seq(S), NEW m \in S, t \in T PROVE Append(t, m) \in T
    <3>1. All(t) /\ Append(t, m) \in Seq(S)
      BY <2>1
    <3>2. All(Append(t, m))
      BY <1>2, <3>1
    <3> HIDE DEF All
    <3> QED BY <3>1, <3>2
  <2> HIDE DEF T
  <2> QED BY <1>1, <2>1, Kinds!SequenceInduction
<1> QED BY <1>3

-----------------------------------------------------------------------------
(* Views. *)

ViewType ==
  [server : [node : Node, complete : BOOLEAN, at : Nat],
   event  : [node : Node, complete : BOOLEAN]]

(* The observers are told of the whole node when the server or a write to  *)
(* the root gives all of it, and then see the server's under the writes.   *)
Layered(v, visible) ==
  /\ v.event.complete <=> v.server.complete \/ visible.root
  /\ v.event.complete => v.event.node = applyToNode(visible, v.server.node)

LEMMA SameNode ==
  ASSUME NEW f \in Node, NEW g \in Node, \A k \in Keys : f[k] = g[k]
  PROVE  f = g
BY DEF Node

LEMMA KeyOfOver ==
  ASSUME NEW f \in Partial, NEW node \in Node
  PROVE  \A k \in Keys : Over(f, node)[k] = IF k \in DOMAIN f THEN f[k] ELSE node[k]
<1>1. node \in Partial /\ DOMAIN node = Keys
  BY NodeIsPartial
<1>2. DOMAIN f \union DOMAIN node = Keys
  BY <1>1, PartialIs
<1> QED BY <1>2 DEF Over

LEMMA CoveredNode ==
  ASSUME NEW f \in Partial, NEW node \in Node, DOMAIN f = Keys
  PROVE  Over(f, node) = f /\ f \in Node
<1>1. node \in Partial /\ DOMAIN node = Keys
  BY NodeIsPartial
<1> QED BY <1>1, OverCovered, NodeIsPartial

LEMMA FreshViewIs ==
  ASSUME NEW visible \in Visible
  PROVE  FreshView(visible) \in ViewType /\ Layered(FreshView(visible), visible)
<1>1. EmptyNode \in Node /\ applyToNode(visible, EmptyNode) \in Node
  BY EmptyNodeIsNode, OverNode DEF applyToNode, Visible
<1>2. visible.root \in BOOLEAN
  BY DEF Visible
<1> QED BY <1>1, <1>2 DEF FreshView, ViewType, Layered

(* What EventAfterServer does to the event cache.                          *)
EventFollows(after, v, visible, keys, atRoot) ==
  /\ after \in ViewType
  /\ after.server = v.server
  /\ atRoot /\ visible.root => after.event = v.event
  /\ atRoot /\ ~visible.root =>
       after.event = [node |-> applyToNode(visible, v.server.node), complete |-> TRUE]
  /\ ~atRoot => after.event.complete = v.event.complete
  /\ ~atRoot => \A k \in Keys : after.event.node[k] =
       IF k \in keys \ DOMAIN visible.at THEN v.server.node[k] ELSE v.event.node[k]

LEMMA EventAfterServerFollows ==
  ASSUME NEW v \in ViewType, NEW visible \in Visible, NEW keys, NEW atRoot \in BOOLEAN
  PROVE  EventFollows(EventAfterServer(v, visible, keys, atRoot), v, visible, keys, atRoot)
<1> USE DEF EventFollows
<1> DEFINE after == EventAfterServer(v, visible, keys, atRoot)
           patched == [k \in Keys |-> IF k \in keys \ DOMAIN visible.at THEN v.server.node[k]
                                      ELSE v.event.node[k]]
<1>1. /\ v = [server |-> v.server, event |-> v.event]
      /\ v.server \in [node : Node, complete : BOOLEAN, at : Nat]
      /\ v.event \in [node : Node, complete : BOOLEAN]
      /\ v.event = [node |-> v.event.node, complete |-> v.event.complete]
      /\ v.server.node \in Node /\ v.event.node \in Node /\ v.event.complete \in BOOLEAN
  BY DEF ViewType
<1>2. applyToNode(visible, v.server.node) \in Node
  BY <1>1, OverNode DEF applyToNode, Visible
<1>3. CASE atRoot /\ visible.root
  BY <1>3 DEF EventAfterServer
<1>4. CASE atRoot /\ ~visible.root
  <2>1. after = [server |-> v.server,
                 event |-> [node |-> applyToNode(visible, v.server.node), complete |-> TRUE]]
    BY <1>1, <1>4 DEF EventAfterServer
  <2> HIDE DEF after
  <2>2. after.server = v.server
    BY <2>1
  <2>3. after.event = [node |-> applyToNode(visible, v.server.node), complete |-> TRUE]
    BY <2>1
  <2>4. after \in ViewType
    BY <1>1, <1>2, <2>1 DEF ViewType
  <2> QED BY <1>4, <2>2, <2>3, <2>4 DEF after
<1>5. CASE ~atRoot
  <2>1. after = [v EXCEPT !.event.node = patched]
    BY <1>5, <1>1 DEF EventAfterServer
  <2>2. after = [server |-> v.server, event |-> [node |-> patched, complete |-> v.event.complete]]
    BY <1>1, <2>1
  <2>3. patched \in Node
    BY <1>1 DEF Node
  <2> QED BY <1>1, <1>5, <2>2, <2>3 DEF ViewType
<1> QED BY <1>3, <1>4, <1>5

LEMMA ViewIs ==
  ASSUME NEW v \in ViewType
  PROVE  /\ v = [server |-> v.server, event |-> v.event]
         /\ v.server = [node |-> v.server.node, complete |-> v.server.complete, at |-> v.server.at]
         /\ v.event = [node |-> v.event.node, complete |-> v.event.complete]
         /\ v.server.node \in Node /\ v.server.complete \in BOOLEAN /\ v.server.at \in Nat
         /\ v.event.node \in Node /\ v.event.complete \in BOOLEAN
BY DEF ViewType

LEMMA ViewAfterWrite ==
  ASSUME NEW v \in ViewType, NEW visible \in Visible, NEW w \in Write, Layered(v, visible)
  PROVE  LET after == applyUserWrite(v, w) IN
         /\ after \in ViewType
         /\ after.server = v.server
         /\ Layered(after, addWrite(visible, w))
<1> DEFINE after == applyUserWrite(v, w)
           node  == v.event.node
           above == visible.at
           mine  == w.value
           base  == v.server.node
           upper == addWrite(visible, w)
<1>1. /\ v = [server |-> v.server, event |-> v.event]
      /\ v.event = [node |-> node, complete |-> v.event.complete]
      /\ node \in Node /\ base \in Node /\ v.event.complete \in BOOLEAN
      /\ v.server \in [node : Node, complete : BOOLEAN, at : Nat]
  BY ViewIs DEF ViewType
<1>2. mine \in Partial /\ w.kind \in {"set", "child", "merge"} /\ (w.kind = "set" => DOMAIN mine = Keys)
  BY WriteTyped
<1>3. above \in Partial /\ visible.root \in BOOLEAN
  BY DEF Visible
<1>4. upper.root = (visible.root \/ w.kind = "set") /\ upper.at = Over(mine, above)
  BY AddedWrite
<1>5. after = [server |-> v.server,
               event |-> [node |-> Over(mine, node), complete |-> v.event.complete \/ w.kind = "set"]]
  BY <1>1 DEF applyUserWrite, ApplyWrite
<1>6. base \in Partial /\ Over(mine, node) \in Node
  BY <1>1, <1>2, OverNode, NodeIsPartial
<1>7. v.event.complete <=> v.server.complete \/ visible.root
  BY DEF Layered
<1>8. v.event.complete => node = Over(above, base)
  BY DEF Layered, applyToNode
<1> HIDE DEF after, node, above, mine, base, upper
<1>9. after.server = v.server /\ after.event.node = Over(mine, node)
        /\ after.event.complete = (v.event.complete \/ w.kind = "set")
  BY <1>5
<1>10. after \in ViewType
  BY <1>1, <1>5, <1>6 DEF ViewType
<1>11. after.event.complete => after.event.node = Over(Over(mine, above), base)
  <2>1. CASE v.event.complete
    <3>1. Over(mine, Over(above, base)) = Over(Over(mine, above), base)
      BY <1>2, <1>3, <1>6, OverIsAssociative
    <3> QED BY <2>1, <3>1, <1>8, <1>9
  <2>2. CASE w.kind = "set"
    <3>1. Over(mine, above) = mine
      <4>1. DOMAIN above \subseteq DOMAIN mine
        BY <1>2, <1>3, <2>2, PartialIs
      <4> QED BY <4>1, <1>2, <1>3, OverCovered
    <3>2. Over(mine, node) = mine /\ Over(mine, base) = mine
      BY <1>1, <1>2, <2>2, CoveredNode
    <3> QED BY <3>1, <3>2, <1>9
  <2> QED BY <2>1, <2>2, <1>9
<1>12. Layered(after, upper)
  <2>1. after.event.complete <=> after.server.complete \/ upper.root
    BY <1>4, <1>7, <1>9
  <2>2. after.event.complete => after.event.node = applyToNode(upper, after.server.node)
    BY <1>4, <1>9, <1>11 DEF applyToNode, base
  <2> QED BY <2>1, <2>2 DEF Layered
<1> QED BY <1>9, <1>10, <1>12 DEF after, upper

LEMMA ViewAfterData ==
  ASSUME NEW v \in ViewType, NEW visible \in Visible, NEW kind \in {"set", "child", "merge"},
         NEW value \in Partial, NEW data, data.kind = kind, data.value = value, data.at \in Nat,
         kind = "set" => DOMAIN value = Keys,
         visible.root => DOMAIN visible.at = Keys,
         Layered(v, visible)
  PROVE  LET after == applyServerUpdate(v, visible, data) IN
         /\ after \in ViewType
         /\ Layered(after, visible)
         /\ IF kind = "merge" /\ ~v.server.complete /\ v.server.node = EmptyNode THEN after = v
            ELSE after.server = [node |-> Over(value, v.server.node),
                                 complete |-> v.server.complete \/ kind = "set",
                                 at |-> data.at]
<1> DEFINE after == applyServerUpdate(v, visible, data)
           base  == v.server.node
           next  == Over(value, base)
           told  == [server |-> [node |-> next, complete |-> v.server.complete \/ kind = "set",
                                 at |-> data.at],
                     event |-> v.event]
           atRoot == kind = "set"
           keys   == DOMAIN value
           above  == visible.at
<1>1. /\ v = [server |-> v.server, event |-> v.event]
      /\ v.server = [node |-> base, complete |-> v.server.complete, at |-> v.server.at]
      /\ base \in Node /\ v.server.complete \in BOOLEAN /\ v.server.at \in Nat
      /\ v.event \in [node : Node, complete : BOOLEAN]
  BY ViewIs DEF ViewType
<1>2. next \in Node
  BY <1>1, OverNode
<1>3. CASE kind = "merge" /\ ~v.server.complete /\ base = EmptyNode
  BY <1>3 DEF applyServerUpdate
<1>4. CASE ~(kind = "merge" /\ ~v.server.complete /\ base = EmptyNode)
  <2>1. [v EXCEPT !.server = [node |-> Over(data.value, @.node),
                              complete |-> @.complete \/ data.kind = "set", at |-> data.at]] = told
    BY <1>1
  <2>2. after = EventAfterServer(told, visible, keys, atRoot)
    BY <1>4, <2>1 DEF applyServerUpdate
  <2>3. told \in ViewType
    BY <1>1, <1>2 DEF ViewType
  <2>4. told.event = v.event /\ told.server.node = next
          /\ told.server.complete = (v.server.complete \/ kind = "set")
    OBVIOUS
  <2>5. atRoot \in BOOLEAN /\ above \in Partial /\ visible.root \in BOOLEAN
    BY DEF Visible
  <2>6. v.event.complete <=> v.server.complete \/ visible.root
    BY DEF Layered
  <2>7. v.event.complete => v.event.node = Over(above, base)
    BY DEF Layered, applyToNode
  <2>8. \A k \in Keys : next[k] = IF k \in keys THEN value[k] ELSE base[k]
    BY <1>1, KeyOfOver
  <2>9. \A k \in Keys : Over(above, base)[k] = IF k \in DOMAIN above THEN above[k] ELSE base[k]
    BY <1>1, <2>5, KeyOfOver
  <2>10. \A k \in Keys : Over(above, next)[k] = IF k \in DOMAIN above THEN above[k] ELSE next[k]
    BY <1>2, <2>5, KeyOfOver
  <2>11. Over(above, next) \in Node /\ applyToNode(visible, told.server.node) = Over(above, next)
    BY <1>2, <2>4, <2>5, OverNode DEF applyToNode
  <2> HIDE DEF after, told, next, base, keys, above, atRoot
  <2>follows. EventFollows(after, told, visible, keys, atRoot)
    BY <2>2, <2>3, <2>5, EventAfterServerFollows, Zenon
  <2>12. after \in ViewType /\ after.server = told.server
    BY <2>follows DEF EventFollows
  <2>13. CASE atRoot /\ visible.root
    <3>1. after.event = v.event
      BY <2>follows, <2>4, <2>13 DEF EventFollows
    <3>2. v.event.complete /\ v.event.node = above /\ Over(above, next) = above
      BY <1>1, <1>2, <2>5, <2>6, <2>7, <2>13, CoveredNode DEF above
    <3> QED BY <2>4, <2>11, <2>12, <3>1, <3>2, <1>4, <2>13 DEF Layered, after, told, next, base
  <2>14. CASE atRoot /\ ~visible.root
    <3>1. after.event = [node |-> applyToNode(visible, told.server.node), complete |-> TRUE]
      BY <2>follows, <2>14 DEF EventFollows
    <3>2. told.server.complete = TRUE
      BY <2>4, <2>14 DEF atRoot
    <3>3. Layered(after, visible)
      BY <2>12, <3>1, <3>2 DEF Layered
    <3> QED BY <2>12, <3>3, <1>4 DEF after, told, next, base
  <2>15. CASE ~atRoot
    <3>1. after.event.complete = v.event.complete
      BY <2>follows, <2>4, <2>15 DEF EventFollows
    <3>2. \A k \in Keys : after.event.node[k] =
            IF k \in keys \ DOMAIN above THEN next[k] ELSE v.event.node[k]
      BY <2>follows, <2>4, <2>15 DEF EventFollows, above
    <3>3. after.event.node \in Node
      BY <2>12, ViewIs
    <3>4. v.event.complete => after.event.node = Over(above, next)
      <4> SUFFICES ASSUME v.event.complete PROVE after.event.node = Over(above, next)
        OBVIOUS
      <4>1. \A k \in Keys : after.event.node[k] = Over(above, next)[k]
        BY <2>7, <2>8, <2>9, <2>10, <3>2
      <4> QED BY <2>11, <3>3, <4>1, SameNode
    <3>5. told.server.complete = v.server.complete
      BY <2>4, <2>15, <1>1 DEF atRoot
    <3>6. Layered(after, visible)
      BY <2>6, <2>11, <2>12, <3>1, <3>4, <3>5 DEF Layered
    <3> QED BY <2>12, <3>6, <1>4 DEF after, told, next, base
  <2> QED BY <2>5, <2>13, <2>14, <2>15
<1> QED BY <1>3, <1>4

LEMMA ViewAfterListen ==
  ASSUME NEW v \in ViewType, NEW visible \in Visible, NEW at \in Nat,
         visible.root => DOMAIN visible.at = Keys,
         Layered(v, visible)
  PROVE  LET after == listenComplete(v, visible, at) IN
         /\ after \in ViewType
         /\ Layered(after, visible)
         /\ after.server = [node |-> v.server.node, complete |-> TRUE, at |-> at]
<1> DEFINE after == listenComplete(v, visible, at)
           told  == [server |-> [node |-> v.server.node, complete |-> TRUE, at |-> at],
                     event |-> v.event]
<1>1. /\ v = [server |-> v.server, event |-> v.event]
      /\ v.server = [node |-> v.server.node, complete |-> v.server.complete, at |-> v.server.at]
      /\ v.server.node \in Node /\ v.event \in [node : Node, complete : BOOLEAN]
  BY ViewIs DEF ViewType
<1>2. [v EXCEPT !.server = [node |-> v.server.node, complete |-> TRUE, at |-> at]] = told
  <2> DEFINE s == [node |-> v.server.node, complete |-> TRUE, at |-> at]
  <2> HIDE DEF s
  <2>1. [v EXCEPT !.server = s] = [server |-> s, event |-> v.event]
    BY <1>1
  <2> QED BY <2>1 DEF s
<1>3. told \in ViewType
  BY <1>1 DEF ViewType
<1>4. told.server = [node |-> v.server.node, complete |-> TRUE, at |-> at] /\ told.event = v.event
  OBVIOUS
<1>5. after = EventAfterServer(told, visible, Keys, TRUE)
  BY <1>2 DEF listenComplete
<1> HIDE DEF after, told
<1>6. EventFollows(after, told, visible, Keys, TRUE)
  BY <1>3, <1>5, EventAfterServerFollows, Zenon
<1>7. after \in ViewType /\ after.server = told.server
  BY <1>6 DEF EventFollows
<1>8. CASE visible.root
  <2>1. after.event = v.event
    BY <1>4, <1>6, <1>8 DEF EventFollows
  <2> QED BY <1>4, <1>7, <1>8, <2>1 DEF Layered, after
<1>9. CASE ~visible.root
  <2>1. after.event = [node |-> applyToNode(visible, told.server.node), complete |-> TRUE]
    BY <1>6, <1>9 DEF EventFollows
  <2> QED BY <1>4, <1>7, <2>1 DEF Layered, after
<1>10. visible.root \in BOOLEAN
  BY DEF Visible
<1> QED BY <1>8, <1>9, <1>10

(* The writes without the lowest, and with it.                             *)
LowestRemoved(with, without, w) ==
  /\ with.root = (without.root \/ w.kind = "set")
  /\ with.at = Over(without.at, w.value)
  /\ without.root => DOMAIN without.at = Keys

LEMMA KeysWithLowest ==
  ASSUME NEW with \in Visible, NEW without \in Visible, NEW w \in Write, NEW base \in Node,
         LowestRemoved(with, without, w)
  PROVE  /\ applyToNode(without, base) \in Node
         /\ \A k \in Keys : applyToNode(without, base)[k] =
              IF k \in DOMAIN without.at THEN without.at[k] ELSE base[k]
         /\ \A k \in Keys : applyToNode(with, base)[k] =
              IF k \in DOMAIN without.at THEN without.at[k]
              ELSE IF k \in DOMAIN w.value THEN w.value[k] ELSE base[k]
<1> DEFINE upper == without.at
           lower == w.value
           both  == with.at
<1>1. upper \in Partial /\ lower \in Partial /\ both \in Partial /\ both = Over(upper, lower)
  BY WriteTyped DEF Visible, LowestRemoved
<1> HIDE DEF upper, lower, both
<1>2. DOMAIN both = DOMAIN upper \union DOMAIN lower
  BY <1>1, OverIs
<1>3. /\ \A k \in DOMAIN upper : both[k] = upper[k]
      /\ \A k \in DOMAIN lower \ DOMAIN upper : both[k] = lower[k]
  <2>1. \A k \in DOMAIN upper : both[k] = upper[k]
    BY <1>1, OverIs, Zenon
  <2>2. \A k \in DOMAIN lower \ DOMAIN upper : Over(upper, lower)[k] = lower[k]
    BY <1>1, OverIs
  <2> QED BY <1>1, <2>1, <2>2
<1>4. Over(upper, base) \in Node
  BY <1>1, OverNode
<1>5. \A k \in Keys : Over(upper, base)[k] = IF k \in DOMAIN upper THEN upper[k] ELSE base[k]
  BY <1>1, KeyOfOver
<1>6. \A k \in Keys : Over(both, base)[k] = IF k \in DOMAIN both THEN both[k] ELSE base[k]
  BY <1>1, KeyOfOver
<1>7. \A k \in Keys : Over(both, base)[k] =
        IF k \in DOMAIN upper THEN upper[k] ELSE IF k \in DOMAIN lower THEN lower[k] ELSE base[k]
  BY <1>2, <1>3, <1>6
<1> QED BY <1>4, <1>5, <1>7 DEF applyToNode, upper, lower, both

(* An acknowledged write leaves a view on top of which nothing is missing. *)
LEMMA ViewAfterAck ==
  ASSUME NEW v \in ViewType, NEW with \in Visible, NEW without \in Visible, NEW w \in Write,
         LowestRemoved(with, without, w), Layered(v, with), v.server.complete
  PROVE  LET after == ackUserWriteOn(v, without, w) IN
         /\ after \in ViewType
         /\ after.server = v.server
         /\ Layered(after, without)
<1> DEFINE after  == ackUserWriteOn(v, without, w)
           base   == v.server.node
           above  == without.at
           lower  == w.value
           atRoot == w.kind = "set"
           keys   == {k \in DOMAIN lower : v.server.complete \/ base[k] # Absent}
           old    == applyToNode(with, base)
           new    == applyToNode(without, base)
<1>1. base \in Node /\ v.event.node \in Node /\ v.event.complete \in BOOLEAN
  BY ViewIs
<1>2. keys = DOMAIN lower
  OBVIOUS
<1>3. after = EventAfterServer(v, without, keys, atRoot)
  BY DEF ackUserWriteOn
<1>4. new \in Node
  BY <1>1, KeysWithLowest
<1>5. \A k \in Keys : new[k] = IF k \in DOMAIN above THEN above[k] ELSE base[k]
  BY <1>1, KeysWithLowest
<1>6. \A k \in Keys : old[k] = IF k \in DOMAIN above THEN above[k]
                               ELSE IF k \in DOMAIN lower THEN lower[k] ELSE base[k]
  BY <1>1, KeysWithLowest
<1>7. v.event.complete /\ v.event.node = old
  BY DEF Layered
<1>8. without.root => DOMAIN above = Keys
  BY DEF LowestRemoved
<1> HIDE DEF after, base, above, lower, atRoot, keys, old, new
<1>9. atRoot \in BOOLEAN
  BY DEF atRoot
<1>10. EventFollows(after, v, without, keys, atRoot)
  BY <1>3, <1>9, EventAfterServerFollows, Zenon
<1>11. after \in ViewType /\ after.server = v.server
  BY <1>10 DEF EventFollows
<1>12. after.event.node \in Node
  BY <1>11, ViewIs
<1>13. after.event.complete /\ after.event.node = new
  <2>1. CASE atRoot /\ without.root
    <3>1. after.event = v.event
      BY <1>10, <2>1 DEF EventFollows
    <3>2. \A k \in Keys : after.event.node[k] = new[k]
      BY <1>5, <1>6, <1>7, <1>8, <2>1, <3>1
    <3> QED BY <1>4, <1>7, <1>12, <3>1, <3>2, SameNode
  <2>2. CASE atRoot /\ ~without.root
    BY <1>10, <2>2 DEF EventFollows, new, base
  <2>3. CASE ~atRoot
    <3>1. after.event.complete = v.event.complete
      BY <1>10, <2>3 DEF EventFollows
    <3>2. \A k \in Keys : after.event.node[k] =
            IF k \in keys \ DOMAIN above THEN base[k] ELSE v.event.node[k]
      BY <1>10, <2>3 DEF EventFollows, base, above
    <3>3. \A k \in Keys : after.event.node[k] = new[k]
      BY <1>2, <1>5, <1>6, <1>7, <3>2
    <3> QED BY <1>4, <1>7, <1>12, <3>1, <3>3, SameNode
  <2> QED BY <1>9, <2>1, <2>2, <2>3
<1> QED BY <1>11, <1>13 DEF Layered, after, new, base

(* A denied write leaves the view the server had.                          *)
LEMMA ViewAfterRevert ==
  ASSUME NEW v \in ViewType, NEW with \in Visible, NEW without \in Visible, NEW w \in Write,
         LowestRemoved(with, without, w), Layered(v, with), v.server.complete
  PROVE  LET after == revertUserWriteOn(v, without, w) IN
         /\ after \in ViewType
         /\ after.server = v.server
         /\ Layered(after, without)
<1> DEFINE after  == revertUserWriteOn(v, without, w)
           base   == v.server.node
           above  == without.at
           lower  == w.value
           keys   == IF w.kind = "child" THEN DOMAIN lower ELSE Keys
           old    == applyToNode(with, base)
           new    == applyToNode(without, base)
           shadowed == without.root \/ (w.kind = "child" /\ keys \subseteq DOMAIN above)
           patched  == [k \in Keys |-> IF k \in keys THEN new[k] ELSE v.event.node[k]]
<1>1. /\ v = [server |-> v.server, event |-> v.event]
      /\ v.event = [node |-> v.event.node, complete |-> v.event.complete]
      /\ base \in Node /\ v.event.node \in Node /\ v.event.complete \in BOOLEAN
      /\ v.server \in [node : Node, complete : BOOLEAN, at : Nat]
  BY ViewIs DEF ViewType
<1>2. after = IF shadowed THEN v
              ELSE [v EXCEPT !.event = [node |-> [k \in Keys |-> IF k \in keys THEN new[k] ELSE @.node[k]],
                                        complete |-> v.server.complete]]
  BY DEF revertUserWriteOn
<1>3. new \in Node
  BY <1>1, KeysWithLowest
<1>4. \A k \in Keys : new[k] = IF k \in DOMAIN above THEN above[k] ELSE base[k]
  BY <1>1, KeysWithLowest
<1>5. \A k \in Keys : old[k] = IF k \in DOMAIN above THEN above[k]
                               ELSE IF k \in DOMAIN lower THEN lower[k] ELSE base[k]
  BY <1>1, KeysWithLowest
<1>6. v.event.complete /\ v.event.node = old
  BY DEF Layered
<1>7. without.root => DOMAIN above = Keys
  BY DEF LowestRemoved
<1>8. CASE shadowed
  <2>1. after = v
    BY <1>2, <1>8
  <2>2. ASSUME NEW k \in Keys PROVE old[k] = new[k]
    <3> HIDE DEF old, new, base
    <3> QED BY <1>4, <1>5, <1>7, <1>8
  <2> HIDE DEF old, new
  <2>3. old = new
    BY <1>1, <1>3, <1>6, <2>2, SameNode
  <2> QED BY <1>6, <2>1, <2>3 DEF Layered, new
<1>9. CASE ~shadowed
  <2>1. after = [server |-> v.server, event |-> [node |-> patched, complete |-> v.server.complete]]
    BY <1>1, <1>2, <1>9
  <2>2. patched \in Node
    BY <1>1, <1>3 DEF Node
  <2>3. ASSUME NEW k \in Keys PROVE patched[k] = new[k]
    <3>1. k \notin keys => old[k] = new[k]
      <4> HIDE DEF old, new, base
      <4> QED BY <1>4, <1>5
    <3> QED BY <1>6, <3>1
  <2>4. patched = new
    <3> HIDE DEF patched, new
    <3> QED BY <1>3, <2>2, <2>3, SameNode
  <2> HIDE DEF after, patched
  <2>5. after \in ViewType
    BY <1>1, <2>1, <2>2 DEF ViewType
  <2>6. after.server = v.server /\ after.event.node = new /\ after.event.complete
    BY <2>1, <2>4
  <2> QED BY <2>5, <2>6 DEF Layered, after
<1> QED BY <1>8, <1>9

-----------------------------------------------------------------------------
(* Answers to the oldest writes. *)

Places(s, id) == {i \in 1..Len(s) : s[i].id = id}

LEMMA FirstPlace ==
  ASSUME NEW S, NEW s \in Seq(S), s # <<>>, NEW id, s[1].id = id
  PROVE  Places(s, id) # {} /\ Min(Places(s, id)) = 1
<1>1. 1 \in Places(s, id) /\ \A i \in Places(s, id) : 1 <= i /\ i \in Nat
  BY DEF Places
<1>2. Min(Places(s, id)) = CHOOSE x \in Places(s, id) : \A y \in Places(s, id) : x <= y
  BY DEF Min
<1> QED BY <1>1, <1>2

LEMMA FirstIsRemoved ==
  ASSUME NEW S, NEW s \in Seq(S), s # <<>>
  PROVE  RemoveAt(s, 1) = Tail(s)
BY DEF RemoveAt

(* The pending writes, what is visible of them and the view fit.           *)
Coherent(state) ==
  /\ state \in [writes : Seq(Write), visible : Visible, view : ViewType]
  /\ state.visible = layerTreeFromWrites(state.writes)
  /\ observed => Layered(state.view, state.visible) /\ state.view.server.complete

LEMMA LowestIsRemoved ==
  ASSUME NEW s \in Seq(Write), s # <<>>
  PROVE  LowestRemoved(layerTreeFromWrites(s), layerTreeFromWrites(Tail(s)), s[1])
<1>1. s[1] \in Write /\ Tail(s) \in Seq(Write) /\ s = <<s[1]>> \o Tail(s)
  OBVIOUS
<1> DEFINE w == s[1]
           rest == Tail(s)
<1> HIDE DEF w, rest
<1>2. w \in Write /\ rest \in Seq(Write) /\ s = <<w>> \o rest
  BY <1>1 DEF w, rest
<1>3. layerTreeFromWrites(s)
        = [root |-> layerTreeFromWrites(rest).root \/ w.kind = "set",
           at |-> Over(layerTreeFromWrites(rest).at, w.value)]
  BY <1>2, LayerUnder
<1>4. layerTreeFromWrites(rest).root => DOMAIN layerTreeFromWrites(rest).at = Keys
  BY <1>2, RootCovers
<1>5. LowestRemoved(layerTreeFromWrites(s), layerTreeFromWrites(rest), w)
  BY <1>3, <1>4 DEF LowestRemoved
<1> QED BY <1>5 DEF w, rest

LEMMA AckedOldest ==
  ASSUME NEW state, Coherent(state), state.writes # <<>>,
         NEW answer, answer.id = state.writes[1].id, answer.ok \in BOOLEAN, observed \in BOOLEAN
  PROVE  LET after == Acked(state, answer) IN
         /\ Coherent(after)
         /\ after.writes = Tail(state.writes)
         /\ after.view.server = state.view.server
<1> DEFINE after   == Acked(state, answer)
           s       == state.writes
           w       == s[1]
           v       == state.view
           with    == layerTreeFromWrites(s)
           without == layerTreeFromWrites(Tail(s))
           next    == IF ShadowedByLater(s, 1) THEN v
                      ELSE IF answer.ok THEN ackUserWriteOn(v, without, w)
                      ELSE revertUserWriteOn(v, without, w)
<1>1. s \in Seq(Write) /\ w \in Write /\ Tail(s) \in Seq(Write) /\ v \in ViewType /\ state.visible = with
  BY DEF Coherent
<1>2. with \in Visible /\ without \in Visible
  BY <1>1, LayerTyped
<1>3. LowestRemoved(with, without, w)
  BY <1>1, LowestIsRemoved
<1>4. SelectInSeq(s, LAMBDA x : x.id = answer.id) = 1
  <2>1. Places(s, answer.id) # {} /\ Min(Places(s, answer.id)) = 1
    BY <1>1, FirstPlace
  <2> QED BY <2>1 DEF SelectInSeq, Places
<1>5. RemoveAt(s, 1) = Tail(s)
  BY <1>1, FirstIsRemoved
<1>6. VisibleWithout(s, state.visible, 1) = without
  BY <1>1, OldestIsTakenOut
<1>7. after = [writes |-> Tail(s), visible |-> without, view |-> IF observed THEN next ELSE v]
  BY <1>4, <1>5, <1>6 DEF Acked, Updated
<1>8. observed => Layered(v, with) /\ v.server.complete
  BY <1>1 DEF Coherent
<1>9. ShadowedByLater(s, 1) => without = with
  BY <1>1, <1>6 DEF VisibleWithout
<1> HIDE DEF after, s, w, v, with, without
<1>10. observed => next \in ViewType /\ next.server = v.server /\ Layered(next, without)
  <2>1. CASE ShadowedByLater(s, 1)
    BY <1>1, <1>8, <1>9, <2>1
  <2>2. CASE ~ShadowedByLater(s, 1) /\ answer.ok
    BY <1>1, <1>2, <1>3, <1>8, <2>2, ViewAfterAck
  <2>3. CASE ~ShadowedByLater(s, 1) /\ ~answer.ok
    BY <1>1, <1>2, <1>3, <1>8, <2>3, ViewAfterRevert
  <2> QED BY <2>1, <2>2, <2>3
<1> HIDE DEF next
<1>11. after.writes = Tail(s) /\ after.visible = without
         /\ after.view = (IF observed THEN next ELSE v)
  BY <1>7
<1>12. after \in [writes : Seq(Write), visible : Visible, view : ViewType]
  BY <1>1, <1>2, <1>7, <1>10
<1>13. after.visible = layerTreeFromWrites(after.writes)
  BY <1>11 DEF without
<1>14. after.view.server = v.server
  BY <1>10, <1>11
<1>15. observed => Layered(after.view, after.visible) /\ after.view.server.complete
  BY <1>8, <1>10, <1>11, <1>14
<1> QED BY <1>11, <1>12, <1>13, <1>14, <1>15 DEF Coherent, after, s, v

Held == [id : 1..MaxWrites, ok : BOOLEAN]

OldestAcked(after, state, n) ==
  /\ Coherent(after)
  /\ after.writes = SubSeq(state.writes, n + 1, Len(state.writes))
  /\ after.view.server = state.view.server

LEMMA AckedOldestOnes ==
  ASSUME NEW state, Coherent(state), observed \in BOOLEAN, NEW answers \in Seq(Held),
         Len(answers) <= Len(state.writes),
         \A i \in 1..Len(answers) : answers[i].id = state.writes[i].id
  PROVE  OldestAcked(AckedAll(state, answers), state, Len(answers))
<1> DEFINE s == state.writes
           Fits(t) == Len(t) <= Len(s) /\ \A i \in 1..Len(t) : t[i].id = s[i].id
           Done(t) == OldestAcked(AckedAll(state, t), state, Len(t))
           T == {t \in Seq(Held) : Fits(t) => Done(t)}
<1>1. s \in Seq(Write) /\ Len(s) \in Nat
  BY DEF Coherent
<1>2. <<>> \in T
  <2>1. <<>> \in Seq(Held) /\ Len(<<>>) = 0
    OBVIOUS
  <2>2. SubSeq(s, 0 + 1, Len(s)) = s
    BY <1>1
  <2>3. OldestAcked(state, state, 0)
    BY <2>2 DEF OldestAcked
  <2> QED BY <2>1, <2>3, AckedOfNone
<1>3. ASSUME NEW t \in Seq(Held), NEW x \in Held, Fits(t) => Done(t), Fits(Append(t, x))
      PROVE  Done(Append(t, x))
  <2> DEFINE n == Len(t)
             so == AckedAll(state, t)
             after == AckedAll(state, Append(t, x))
  <2>1. /\ n \in Nat /\ Len(Append(t, x)) = n + 1 /\ Append(t, x)[n + 1] = x
        /\ n + 1 \in 1..Len(Append(t, x))
        /\ \A i \in 1..n : Append(t, x)[i] = t[i] /\ i \in 1..Len(Append(t, x))
    OBVIOUS
  <2>2. n + 1 <= Len(s) /\ x.id = s[n + 1].id
    BY <1>3, <2>1
  <2>3. Fits(t)
    BY <1>1, <1>3, <2>1
  <2>4. Coherent(so) /\ so.writes = SubSeq(s, n + 1, Len(s)) /\ so.view.server = state.view.server
    BY <1>3, <2>3 DEF OldestAcked
  <2>5. after = Acked(so, x)
    BY AckedOfAppend
  <2> HIDE DEF n, so, after, s
  <2>6. /\ SubSeq(s, n + 1, Len(s)) # <<>> /\ SubSeq(s, n + 1, Len(s))[1] = s[n + 1]
        /\ Tail(SubSeq(s, n + 1, Len(s))) = SubSeq(s, (n + 1) + 1, Len(s))
    BY <1>1, <2>1, <2>2
  <2>7. so.writes # <<>> /\ x.id = so.writes[1].id /\ x.ok \in BOOLEAN
    BY <2>2, <2>4, <2>6 DEF Held
  <2>8. Coherent(after) /\ after.writes = Tail(so.writes) /\ after.view.server = so.view.server
    BY <2>4, <2>5, <2>7, AckedOldest
  <2> QED BY <2>1, <2>4, <2>6, <2>8 DEF OldestAcked, after, s
<1>4. Seq(Held) \subseteq T
  <2>1. ASSUME NEW t \in Seq(Held), NEW x \in Held, t \in T PROVE Append(t, x) \in T
    <3>1. Append(t, x) \in Seq(Held)
      OBVIOUS
    <3> HIDE DEF Fits, Done
    <3> QED BY <1>3, <2>1, <3>1
  <2> HIDE DEF T
  <2> QED BY <1>2, <2>1, Acks!SequenceInduction
<1>5. Fits(answers)
  OBVIOUS
<1> QED BY <1>4, <1>5

-----------------------------------------------------------------------------
(* The inductive invariant, in six parts.                                  *)

(* 1. What the variables hold.                                             *)

ListenRequests == [type : {"listen"}, has : Node]
PutRequests    == [type : {"put"}, write : Write]
Requests       == [type : {"auth"}] \union PutRequests \union ListenRequests

AuthAnswers    == [type : {"auth"}, ok : BOOLEAN]
PutAnswers     == [type : {"put"}, id : 1..MaxWrites, ok : BOOLEAN]
DataPushes     == {m \in [type : {"data"}, kind : {"set", "child", "merge"}, value : Partial, at : Nat] :
                     m.kind = "set" => DOMAIN m.value = Keys}
ListenAnswers  == [type : {"listen"}, at : Nat]
Answers        == AuthAnswers \union PutAnswers \union DataPushes \union ListenAnswers

States == {"Disconnected", "GettingToken", "Connecting", "Authenticating", "Connected"}

Logged == [node : Node, by : Nat]

MadeType       == [writes : 0..MaxWrites, foreign : 0..MaxForeign, faults : Nat]
ServerType     == [log : Seq(Logged) \ {<<>>}, listening : BOOLEAN, due : Seq(ListenRequests)]
ConnectionType == [state : States, retrying : BOOLEAN, token : BOOLEAN, killed : BOOLEAN,
                   unacked : Int]

Typed ==
  /\ made \in MadeType /\ server \in ServerType /\ connection \in ConnectionType
  /\ toServer \in Seq(Requests) /\ toClient \in Seq(Answers)
  /\ outstandingPuts \in Seq(Write) /\ putsToAck \in Seq(Held)
  /\ allWrites \in Seq(Write) /\ visibleWrites \in Visible
  /\ observed \in BOOLEAN /\ view \in ViewType

(* 2. The connection: the count of unanswered listens is that of those on  *)
(* their way, and answers are held only while there is one.                *)
CountOf(type, seq) == Len(OfType(type, seq))

Counted ==
  /\ connection.unacked = CountOf("listen", toServer) + Len(server.due) + CountOf("listen", toClient)
  /\ CountOf("auth", toServer) + CountOf("auth", toClient)
       = IF connection.state = "Authenticating" THEN 1 ELSE 0
  /\ connection.unacked <= 2
  /\ connection.state = "Authenticating" => connection.unacked <= 1

Quiet ==
  /\ ~Connected => /\ toServer = <<>> /\ toClient = <<>> /\ server.due = <<>>
                   /\ ~server.listening
  /\ ~server.listening => CountOf("data", toClient) = 0 /\ CountOf("listen", toClient) = 0
  /\ ~observed => /\ connection.unacked = 0 /\ ~server.listening /\ putsToAck = <<>>
                  /\ view.server = [node |-> EmptyNode, complete |-> FALSE, at |-> 0]
  /\ connection.state = "Connected" /\ connection.unacked = 0 =>
       putsToAck = <<>> /\ (observed => view.server.complete /\ server.listening)
  /\ view.server.complete <=> view.server.at > 0

(* 3. The writes: those with a held answer and those without one, in the   *)
(* order they were made; once connected, the latter are on the wire.       *)
QueueOf(writes, held, waiting, n) ==
  /\ \A i, j \in 1..Len(writes) : i < j => writes[i].id < writes[j].id
  /\ \A i \in 1..Len(writes) : writes[i].id <= n
  /\ Len(writes) = Len(held) + Len(waiting)
  /\ \A i \in 1..Len(held) : writes[i].id = held[i].id
  /\ \A i \in 1..Len(waiting) : writes[Len(held) + i] = waiting[i]

Queued == QueueOf(allWrites, putsToAck, outstandingPuts, made.writes)

OnTheWire(answers, requests, waiting) ==
  /\ Len(answers) + Len(requests) = Len(waiting)
  /\ \A i \in 1..Len(answers) : answers[i].id = waiting[i].id
  /\ \A i \in 1..Len(requests) : requests[i].write = waiting[Len(answers) + i]

Wired ==
  IF CanSendWrites
  THEN OnTheWire(OfType("put", toClient), OfType("put", toServer), outstandingPuts)
  ELSE OfType("put", toClient) = <<>> /\ OfType("put", toServer) = <<>>

(* 4. What comes to the client leads it through the server's states: each  *)
(* message from the state the ones before it lead to, p[i - 1], to p[i].   *)
NodeAt(log, i) == IF i = 0 THEN EmptyNode ELSE log[i].node

Leads(log, m, from, to) ==
  /\ m.type \in {"auth", "put"} => to = from
  /\ m.type \in {"data", "listen"} => to = m.at /\ from <= to /\ to > 0
  /\ m.type = "listen" => NodeAt(log, to) = NodeAt(log, from)
  /\ m.type = "data" =>
       IF m.kind = "set" THEN NodeAt(log, to) = m.value
       ELSE from > 0 /\ to = from + 1 /\ NodeAt(log, to) = Over(m.value, NodeAt(log, from))

Path(log, messages, p) ==
  /\ p \in [0..Len(messages) -> 0..Len(log)]
  /\ \A i \in 1..Len(messages) : Leads(log, messages[i], p[i - 1], p[i])

(* An answer to a write comes when the client has been told of the write.  *)
ToldOf(log, messages, listening, p) ==
  \A i \in 1..Len(messages) : messages[i].type = "put" =>
    \A j \in 1..Len(log) : log[j].by = messages[i].id =>
      /\ \A k \in i..Len(messages) : messages[k].type = "listen" => j <= messages[k].at
      /\ j <= p[i] \/ ~listening \/ \E k \in i..Len(messages) : messages[k].type = "listen"

Chain(log, messages, listening, at, p) ==
  Path(log, messages, p) /\ p[0] = at /\ ToldOf(log, messages, listening, p)

Follows(log, messages, listening, at) ==
  \E p \in [0..Len(messages) -> 0..Len(log)] :
    /\ Chain(log, messages, listening, at, p)
    /\ listening => p[Len(messages)] = Len(log)
    /\ ~listening => \A i \in 0..Len(messages) : p[i] = at

(* The listens sent ask for what differs from what the client knows.       *)
AsksFor(requests, node) ==
  \A i \in 1..Len(requests) : requests[i].type = "listen" => requests[i].has = node

Led ==
  /\ Follows(server.log, toClient, server.listening, view.server.at)
  /\ view.server.node = NodeAt(server.log, view.server.at)
  /\ ~server.listening =>
       AsksFor(toServer, view.server.node) /\ AsksFor(server.due, view.server.node)

(* 5. The writes of the answers held back are in what the listens bring.   *)
HeldOf(log, messages, held) ==
  \A i \in 1..Len(held), k \in 1..Len(messages) : messages[k].type = "listen" =>
    \A j \in 1..Len(log) : log[j].by = held[i].id => j <= messages[k].at

MadeBefore(log, n) == \A j \in 1..Len(log) : log[j].by <= n

Kept ==
  MadeBefore(server.log, made.writes) /\ HeldOf(server.log, toClient, putsToAck)

(* 6. The view fits the server's state and the pending writes.             *)
Viewed ==
  /\ visibleWrites = layerTreeFromWrites(allWrites)
  /\ observed => Layered(view, visibleWrites)

DatabaseInv == Typed /\ Counted /\ Quiet /\ Queued /\ Wired /\ Led /\ Kept /\ Viewed

-----------------------------------------------------------------------------
(* Consequences for single states. *)

LEMMA CountOfNone == \A type : CountOf(type, <<>>) = 0
BY OfTypeOfNone DEF CountOf

LEMMA CountIsNat ==
  ASSUME NEW type, NEW S, NEW s \in Seq(S)
  PROVE  CountOf(type, s) \in Nat
BY OfTypeTyped DEF CountOf

LEMMA CountOfAppend ==
  ASSUME NEW type, NEW S, NEW s \in Seq(S), NEW m \in S
  PROVE  CountOf(type, Append(s, m)) = CountOf(type, s) + (IF m.type = type THEN 1 ELSE 0)
<1>1. OfType(type, s) \in Seq(S)
  BY OfTypeTyped
<1>2. Len(Append(OfType(type, s), m)) = Len(OfType(type, s)) + 1 /\ Len(OfType(type, s)) \in Nat
  BY <1>1
<1> QED BY <1>2, OfTypeOfAppend DEF CountOf

LEMMA CountOfConcat ==
  ASSUME NEW type, NEW S, NEW s \in Seq(S), NEW t \in Seq(S)
  PROVE  CountOf(type, s \o t) = CountOf(type, s) + CountOf(type, t)
<1>1. OfType(type, s) \in Seq(S) /\ OfType(type, t) \in Seq(S)
  BY OfTypeTyped
<1>2. Len(OfType(type, s) \o OfType(type, t)) = Len(OfType(type, s)) + Len(OfType(type, t))
  BY <1>1
<1> QED BY <1>2, OfTypeOfConcat DEF CountOf

LEMMA CountOfTail ==
  ASSUME NEW type, NEW S, NEW s \in Seq(S), s # <<>>
  PROVE  CountOf(type, s) = CountOf(type, Tail(s)) + (IF Head(s).type = type THEN 1 ELSE 0)
<1>1. Tail(s) \in Seq(S)
  OBVIOUS
<1>2. OfType(type, Tail(s)) \in Seq(S)
  BY <1>1, OfTypeTyped
<1>3. Len(<<Head(s)>> \o OfType(type, Tail(s))) = 1 + Len(OfType(type, Tail(s)))
        /\ Len(OfType(type, Tail(s))) \in Nat
  BY <1>2
<1>4. OfType(type, s) = IF Head(s).type = type THEN <<Head(s)>> \o OfType(type, Tail(s))
                                               ELSE OfType(type, Tail(s))
  BY OfTypeOfTail
<1> QED BY <1>3, <1>4 DEF CountOf

LEMMA CountIsZero ==
  ASSUME NEW type, NEW S, NEW s \in Seq(S)
  PROVE  CountOf(type, s) = 0 <=> \A i \in 1..Len(s) : s[i].type # type
<1> DEFINE o == OfType(type, s)
<1>1. o \in Seq(S)
  BY OfTypeTyped
<1>2. \A i \in 1..Len(s) : s[i].type = type => \E j \in 1..Len(o) : o[j] = s[i]
  BY OfTypeKeeps
<1>3. \A j \in 1..Len(o) : o[j].type = type /\ \E i \in 1..Len(s) : o[j] = s[i]
  BY OfTypeKeeps
<1> HIDE DEF o
<1>4. Len(o) \in Nat
  BY <1>1
<1>5. CASE Len(o) = 0
  BY <1>2, <1>5 DEF CountOf, o
<1>6. CASE Len(o) # 0
  <2>1. 1 \in 1..Len(o)
    BY <1>4, <1>6
  <2> QED BY <1>3, <1>6, <2>1 DEF CountOf, o
<1> QED BY <1>5, <1>6

LEMMA AnswerIs ==
  ASSUME NEW m \in Answers
  PROVE  /\ m.type \in {"auth", "put", "data", "listen"}
         /\ m.type = "auth" => m \in AuthAnswers /\ m.ok \in BOOLEAN
         /\ m.type = "put" => m \in PutAnswers /\ m.id \in 1..MaxWrites /\ m.ok \in BOOLEAN
         /\ m.type = "data" => /\ m \in DataPushes /\ m.kind \in {"set", "child", "merge"}
                               /\ m.value \in Partial /\ m.at \in Nat
                               /\ m.kind = "set" => DOMAIN m.value = Keys
         /\ m.type = "listen" => m \in ListenAnswers /\ m.at \in Nat
<1>1. CASE m \in AuthAnswers
  BY <1>1 DEF AuthAnswers
<1>2. CASE m \in PutAnswers
  BY <1>2 DEF PutAnswers
<1>3. CASE m \in DataPushes
  BY <1>3 DEF DataPushes
<1>4. CASE m \in ListenAnswers
  BY <1>4 DEF ListenAnswers
<1> QED BY <1>1, <1>2, <1>3, <1>4 DEF Answers

LEMMA RequestIs ==
  ASSUME NEW m \in Requests
  PROVE  /\ m.type \in {"auth", "put", "listen"}
         /\ m.type = "put" => m \in PutRequests /\ m.write \in Write
         /\ m.type = "listen" => m \in ListenRequests /\ m.has \in Node
<1>1. CASE m \in [type : {"auth"}]
  BY <1>1
<1>2. CASE m \in PutRequests
  BY <1>2 DEF PutRequests
<1>3. CASE m \in ListenRequests
  BY <1>3 DEF ListenRequests
<1> QED BY <1>1, <1>2, <1>3 DEF Requests

LEMMA RecordsAre ==
  ASSUME Typed
  PROVE  /\ connection = [state |-> connection.state, retrying |-> connection.retrying,
                          token |-> connection.token, killed |-> connection.killed,
                          unacked |-> connection.unacked]
         /\ connection.state \in States /\ connection.unacked \in Int
         /\ connection.retrying \in BOOLEAN /\ connection.token \in BOOLEAN
         /\ connection.killed \in BOOLEAN
         /\ server = [log |-> server.log, listening |-> server.listening, due |-> server.due]
         /\ server.log \in Seq(Logged) /\ server.log # <<>>
         /\ server.listening \in BOOLEAN /\ server.due \in Seq(ListenRequests)
         /\ made = [writes |-> made.writes, foreign |-> made.foreign, faults |-> made.faults]
         /\ made.writes \in 0..MaxWrites /\ made.foreign \in 0..MaxForeign /\ made.faults \in Nat
BY DEF Typed, MadeType, ServerType, ConnectionType

(* The head of what came to the client is counted.                         *)
LEMMA AnswersCounted ==
  ASSUME Typed
  PROVE  /\ \A type : CountOf(type, toServer) \in Nat /\ CountOf(type, toClient) \in Nat
         /\ Len(server.due) \in Nat
         /\ toClient # <<>> => /\ Head(toClient) \in Answers /\ Tail(toClient) \in Seq(Answers)
                               /\ \A type : CountOf(type, toClient) =
                                    CountOf(type, Tail(toClient))
                                      + (IF Head(toClient).type = type THEN 1 ELSE 0)
                               /\ \A type : CountOf(type, Tail(toClient)) \in Nat
<1>1. toServer \in Seq(Requests) /\ toClient \in Seq(Answers) /\ server.due \in Seq(ListenRequests)
  BY RecordsAre DEF Typed
<1>2. \A type : CountOf(type, toServer) \in Nat /\ CountOf(type, toClient) \in Nat
  BY <1>1, CountIsNat
<1>3. Len(server.due) \in Nat
  BY <1>1
<1>4. ASSUME toClient # <<>>
      PROVE  /\ Head(toClient) \in Answers /\ Tail(toClient) \in Seq(Answers)
             /\ \A type : CountOf(type, toClient) =
                  CountOf(type, Tail(toClient)) + (IF Head(toClient).type = type THEN 1 ELSE 0)
             /\ \A type : CountOf(type, Tail(toClient)) \in Nat
  <2>1. Head(toClient) \in Answers /\ Tail(toClient) \in Seq(Answers)
    BY <1>1, <1>4
  <2>2. \A type : CountOf(type, toClient) =
          CountOf(type, Tail(toClient)) + (IF Head(toClient).type = type THEN 1 ELSE 0)
    BY <1>1, <1>4, CountOfTail
  <2>3. \A type : CountOf(type, Tail(toClient)) \in Nat
    BY <2>1, CountIsNat
  <2> QED BY <2>1, <2>2, <2>3
<1> QED BY <1>2, <1>3, <1>4

(* The head of what came to the client says in which state the client is.  *)
LEMMA HeadIsExpected ==
  ASSUME Typed, Counted, Quiet, Wired, toClient # <<>>
  PROVE  /\ Connected
         /\ Head(toClient).type = "auth" => connection.state = "Authenticating"
         /\ Head(toClient).type = "put" =>
              /\ connection.state = "Connected"
              /\ outstandingPuts # <<>> /\ Head(toClient).id = outstandingPuts[1].id
         /\ Head(toClient).type \in {"data", "listen"} => observed /\ server.listening
         /\ Head(toClient).type = "listen" => connection.unacked > 0
<1> DEFINE m == Head(toClient)
<1>1. m \in Answers
  BY AnswersCounted
<1>2. Connected
  BY DEF Quiet
<1>3. m.type = "auth" => connection.state = "Authenticating"
  <2>1. m.type = "auth" => CountOf("auth", toClient) > 0 /\ CountOf("auth", toServer) \in Nat
    BY AnswersCounted
  <2> QED BY <2>1, AnswersCounted DEF Counted
<1>4. ASSUME m.type = "put"
      PROVE  /\ connection.state = "Connected"
             /\ outstandingPuts # <<>> /\ m.id = outstandingPuts[1].id
  <2> DEFINE answers  == OfType("put", toClient)
             requests == OfType("put", toServer)
  <2>1. answers = <<m>> \o OfType("put", Tail(toClient))
    BY <1>4, OfTypeOfTail DEF Typed
  <2>2. OfType("put", Tail(toClient)) \in Seq(Answers) /\ requests \in Seq(Requests)
    BY AnswersCounted, OfTypeTyped DEF Typed
  <2>3. outstandingPuts \in Seq(Write)
    BY DEF Typed
  <2>4. IF CanSendWrites THEN OnTheWire(answers, requests, outstandingPuts)
        ELSE answers = <<>> /\ requests = <<>>
    BY DEF Wired
  <2> HIDE DEF answers, requests, m
  <2>5. answers # <<>> /\ answers[1] = m /\ 1 \in 1..Len(answers) /\ Len(answers) \in Nat \ {0}
          /\ Len(requests) \in Nat
    BY <2>1, <2>2
  <2>6. CanSendWrites
    BY <2>4, <2>5 DEF OnTheWire
  <2>7. Len(answers) + Len(requests) = Len(outstandingPuts) /\ answers[1].id = outstandingPuts[1].id
    BY <2>4, <2>5, <2>6 DEF OnTheWire
  <2> QED BY <2>3, <2>5, <2>6, <2>7 DEF CanSendWrites
<1>5. m.type \in {"data", "listen"} => observed /\ server.listening
  <2>1. m.type \in {"data", "listen"} =>
          CountOf("data", toClient) > 0 \/ CountOf("listen", toClient) > 0
    BY AnswersCounted
  <2> QED BY <2>1 DEF Quiet
<1>6. m.type = "listen" => connection.unacked > 0
  <2>1. m.type = "listen" => CountOf("listen", toClient) > 0
    BY AnswersCounted
  <2> QED BY <2>1, AnswersCounted DEF Counted
<1> QED BY <1>2, <1>3, <1>4, <1>5, <1>6

(* What an answer to a write does.                                         *)
LEMMA PutAnsweredDoes ==
  ASSUME DatabaseInv, PutAnswered
  PROVE  LET answer == [id |-> Head(toClient).id, ok |-> Head(toClient).ok] IN
         /\ answer \in Held /\ outstandingPuts # <<>> /\ answer.id = outstandingPuts[1].id
         /\ connection.state = "Connected"
         /\ outstandingPuts' = Tail(outstandingPuts)
         /\ IF connection.unacked = 0
            THEN /\ putsToAck = <<>> /\ putsToAck' = <<>>
                 /\ allWrites # <<>> /\ allWrites' = Tail(allWrites)
                 /\ visibleWrites' = layerTreeFromWrites(allWrites')
                 /\ view' \in ViewType /\ view'.server = view.server
                 /\ observed => Layered(view', visibleWrites')
            ELSE putsToAck' = Append(putsToAck, answer) /\ UNCHANGED <<allWrites, visibleWrites, view>>
<1> DEFINE answer == [id |-> Head(toClient).id, ok |-> Head(toClient).ok]
           state  == [writes |-> allWrites, visible |-> visibleWrites, view |-> view]
           after  == AckedAll(state, <<answer>>)
<1> USE DEF DatabaseInv
<1>1. toClient # <<>> /\ Head(toClient).type = "put"
  BY DEF PutAnswered
<1>2. Head(toClient) \in Answers
  BY <1>1, AnswersCounted
<1>3. answer \in Held
  BY <1>1, <1>2, AnswerIs DEF Held
<1>4. connection.state = "Connected" /\ outstandingPuts # <<>> /\ answer.id = outstandingPuts[1].id
  BY <1>1, HeadIsExpected
<1>5. outstandingPuts \in Seq(Write) /\ allWrites \in Seq(Write) /\ visibleWrites \in Visible
        /\ view \in ViewType /\ observed \in BOOLEAN
  BY DEF Typed
<1>6. outstandingPuts' = Tail(outstandingPuts)
  <2>1. outstandingPuts' = RemoveFirstMatch(outstandingPuts, LAMBDA w : w.id = answer.id)
    BY DEF PutAnswered
  <2> HIDE DEF answer
  <2>2. Places(outstandingPuts, answer.id) # {} /\ Min(Places(outstandingPuts, answer.id)) = 1
    BY <1>4, <1>5, FirstPlace
  <2>3. SelectInSeq(outstandingPuts, LAMBDA w : w.id = answer.id) = 1
    BY <2>2 DEF SelectInSeq, Places
  <2>4. \E i \in 1..Len(outstandingPuts) : outstandingPuts[i].id = answer.id
    BY <2>2 DEF Places
  <2>5. RemoveAt(outstandingPuts, 1) = Tail(outstandingPuts)
    BY <1>4, <1>5, FirstIsRemoved
  <2> QED BY <2>1, <2>3, <2>4, <2>5 DEF RemoveFirstMatch
<1>7. CASE connection.unacked = 0
  <2>1. putsToAck = <<>> /\ (observed => view.server.complete)
    BY <1>4, <1>7 DEF Quiet
  <2>2. Len(allWrites) = Len(outstandingPuts) /\ allWrites[1] = outstandingPuts[1] /\ allWrites # <<>>
    BY <1>4, <1>5, <2>1 DEF Queued, QueueOf
  <2>3. Coherent(state)
    BY <1>5, <2>1 DEF Viewed, Coherent
  <2>4. OldestAcked(after, state, 1)
    <3>1. <<answer>> \in Seq(Held) /\ Len(<<answer>>) = 1 /\ \A i \in 1..1 : <<answer>>[i] = answer /\ i = 1
      BY <1>3
    <3>2. Len(<<answer>>) <= Len(state.writes)
            /\ \A i \in 1..Len(<<answer>>) : <<answer>>[i].id = state.writes[i].id
      BY <1>4, <1>5, <2>2, <3>1
    <3> HIDE DEF state, answer
    <3> QED BY <1>5, <2>3, <3>1, <3>2, AckedOldestOnes
  <2>5. SubSeq(allWrites, 1 + 1, Len(allWrites)) = Tail(allWrites)
    BY <1>5, <2>2
  <2>6. allWrites' = after.writes /\ visibleWrites' = after.visible /\ view' = after.view
          /\ putsToAck' = putsToAck
    BY <1>7 DEF PutAnswered, Acknowledge, AckedAll
  <2>7. /\ after.writes = Tail(allWrites) /\ after.view.server = view.server
        /\ after.visible = layerTreeFromWrites(after.writes) /\ after.view \in ViewType
        /\ observed => Layered(after.view, after.visible)
    BY <2>4, <2>5 DEF OldestAcked, Coherent
  <2> HIDE DEF after, state, answer
  <2> QED BY <1>3, <1>4, <1>6, <1>7, <2>1, <2>2, <2>6, <2>7 DEF answer
<1>8. CASE connection.unacked # 0
  BY <1>3, <1>4, <1>6, <1>8 DEF PutAnswered, tree
<1> QED BY <1>7, <1>8

(* What the answer to a listen does.                                       *)
ListenAcks == IF connection.unacked = 1 THEN Len(putsToAck) ELSE 0

LEMMA ListenAnsweredDoes ==
  ASSUME DatabaseInv, ListenAnswered
  PROVE  /\ observed /\ server.listening /\ connection.unacked > 0
         /\ ListenAcks \in 0..Len(allWrites)
         /\ allWrites' = SubSeq(allWrites, ListenAcks + 1, Len(allWrites))
         /\ putsToAck' = (IF connection.unacked = 1 THEN <<>> ELSE putsToAck)
         /\ visibleWrites' = layerTreeFromWrites(allWrites')
         /\ view' \in ViewType
         /\ view'.server = [node |-> view.server.node, complete |-> TRUE, at |-> Head(toClient).at]
         /\ Layered(view', visibleWrites')
<1> DEFINE v     == listenComplete(view, visibleWrites, Head(toClient).at)
           state == [writes |-> allWrites, visible |-> visibleWrites, view |-> v]
           after == AckedAll(state, putsToAck)
           told  == [node |-> view.server.node, complete |-> TRUE, at |-> Head(toClient).at]
<1> USE DEF DatabaseInv
<1>1. toClient # <<>> /\ Head(toClient).type = "listen"
  BY DEF ListenAnswered
<1>2. Head(toClient).at \in Nat
  BY <1>1, AnswersCounted, AnswerIs
<1>3. observed /\ server.listening /\ connection.unacked > 0
  BY <1>1, HeadIsExpected
<1>4. /\ allWrites \in Seq(Write) /\ visibleWrites \in Visible /\ view \in ViewType
      /\ putsToAck \in Seq(Held) /\ outstandingPuts \in Seq(Write)
  BY DEF Typed
<1>5. visibleWrites = layerTreeFromWrites(allWrites) /\ Layered(view, visibleWrites)
  BY <1>3 DEF Viewed
<1>6. visibleWrites.root => DOMAIN visibleWrites.at = Keys
  BY <1>4, <1>5, RootCovers
<1>7. v \in ViewType /\ Layered(v, visibleWrites) /\ v.server = told
  BY <1>2, <1>4, <1>5, <1>6, ViewAfterListen
<1>8. /\ Len(allWrites) = Len(putsToAck) + Len(outstandingPuts)
      /\ Len(putsToAck) \in Nat /\ Len(outstandingPuts) \in Nat /\ Len(allWrites) \in Nat
      /\ \A i \in 1..Len(putsToAck) : putsToAck[i].id = allWrites[i].id
  BY <1>4 DEF Queued, QueueOf
<1>9. ListenAcks \in 0..Len(allWrites)
  BY <1>8 DEF ListenAcks
<1>10. CASE connection.unacked = 1
  <2>1. Coherent(state)
    <3> HIDE DEF v
    <3> QED BY <1>4, <1>5, <1>7 DEF Coherent
  <2>2. OldestAcked(after, state, Len(putsToAck))
    <3>1. Len(putsToAck) <= Len(state.writes)
            /\ \A i \in 1..Len(putsToAck) : putsToAck[i].id = state.writes[i].id
      BY <1>8
    <3> HIDE DEF state
    <3> QED BY <1>3, <1>4, <2>1, <3>1, AckedOldestOnes
  <2>3. allWrites' = after.writes /\ visibleWrites' = after.visible /\ view' = after.view
          /\ putsToAck' = <<>>
    BY <1>10 DEF ListenAnswered, Acknowledge, AckedAll
  <2>4. state.writes = allWrites /\ state.view.server = told
    BY <1>7
  <2> HIDE DEF after, state
  <2>5. /\ after.writes = SubSeq(allWrites, Len(putsToAck) + 1, Len(allWrites))
        /\ after.view.server = told
        /\ after.visible = layerTreeFromWrites(after.writes) /\ after.view \in ViewType
        /\ Layered(after.view, after.visible)
    BY <1>3, <2>2, <2>4 DEF OldestAcked, Coherent
  <2> QED BY <1>3, <1>9, <1>10, <2>3, <2>5 DEF ListenAcks
<1>11. CASE connection.unacked # 1
  <2>1. view' = v /\ putsToAck' = putsToAck /\ allWrites' = allWrites /\ visibleWrites' = visibleWrites
    BY <1>11 DEF ListenAnswered, tree
  <2>2. SubSeq(allWrites, 0 + 1, Len(allWrites)) = allWrites
    BY <1>4
  <2> HIDE DEF v
  <2> QED BY <1>3, <1>5, <1>7, <1>9, <1>11, <2>1, <2>2 DEF ListenAcks
<1> QED BY <1>10, <1>11

(* What an update does.                                                    *)
LEMMA DataPushedDoes ==
  ASSUME DatabaseInv, DataPushed
  PROVE  LET data == Head(toClient) IN
         /\ observed /\ server.listening
         /\ data \in DataPushes
         /\ view' \in ViewType /\ Layered(view', visibleWrites)
         /\ IF data.kind = "merge" /\ ~view.server.complete /\ view.server.node = EmptyNode
            THEN view' = view
            ELSE view'.server = [node |-> Over(data.value, view.server.node),
                                 complete |-> view.server.complete \/ data.kind = "set",
                                 at |-> data.at]
<1> DEFINE data == Head(toClient)
<1> USE DEF DatabaseInv
<1>1. toClient # <<>> /\ data.type = "data"
  BY DEF DataPushed
<1>2. /\ data \in DataPushes /\ data.kind \in {"set", "child", "merge"} /\ data.value \in Partial
      /\ data.at \in Nat /\ (data.kind = "set" => DOMAIN data.value = Keys)
  BY <1>1, AnswersCounted, AnswerIs
<1>3. observed /\ server.listening
  BY <1>1, HeadIsExpected
<1>4. allWrites \in Seq(Write) /\ visibleWrites \in Visible /\ view \in ViewType
  BY DEF Typed
<1>5. visibleWrites = layerTreeFromWrites(allWrites) /\ Layered(view, visibleWrites)
  BY <1>3 DEF Viewed
<1>6. visibleWrites.root => DOMAIN visibleWrites.at = Keys
  BY <1>4, <1>5, RootCovers
<1>7. view' = applyServerUpdate(view, visibleWrites, data)
  BY <1>3 DEF DataPushed, Updated
<1> DEFINE kind == data.kind
           value == data.value
<1> HIDE DEF data, kind, value
<1>8. data.kind = kind /\ data.value = value /\ kind \in {"set", "child", "merge"}
        /\ value \in Partial /\ (kind = "set" => DOMAIN value = Keys)
  BY <1>2 DEF kind, value
<1>9. /\ view' \in ViewType /\ Layered(view', visibleWrites)
      /\ IF kind = "merge" /\ ~view.server.complete /\ view.server.node = EmptyNode THEN view' = view
         ELSE view'.server = [node |-> Over(value, view.server.node),
                              complete |-> view.server.complete \/ kind = "set",
                              at |-> data.at]
  BY <1>2, <1>4, <1>5, <1>6, <1>7, <1>8, ViewAfterData
<1> QED BY <1>2, <1>3, <1>9 DEF data, kind, value

-----------------------------------------------------------------------------
(* Part 1 is kept. *)

LEMMA FaultIs ==
  ASSUME Typed, Fault
  PROVE  made' = [writes |-> made.writes, foreign |-> made.foreign, faults |-> made.faults + 1]
BY RecordsAre DEF Fault

LEMMA HangupIs ==
  ASSUME Typed, NEW killed \in BOOLEAN, Hangup(killed)
  PROVE  /\ connection' = [state |-> "Disconnected", retrying |-> ~killed, token |-> connection.token,
                           killed |-> killed, unacked |-> 0]
         /\ server' = [log |-> server.log, listening |-> FALSE, due |-> <<>>]
         /\ toServer' = <<>> /\ toClient' = <<>>
BY RecordsAre DEF Hangup

LEMMA RestoredTyped ==
  ASSUME Typed
  PROVE  Restored \in Seq(Requests)
<1> DEFINE listens  == IF observed THEN <<ListenRequest>> ELSE <<>>
           requests == [i \in 1..Len(outstandingPuts) |-> PutRequest(outstandingPuts[i])]
<1>1. view.server.node \in Node
  BY ViewIs DEF Typed
<1>2. ListenRequest \in Requests
  BY <1>1 DEF ListenRequest, Requests, ListenRequests
<1>3. listens \in Seq(Requests)
  BY <1>2
<1>4. outstandingPuts \in Seq(Write)
  BY DEF Typed
<1>5. \A i \in 1..Len(outstandingPuts) : PutRequest(outstandingPuts[i]) \in Requests
  BY <1>4 DEF PutRequest, Requests, PutRequests
<1>6. requests \in Seq(Requests)
  BY <1>4, <1>5
<1> HIDE DEF listens, requests
<1>7. listens \o requests \in Seq(Requests)
  BY <1>3, <1>6
<1> QED BY <1>7 DEF Restored, listens, requests

LEMMA RestoreIs ==
  ASSUME Typed, restoreState
  PROVE  /\ connection' = [state |-> "Connected", retrying |-> connection.retrying,
                           token |-> connection.token, killed |-> connection.killed,
                           unacked |-> connection.unacked + (IF observed THEN 1 ELSE 0)]
         /\ toServer' = toServer \o Restored
BY RecordsAre DEF restoreState

LEMMA StoredIsNode ==
  ASSUME Typed
  PROVE  /\ Stored \in Node /\ Len(server.log) \in Nat \ {0}
         /\ Stored = server.log[Len(server.log)].node
<1> DEFINE log == server.log
<1>1. log \in Seq(Logged) /\ log # <<>>
  BY RecordsAre
<1>2. \A state \in Logged : state.node \in Node
  BY DEF Logged
<1> HIDE DEF log
<1>3. Len(log) \in Nat \ {0}
  BY <1>1
<1>4. log[Len(log)] \in Logged
  BY <1>1, <1>3
<1>5. Last(log) = log[Len(log)]
  BY DEF Last
<1> QED BY <1>2, <1>3, <1>4, <1>5 DEF Stored, log

(* What the server commits and tells.                                      *)
NewState(value, by)  == [node |-> Over(value, Stored), by |-> by]
Push(kind, value)    == [type |-> "data", kind |-> kind, value |-> value, at |-> Len(server.log) + 1]
Pushed(kind, value)  == IF server.listening THEN <<Push(kind, value)>> ELSE <<>>
Commits(value, by)   == server' = [log |-> Append(server.log, NewState(value, by)),
                                   listening |-> server.listening, due |-> server.due]
Told                 == [type |-> "listen", at |-> Len(server.log)]
Fetched              == [type |-> "data", kind |-> "set", value |-> Stored, at |-> Len(server.log)]
Brought              == IF Stored = Head(server.due).has THEN <<>> ELSE <<Fetched>>
WriteAnswer(id, ok)  == [type |-> "put", id |-> id, ok |-> ok]

Change(kind, value) ==
  /\ kind \in {"set", "child", "merge"} /\ value \in Partial
  /\ kind = "set" => DOMAIN value = Keys

LEMMA ServersAre ==
  ASSUME NEW log \in Seq(Logged), log # <<>>, NEW listening \in BOOLEAN,
         NEW due \in Seq(ListenRequests)
  PROVE  [log |-> log, listening |-> listening, due |-> due] \in ServerType
BY DEF ServerType

LEMMA TailTyped == \A S : \A s \in Seq(S) : s # <<>> => Tail(s) \in Seq(S)
OBVIOUS

LEMMA AppendTyped == \A S : \A s \in Seq(S) : \A m \in S : Append(s, m) \in Seq(S)
OBVIOUS

LEMMA ConcatTyped == \A S : \A s, t \in Seq(S) : s \o t \in Seq(S)
OBVIOUS

LEMMA OneTyped == \A S : \A m \in S : <<m>> \in Seq(S)
OBVIOUS

LEMMA OneMore == \A S : \A s \in Seq(S) : \A m \in S : s \o <<m>> = Append(s, m)
OBVIOUS

LEMMA NoneTyped == \A S : <<>> \in Seq(S)
OBVIOUS

LEMMA AnswersAre ==
  /\ \A ok \in BOOLEAN : [type |-> "auth", ok |-> ok] \in Answers
  /\ \A id \in 1..MaxWrites : \A ok \in BOOLEAN : WriteAnswer(id, ok) \in Answers
  /\ \A at \in Nat : [type |-> "listen", at |-> at] \in Answers
BY DEF Answers, AuthAnswers, PutAnswers, ListenAnswers, WriteAnswer

LEMMA CommitTyped ==
  ASSUME Typed, NEW kind, NEW value, Change(kind, value), NEW by \in Nat
  PROVE  /\ NewState(value, by) \in Logged
         /\ Push(kind, value) \in Answers
         /\ Pushed(kind, value) \in Seq(Answers)
         /\ Commits(value, by) => server' \in ServerType
<1>1. server.log \in Seq(Logged) /\ Len(server.log) \in Nat /\ Stored \in Node
  BY RecordsAre, StoredIsNode
<1>2. value \in Partial
  BY DEF Change
<1>3. NewState(value, by) \in Logged
  BY <1>1, <1>2, OverNode DEF Logged, NewState
<1>4. Push(kind, value) \in Answers
  BY <1>1 DEF Answers, DataPushes, Push, Change
<1>5. Pushed(kind, value) \in Seq(Answers)
  BY <1>4, OneTyped, NoneTyped DEF Pushed
<1>6. ASSUME Commits(value, by) PROVE server' \in ServerType
  <2> DEFINE log == Append(server.log, NewState(value, by))
  <2>1. log \in Seq(Logged) /\ log # <<>>
    BY <1>1, <1>3
  <2>2. server' = [log |-> log, listening |-> server.listening, due |-> server.due]
    BY <1>6 DEF Commits
  <2> HIDE DEF log
  <2> QED BY <2>1, <2>2, RecordsAre, ServersAre
<1> QED BY <1>3, <1>4, <1>5, <1>6

LEMMA CommitIs ==
  ASSUME Typed, NEW kind, NEW value, NEW by
  PROVE  LET c == Commit(kind, value, by) IN
         /\ c.log = Append(server.log, NewState(value, by))
         /\ c.push = Pushed(kind, value)
<1>1. server.log \in Seq(Logged)
  BY RecordsAre
<1>2. Len(Append(server.log, NewState(value, by))) = Len(server.log) + 1
  BY <1>1
<1> QED BY <1>2 DEF Commit, NewState, Pushed, Push

LEMMA ServerTakesDoes ==
  ASSUME Typed, NEW type, ServerTakes(type)
  PROVE  /\ toServer # <<>> /\ Head(toServer) \in Requests /\ Head(toServer).type = type
         /\ toServer' = Tail(toServer) /\ toServer' \in Seq(Requests)
<1>1. toServer \in Seq(Requests)
  BY DEF Typed
<1>2. toServer # <<>> /\ Head(toServer).type = type /\ toServer' = Tail(toServer)
  BY DEF ServerTakes
<1> QED BY <1>1, <1>2

LEMMA LogReplaced ==
  ASSUME Typed, NEW log, server' = [server EXCEPT !.log = log]
  PROVE  server' = [log |-> log, listening |-> server.listening, due |-> server.due]
BY RecordsAre

LEMMA HandlePutDoes ==
  ASSUME Typed, HandlePut
  PROVE  LET w == Head(toServer).write IN
         /\ toServer # <<>> /\ Head(toServer).type = "put" /\ toServer' = Tail(toServer)
         /\ w \in Write /\ Change(w.kind, w.value) /\ w.id \in 1..MaxWrites
         /\ \/ /\ Commits(w.value, w.id)
               /\ toClient' = toClient \o Pushed(w.kind, w.value) \o <<WriteAnswer(w.id, TRUE)>>
            \/ /\ server' = server
               /\ toClient' = Append(toClient, WriteAnswer(w.id, FALSE))
         /\ UNCHANGED <<connection, puts, tree, observed, view, made>>
<1> DEFINE w == Head(toServer).write
           c == Commit(w.kind, w.value, w.id)
<1>1. toServer # <<>> /\ Head(toServer) \in Requests /\ Head(toServer).type = "put"
        /\ toServer' = Tail(toServer)
  BY ServerTakesDoes, Zenon DEF HandlePut
<1>2. w \in Write
  BY <1>1, RequestIs
<1>3. Change(w.kind, w.value) /\ w.id \in 1..MaxWrites
  BY <1>2, WriteTyped DEF Change
<1>4. \/ /\ server' = [server EXCEPT !.log = c.log]
         /\ toClient' = toClient \o c.push \o <<WriteAnswer(w.id, TRUE)>>
      \/ /\ server' = server
         /\ toClient' = Append(toClient, WriteAnswer(w.id, FALSE))
  BY Zenon DEF HandlePut, WriteAnswer
<1>5. c.log = Append(server.log, NewState(w.value, w.id)) /\ c.push = Pushed(w.kind, w.value)
  <2> HIDE DEF w
  <2> QED BY CommitIs
<1> HIDE DEF c
<1>6. server' = [server EXCEPT !.log = c.log] => Commits(w.value, w.id)
  BY <1>5, LogReplaced DEF Commits
<1>7. UNCHANGED <<connection, puts, tree, observed, view, made>>
  BY Zenon DEF HandlePut
<1> HIDE DEF w
<1> QED BY <1>1, <1>2, <1>3, <1>4, <1>5, <1>6, <1>7, Zenon DEF w

LEMMA HandlePutCommits ==
  ASSUME Typed, HandlePut
  PROVE  /\ server'.due = server.due /\ server'.listening = server.listening
         /\ \/ server'.log = server.log
            \/ server'.log = Append(server.log, NewState(Head(toServer).write.value,
                                                         Head(toServer).write.id))
<1> DEFINE w == Head(toServer).write
<1>1. server' = server \/ Commits(w.value, w.id)
  BY HandlePutDoes
<1>2. ASSUME Commits(w.value, w.id)
      PROVE  /\ server'.due = server.due /\ server'.listening = server.listening
             /\ server'.log = Append(server.log, NewState(w.value, w.id))
  <2> HIDE DEF w
  <2> QED BY <1>2 DEF Commits
<1> QED BY <1>1, <1>2

LEMMA ForeignWriteDoes ==
  ASSUME Typed, ForeignWrite
  PROVE  \E kind, value :
           /\ Change(kind, value)
           /\ Commits(value, 0)
           /\ toClient' = toClient \o Pushed(kind, value)
           /\ made' \in MadeType /\ made'.writes = made.writes
           /\ UNCHANGED <<toServer, connection, puts, tree, observed, view>>
<1>1. PICK shape \in WriteShapes :
        LET c == Commit(shape.kind, [k \in shape.keys |-> 0 - made'.foreign], 0) IN
        server' = [server EXCEPT !.log = c.log] /\ toClient' = toClient \o c.push
  BY DEF ForeignWrite
<1> DEFINE value == [k \in shape.keys |-> 0 - made'.foreign]
           kind  == shape.kind
<1>2. MaxForeign \in Nat /\ MaxWrites \in Nat /\ shape \in Shapes
  BY DatabaseValuesAssumption
<1>3. made' = [writes |-> made.writes, foreign |-> made.foreign + 1, faults |-> made.faults]
  BY RecordsAre DEF ForeignWrite
<1>4. made.foreign + 1 \in 0..MaxForeign
  BY <1>2, RecordsAre DEF ForeignWrite
<1>5. made' \in MadeType /\ made'.writes = made.writes
  BY <1>3, <1>4, RecordsAre DEF MadeType
<1>6. 0 - made'.foreign \in Values
  BY <1>2, <1>3, <1>4 DEF Values
<1>7. kind \in {"set", "child", "merge"} /\ shape.keys \subseteq Keys
        /\ (kind = "set" => shape.keys = Keys)
  BY <1>2 DEF Shapes
<1>8. Change(kind, value)
  BY <1>6, <1>7, PartialIs DEF Change
<1>9. server' = [server EXCEPT !.log = Commit(kind, value, 0).log]
        /\ toClient' = toClient \o Commit(kind, value, 0).push
  BY <1>1
<1> HIDE DEF kind, value
<1>10. Commits(value, 0) /\ toClient' = toClient \o Pushed(kind, value)
  <2>1. Commit(kind, value, 0).log = Append(server.log, NewState(value, 0))
          /\ Commit(kind, value, 0).push = Pushed(kind, value)
    BY CommitIs
  <2>2. server' = [server EXCEPT !.log = Append(server.log, NewState(value, 0))]
    BY <1>9, <2>1, Zenon
  <2>3. toClient' = toClient \o Pushed(kind, value)
    BY <1>9, <2>1, Zenon
  <2> QED BY <2>2, <2>3, LogReplaced DEF Commits
<1>11. UNCHANGED <<toServer, connection, puts, tree, observed, view>>
  BY DEF ForeignWrite
<1> QED BY <1>5, <1>8, <1>10, <1>11

LEMMA AnswerListenDoes ==
  ASSUME Typed, AnswerListen
  PROVE  /\ server.due # <<>> /\ Head(server.due) \in ListenRequests
         /\ toClient' = toClient \o Brought \o <<Told>>
         /\ server' = [log |-> server.log, listening |-> TRUE, due |-> Tail(server.due)]
         /\ server' \in ServerType
         /\ Brought \in Seq(Answers) /\ Fetched \in Answers /\ Told \in Answers
         /\ UNCHANGED <<toServer, connection, puts, tree, observed, view, made>>
<1>1. server.due # <<>> /\ server.due \in Seq(ListenRequests)
  BY RecordsAre DEF AnswerListen
<1>2. Head(server.due) \in ListenRequests /\ Tail(server.due) \in Seq(ListenRequests)
  BY <1>1
<1>3. server' = [log |-> server.log, listening |-> TRUE, due |-> Tail(server.due)]
  BY RecordsAre DEF AnswerListen
<1>4. server' \in ServerType
  BY <1>2, <1>3, RecordsAre, ServersAre
<1>5. Stored \in Node /\ Len(server.log) \in Nat
  BY StoredIsNode
<1>6. Fetched \in Answers
  BY <1>5, NodeIsPartial DEF Answers, DataPushes, Fetched
<1>7. Told \in Answers
  BY <1>5, AnswersAre DEF Told
<1>8. Brought \in Seq(Answers)
  BY <1>6, OneTyped, NoneTyped DEF Brought
<1>9. toClient' = toClient \o Brought \o <<Told>>
  BY DEF AnswerListen, Brought, Told, Fetched
<1>10. UNCHANGED <<toServer, connection, puts, tree, observed, view, made>>
  BY DEF AnswerListen
<1> QED BY <1>1, <1>2, <1>3, <1>4, <1>6, <1>7, <1>8, <1>9, <1>10

LEMMA HandleListenDoes ==
  ASSUME Typed, HandleListen
  PROVE  /\ toServer # <<>> /\ Head(toServer).type = "listen" /\ toServer' = Tail(toServer)
         /\ Head(toServer) \in ListenRequests
         /\ server' = [log |-> server.log, listening |-> server.listening,
                       due |-> Append(server.due, Head(toServer))]
         /\ server' \in ServerType
         /\ UNCHANGED <<toClient, connection, puts, tree, observed, view, made>>
<1>1. toServer # <<>> /\ Head(toServer) \in Requests /\ Head(toServer).type = "listen"
        /\ toServer' = Tail(toServer)
  BY ServerTakesDoes DEF HandleListen
<1>2. Head(toServer) \in ListenRequests
  BY <1>1, RequestIs
<1>3. server' = [log |-> server.log, listening |-> server.listening,
                 due |-> Append(server.due, Head(toServer))]
  BY RecordsAre DEF HandleListen
<1>4. Append(server.due, Head(toServer)) \in Seq(ListenRequests)
  BY <1>2, RecordsAre, AppendTyped
<1>5. server' \in ServerType
  BY <1>3, <1>4, RecordsAre, ServersAre
<1>6. UNCHANGED <<toClient, connection, puts, tree, observed, view, made>>
  BY DEF HandleListen
<1> QED BY <1>1, <1>2, <1>3, <1>5, <1>6

LEMMA WriteDataIs ==
  ASSUME Typed, made.writes < MaxWrites, made' = [made EXCEPT !.writes = @ + 1],
         NEW w \in Writes(made.writes + 1)
  PROVE  /\ made.writes + 1 \in 1..MaxWrites
         /\ made' = [writes |-> made.writes + 1, foreign |-> made.foreign, faults |-> made.faults]
         /\ w \in Write /\ w.id = made.writes + 1
         /\ PutRequest(w) \in Requests
<1>1. made.writes + 1 \in 1..MaxWrites
  <2> DEFINE writes == made.writes
  <2>1. writes \in 0..MaxWrites /\ MaxWrites \in Nat /\ writes < MaxWrites
    BY RecordsAre, DatabaseValuesAssumption
  <2> HIDE DEF writes
  <2>2. writes + 1 \in 1..MaxWrites
    BY <2>1
  <2> QED BY <2>2 DEF writes
<1>2. made' = [writes |-> made.writes + 1, foreign |-> made.foreign, faults |-> made.faults]
  BY RecordsAre
<1>3. w \in Write /\ w.id = made.writes + 1
  BY <1>1, WriteIs
<1>4. PutRequest(w) \in Requests
  BY <1>3 DEF PutRequest, Requests, PutRequests
<1> QED BY <1>1, <1>2, <1>3, <1>4

LEMMA TypedAtFirst == Init => Typed
<1> SUFFICES ASSUME Init PROVE Typed
  OBVIOUS
<1>1. EmptyNode \in Node
  BY EmptyNodeIsNode
<1>2. EmptyWrite \in Visible /\ view \in ViewType
  BY EmptyWriteIsVisible, FreshViewIs DEF Init
<1>3. made \in MadeType
  BY DatabaseValuesAssumption DEF Init, MadeType
<1>4. server \in ServerType
  BY <1>1 DEF Init, ServerType, Logged
<1>5. connection \in ConnectionType
  BY DEF Init, Idle, States, ConnectionType
<1>6. <<>> \in Seq(Requests) /\ <<>> \in Seq(Answers) /\ <<>> \in Seq(Write) /\ <<>> \in Seq(Held)
  OBVIOUS
<1> QED BY <1>2, <1>3, <1>4, <1>5, <1>6 DEF Init, Typed

(* The steps, by what they do to the connection.                           *)
Waits     == RetryFires \/ TokenFetched \/ TokenFails
Loses     == ConnectionLost \/ Killed \/ (AuthAnswered /\ ~Head(toClient).ok)
SendsAuth == Ready /\ connection.token
Restores  == (Ready /\ ~connection.token) \/ (AuthAnswered /\ Head(toClient).ok)

LEMMA StepsAre ==
  [Next]_vars =>
    \/ WriteData \/ Observe \/ Waits \/ Loses \/ EndProcess \/ SendsAuth \/ Restores
    \/ PutAnswered \/ ListenAnswered \/ DataPushed
    \/ HandleAuth \/ HandlePut \/ HandleListen \/ AnswerListen \/ ForeignWrite
    \/ UNCHANGED vars
BY DEF Next, Calls, Faults, ClientStep, ServerStep, Waits, Loses, SendsAuth, Restores

LEMMA ConnectionsAre ==
  ASSUME NEW state \in States, NEW retrying \in BOOLEAN, NEW token \in BOOLEAN,
         NEW killed \in BOOLEAN, NEW unacked \in Int
  PROVE  [state |-> state, retrying |-> retrying, token |-> token, killed |-> killed,
          unacked |-> unacked] \in ConnectionType
BY DEF ConnectionType

LEMMA FaultDoes ==
  ASSUME Typed, Fault
  PROVE  made' \in MadeType /\ made'.writes = made.writes
<1>1. made' = [writes |-> made.writes, foreign |-> made.foreign, faults |-> made.faults + 1]
  BY FaultIs
<1> QED BY <1>1, RecordsAre DEF MadeType

LEMMA WaitsDoes ==
  ASSUME Typed, Waits
  PROVE  /\ connection' \in ConnectionType /\ connection'.unacked = connection.unacked
         /\ ~Connected /\ ~Connected'
         /\ made' \in MadeType /\ made'.writes = made.writes
         /\ UNCHANGED <<server, wire, puts, tree, observed, view>>
<1>1. CASE RetryFires
  <2>1. connection' = [state |-> "GettingToken", retrying |-> FALSE, token |-> connection.token,
                       killed |-> connection.killed, unacked |-> connection.unacked]
    BY <1>1, RecordsAre DEF RetryFires
  <2>2. "GettingToken" \in States
    BY DEF States
  <2>3. connection' \in ConnectionType
    BY <2>1, <2>2, RecordsAre, ConnectionsAre
  <2>4. connection.state = "Disconnected" /\ connection'.state = "GettingToken"
          /\ connection'.unacked = connection.unacked
    BY <1>1, <2>1 DEF RetryFires
  <2> QED BY <1>1, <2>3, <2>4 DEF RetryFires, Connected, Typed
<1>2. CASE TokenFetched
  <2>1. PICK token \in BOOLEAN :
          connection' = [connection EXCEPT !.state = "Connecting", !.token = token]
    BY <1>2 DEF TokenFetched
  <2>2. connection' = [state |-> "Connecting", retrying |-> connection.retrying, token |-> token,
                       killed |-> connection.killed, unacked |-> connection.unacked]
    BY <2>1, RecordsAre
  <2>3. "Connecting" \in States
    BY DEF States
  <2> QED BY <1>2, <2>2, <2>3, RecordsAre, ConnectionsAre DEF TokenFetched, Connected, Typed
<1>3. CASE TokenFails
  <2>1. connection' = [state |-> "Disconnected", retrying |-> TRUE, token |-> connection.token,
                       killed |-> connection.killed, unacked |-> connection.unacked]
    BY <1>3, RecordsAre DEF TokenFails
  <2>2. "Disconnected" \in States
    BY DEF States
  <2>3. connection' \in ConnectionType
    BY <2>1, <2>2, RecordsAre, ConnectionsAre
  <2>4. connection.state = "GettingToken" /\ connection'.state = "Disconnected"
          /\ connection'.unacked = connection.unacked
    BY <1>3, <2>1 DEF TokenFails
  <2>5. made' \in MadeType /\ made'.writes = made.writes
    BY <1>3, FaultDoes DEF TokenFails
  <2> QED BY <1>3, <2>3, <2>4, <2>5 DEF TokenFails, Connected
<1> QED BY <1>1, <1>2, <1>3 DEF Waits

LEMMA LosesDoes ==
  ASSUME Typed, Loses
  PROVE  /\ connection' \in ConnectionType /\ connection'.unacked = 0
         /\ connection'.state = "Disconnected"
         /\ server' = [log |-> server.log, listening |-> FALSE, due |-> <<>>]
         /\ server' \in ServerType
         /\ toServer' = <<>> /\ toClient' = <<>>
         /\ made' \in MadeType /\ made'.writes = made.writes
         /\ UNCHANGED <<puts, tree, observed, view>>
<1>1. PICK killed \in BOOLEAN : Hangup(killed)
  BY DEF Loses, ConnectionLost, Killed, AuthAnswered
<1>2. made' \in MadeType /\ made'.writes = made.writes
  BY FaultDoes DEF Loses, ConnectionLost, Killed, AuthAnswered, Typed
<1>3. UNCHANGED <<puts, tree, observed, view>>
  BY DEF Loses, ConnectionLost, Killed, AuthAnswered
<1>4. /\ connection' = [state |-> "Disconnected", retrying |-> ~killed, token |-> connection.token,
                        killed |-> killed, unacked |-> 0]
      /\ server' = [log |-> server.log, listening |-> FALSE, due |-> <<>>]
      /\ toServer' = <<>> /\ toClient' = <<>>
  BY <1>1, HangupIs
<1>5. "Disconnected" \in States /\ (~killed) \in BOOLEAN /\ 0 \in Int
  BY DEF States
<1>6. connection' \in ConnectionType
  BY <1>4, <1>5, RecordsAre, ConnectionsAre
<1>7. server' \in ServerType
  BY <1>4, RecordsAre, NoneTyped, ServersAre
<1> QED BY <1>2, <1>3, <1>4, <1>6, <1>7

LEMMA EndProcessDoes ==
  ASSUME Typed, EndProcess
  PROVE  /\ connection' \in ConnectionType /\ connection'.unacked = 0
         /\ connection'.state = "Disconnected"
         /\ server' = [log |-> server.log, listening |-> FALSE, due |-> <<>>]
         /\ server' \in ServerType
         /\ toServer' = <<>> /\ toClient' = <<>>
         /\ made' \in MadeType /\ made'.writes = made.writes
         /\ outstandingPuts' = <<>> /\ putsToAck' = <<>> /\ allWrites' = <<>>
         /\ visibleWrites' = EmptyWrite /\ EmptyWrite \in Visible
         /\ observed' = FALSE
         /\ view' = FreshView(EmptyWrite) /\ view' \in ViewType
<1>1. server' = [log |-> server.log, listening |-> FALSE, due |-> <<>>]
  BY RecordsAre DEF EndProcess
<1>2. server' \in ServerType
  BY <1>1, RecordsAre, NoneTyped, ServersAre
<1>3. connection' \in ConnectionType /\ connection'.unacked = 0 /\ connection'.state = "Disconnected"
  BY DEF EndProcess, Idle, States, ConnectionType
<1>4. EmptyWrite \in Visible /\ FreshView(EmptyWrite) \in ViewType
  BY EmptyWriteIsVisible, FreshViewIs
<1>5. made' \in MadeType /\ made'.writes = made.writes
  BY FaultDoes DEF EndProcess
<1> QED BY <1>1, <1>2, <1>3, <1>4, <1>5 DEF EndProcess

LEMMA SendsAuthDoes ==
  ASSUME Typed, SendsAuth
  PROVE  /\ connection.state = "Connecting" /\ connection'.state = "Authenticating"
         /\ connection' \in ConnectionType /\ connection'.unacked = connection.unacked
         /\ toServer' = <<[type |-> "auth"]>> /\ toServer' \in Seq(Requests)
         /\ UNCHANGED <<server, toClient, puts, tree, observed, view, made>>
<1>1. connection' = [state |-> "Authenticating", retrying |-> connection.retrying,
                     token |-> connection.token, killed |-> connection.killed,
                     unacked |-> connection.unacked]
  BY RecordsAre DEF SendsAuth, Ready
<1>2. "Authenticating" \in States
  BY DEF States
<1>3. connection' \in ConnectionType
  BY <1>1, <1>2, RecordsAre, ConnectionsAre
<1>4. [type |-> "auth"] \in Requests
  BY DEF Requests
<1>5. toServer' = <<[type |-> "auth"]>>
  BY DEF SendsAuth, Ready
<1>6. toServer' \in Seq(Requests)
  BY <1>4, <1>5, OneTyped
<1>7. UNCHANGED <<server, toClient, puts, tree, observed, view, made>>
  BY DEF SendsAuth, Ready
<1>8. connection.state = "Connecting"
  BY DEF SendsAuth, Ready
<1> QED BY <1>1, <1>3, <1>5, <1>6, <1>7, <1>8

LEMMA RestoresDoes ==
  ASSUME Typed, Restores
  PROVE  /\ connection.state = "Connecting" \/ (toClient # <<>> /\ Head(toClient).type = "auth")
         /\ connection'.state = "Connected" /\ connection' \in ConnectionType
         /\ connection'.unacked = connection.unacked + (IF observed THEN 1 ELSE 0)
         /\ toServer' = toServer \o Restored /\ toServer' \in Seq(Requests)
         /\ \/ connection.state = "Connecting" /\ toClient' = toClient
            \/ toClient # <<>> /\ Head(toClient).type = "auth" /\ toClient' = Tail(toClient)
         /\ toClient' \in Seq(Answers)
         /\ UNCHANGED <<server, puts, tree, observed, view, made>>
<1>1. restoreState
  BY DEF Restores, Ready, AuthAnswered
<1>2. /\ connection' = [state |-> "Connected", retrying |-> connection.retrying,
                        token |-> connection.token, killed |-> connection.killed,
                        unacked |-> connection.unacked + (IF observed THEN 1 ELSE 0)]
      /\ toServer' = toServer \o Restored
  BY <1>1, RestoreIs
<1>3. "Connected" \in States /\ connection.unacked + (IF observed THEN 1 ELSE 0) \in Int
  BY RecordsAre DEF States
<1>4. connection' \in ConnectionType
  BY <1>2, <1>3, RecordsAre, ConnectionsAre
<1>5. toServer' \in Seq(Requests)
  BY <1>2, RestoredTyped, ConcatTyped DEF Typed
<1>6. \/ connection.state = "Connecting" /\ toClient' = toClient
      \/ toClient # <<>> /\ Head(toClient).type = "auth" /\ toClient' = Tail(toClient)
  BY DEF Restores, Ready, AuthAnswered
<1>7. toClient' \in Seq(Answers)
  BY <1>6, TailTyped DEF Typed
<1>8. UNCHANGED <<server, puts, tree, observed, view, made>>
  BY DEF Restores, Ready, AuthAnswered
<1> QED BY <1>2, <1>4, <1>5, <1>6, <1>7, <1>8

LEMMA WriteDataDoes ==
  ASSUME Typed, WriteData
  PROVE  \E w \in Write :
           /\ w \in Writes(made.writes + 1) /\ w.id = made.writes + 1 /\ w.id \in 1..MaxWrites
           /\ made' \in MadeType /\ made'.writes = made.writes + 1
           /\ allWrites' = Append(allWrites, w) /\ allWrites' \in Seq(Write)
           /\ outstandingPuts' = Append(outstandingPuts, w) /\ outstandingPuts' \in Seq(Write)
           /\ visibleWrites' = addWrite(visibleWrites, w) /\ visibleWrites' \in Visible
           /\ view' = (IF observed THEN applyUserWrite(view, w) ELSE view)
           /\ toServer' = (IF CanSendWrites THEN Append(toServer, PutRequest(w)) ELSE toServer)
           /\ PutRequest(w) \in Requests /\ toServer' \in Seq(Requests)
           /\ UNCHANGED <<server, toClient, connection, putsToAck, observed>>
<1>1. PICK w \in Writes(made.writes + 1) :
        /\ allWrites' = Append(allWrites, w)
        /\ visibleWrites' = addWrite(visibleWrites, w)
        /\ view' = Updated(view, applyUserWrite(view, w))
        /\ outstandingPuts' = Append(outstandingPuts, w)
        /\ toServer' = IF CanSendWrites THEN Append(toServer, PutRequest(w)) ELSE toServer
  BY DEF WriteData
<1>2. /\ made.writes + 1 \in 1..MaxWrites
      /\ made' = [writes |-> made.writes + 1, foreign |-> made.foreign, faults |-> made.faults]
      /\ w \in Write /\ w.id = made.writes + 1 /\ PutRequest(w) \in Requests
  BY WriteDataIs DEF WriteData
<1>3. made' \in MadeType /\ made'.writes = made.writes + 1
  <2>1. made.writes + 1 \in 0..MaxWrites
    BY <1>2
  <2> QED BY <1>2, <2>1, RecordsAre DEF MadeType
<1>4. allWrites' \in Seq(Write) /\ outstandingPuts' \in Seq(Write)
  BY <1>1, <1>2, AppendTyped DEF Typed
<1>5. toServer' \in Seq(Requests)
  BY <1>1, <1>2, AppendTyped DEF Typed
<1>6. visibleWrites' \in Visible
  BY <1>1, <1>2, AddedWrite DEF Typed
<1>7. UNCHANGED <<server, toClient, connection, putsToAck, observed>>
  BY DEF WriteData
<1> QED BY <1>1, <1>2, <1>3, <1>4, <1>5, <1>6, <1>7 DEF Updated

LEMMA ObserveDoes ==
  ASSUME Typed, Observe
  PROVE  LET request == [type |-> "listen", has |-> EmptyNode] IN
         /\ ~observed /\ observed' = TRUE
         /\ view' = FreshView(visibleWrites) /\ view' \in ViewType
         /\ connection'.state = connection.state /\ connection' \in ConnectionType
         /\ connection'.unacked = connection.unacked + (IF Connected THEN 1 ELSE 0)
         /\ toServer' = (IF Connected THEN Append(toServer, request) ELSE toServer)
         /\ request \in Requests /\ toServer' \in Seq(Requests)
         /\ UNCHANGED <<server, toClient, puts, tree, made>>
<1> DEFINE request == [type |-> "listen", has |-> EmptyNode]
<1>1. view' = FreshView(visibleWrites) /\ view' \in ViewType
  BY FreshViewIs DEF Observe, Typed
<1>2. request \in Requests
  BY EmptyNodeIsNode DEF Requests, ListenRequests
<1>3. toServer' = (IF Connected THEN Append(toServer, request) ELSE toServer)
  BY DEF Observe
<1> HIDE DEF request
<1>4. toServer' \in Seq(Requests)
  BY <1>2, <1>3, AppendTyped DEF Typed
<1>5. CASE Connected
  <2>1. connection' = [state |-> connection.state, retrying |-> connection.retrying,
                       token |-> connection.token, killed |-> connection.killed,
                       unacked |-> connection.unacked + 1]
    BY <1>5, RecordsAre DEF Observe
  <2>2. connection.unacked + 1 \in Int
    BY RecordsAre
  <2>3. connection' \in ConnectionType
    BY <2>1, <2>2, RecordsAre, ConnectionsAre
  <2> QED BY <1>1, <1>2, <1>3, <1>4, <1>5, <2>1, <2>3 DEF Observe, request
<1>6. CASE ~Connected
  <2>1. connection' = connection
    BY <1>6 DEF Observe
  <2>2. connection.unacked + 0 = connection.unacked
    BY RecordsAre
  <2> QED BY <1>1, <1>2, <1>3, <1>4, <1>6, <2>1, <2>2 DEF Observe, request, Typed
<1> QED BY <1>5, <1>6

LEMMA HandleAuthDoes ==
  ASSUME Typed, HandleAuth
  PROVE  /\ toServer # <<>> /\ Head(toServer).type = "auth" /\ toServer' = Tail(toServer)
         /\ \E ok \in BOOLEAN : toClient' = Append(toClient, [type |-> "auth", ok |-> ok])
         /\ made' \in MadeType /\ made'.writes = made.writes
         /\ UNCHANGED <<server, connection, puts, tree, observed, view>>
<1>1. toServer # <<>> /\ Head(toServer).type = "auth" /\ toServer' = Tail(toServer)
  BY DEF HandleAuth, ServerTakes
<1>2. \E ok \in BOOLEAN : toClient' = Append(toClient, [type |-> "auth", ok |-> ok])
  BY DEF HandleAuth
<1>3. made' \in MadeType /\ made'.writes = made.writes
  BY FaultDoes DEF HandleAuth, Typed
<1>4. UNCHANGED <<server, connection, puts, tree, observed, view>>
  BY DEF HandleAuth
<1> QED BY <1>1, <1>2, <1>3, <1>4

LEMMA TypedIsKept ==
  ASSUME DatabaseInv, [Next]_vars
  PROVE  Typed'
<1> USE DEF DatabaseInv
<1>0. /\ toServer \in Seq(Requests) /\ toClient \in Seq(Answers)
      /\ outstandingPuts \in Seq(Write) /\ putsToAck \in Seq(Held)
      /\ allWrites \in Seq(Write) /\ visibleWrites \in Visible
      /\ observed \in BOOLEAN /\ view \in ViewType
      /\ made \in MadeType /\ server \in ServerType /\ connection \in ConnectionType
  BY DEF Typed
<1>1. CASE WriteData
  <2>1. view' \in ViewType
    <3>1. PICK w \in Write : view' = (IF observed THEN applyUserWrite(view, w) ELSE view)
      BY <1>1, WriteDataDoes
    <3> QED BY <1>0, <3>1, ViewAfterWrite DEF Viewed
  <2>2. /\ made' \in MadeType /\ allWrites' \in Seq(Write) /\ outstandingPuts' \in Seq(Write)
        /\ visibleWrites' \in Visible /\ toServer' \in Seq(Requests)
        /\ UNCHANGED <<server, toClient, connection, putsToAck, observed>>
    BY <1>1, WriteDataDoes
  <2> QED BY <1>0, <2>1, <2>2 DEF Typed
<1>2. CASE Observe
  BY <1>0, <1>2, ObserveDoes DEF Typed, puts, tree
<1>3. CASE Waits
  BY <1>0, <1>3, WaitsDoes DEF Typed, wire, puts, tree
<1>4. CASE Loses
  BY <1>0, <1>4, LosesDoes, NoneTyped DEF Typed, puts, tree
<1>5. CASE EndProcess
  BY <1>0, <1>5, EndProcessDoes, NoneTyped DEF Typed
<1>6. CASE SendsAuth
  BY <1>0, <1>6, SendsAuthDoes DEF Typed, puts, tree
<1>7. CASE Restores
  BY <1>0, <1>7, RestoresDoes DEF Typed, puts, tree
<1>8. CASE PutAnswered
  <2> DEFINE answer == [id |-> Head(toClient).id, ok |-> Head(toClient).ok]
  <2>1. answer \in Held /\ outstandingPuts # <<>> /\ outstandingPuts' = Tail(outstandingPuts)
    BY <1>8, PutAnsweredDoes
  <2>2. outstandingPuts' \in Seq(Write)
    BY <1>0, <2>1, TailTyped
  <2>3. toClient' \in Seq(Answers)
    BY <1>0, <1>8, TailTyped DEF PutAnswered
  <2>4. CASE connection.unacked = 0
    <3>1. /\ putsToAck' = <<>> /\ allWrites # <<>> /\ allWrites' = Tail(allWrites)
          /\ visibleWrites' = layerTreeFromWrites(allWrites') /\ view' \in ViewType
      BY <1>8, <2>4, PutAnsweredDoes
    <3>2. allWrites' \in Seq(Write)
      BY <1>0, <3>1, TailTyped
    <3>3. visibleWrites' \in Visible
      BY <3>1, <3>2, LayerTyped
    <3> QED BY <1>0, <1>8, <2>2, <2>3, <3>1, <3>2, <3>3, NoneTyped DEF PutAnswered, Typed
  <2>5. CASE connection.unacked # 0
    <3>1. putsToAck' = Append(putsToAck, answer) /\ UNCHANGED <<allWrites, visibleWrites, view>>
      BY <1>8, <2>5, PutAnsweredDoes
    <3>2. putsToAck' \in Seq(Held)
      <4> HIDE DEF answer
      <4> QED BY <1>0, <2>1, <3>1, AppendTyped
    <3> QED BY <1>0, <1>8, <2>2, <2>3, <3>1, <3>2 DEF PutAnswered, Typed
  <2> QED BY <2>4, <2>5
<1>9. CASE ListenAnswered
  <2>1. /\ ListenAcks \in 0..Len(allWrites)
        /\ allWrites' = SubSeq(allWrites, ListenAcks + 1, Len(allWrites))
        /\ visibleWrites' = layerTreeFromWrites(allWrites') /\ view' \in ViewType
        /\ putsToAck' = (IF connection.unacked = 1 THEN <<>> ELSE putsToAck)
    BY <1>9, ListenAnsweredDoes
  <2>2. allWrites' \in Seq(Write)
    BY <1>0, <2>1
  <2>3. visibleWrites' \in Visible
    BY <2>1, <2>2, LayerTyped
  <2>4. toClient' \in Seq(Answers)
    BY <1>0, <1>9, TailTyped DEF ListenAnswered
  <2>5. connection' = [state |-> connection.state, retrying |-> connection.retrying,
                       token |-> connection.token, killed |-> connection.killed,
                       unacked |-> connection.unacked - 1]
    BY <1>9, RecordsAre DEF ListenAnswered
  <2>6. connection' \in ConnectionType
    <3>1. connection.unacked - 1 \in Int
      BY RecordsAre
    <3> QED BY <2>5, <3>1, RecordsAre, ConnectionsAre
  <2>7. putsToAck' \in Seq(Held)
    BY <1>0, <2>1, NoneTyped
  <2> QED BY <1>0, <1>9, <2>1, <2>2, <2>3, <2>4, <2>6, <2>7 DEF ListenAnswered, Typed
<1>10. CASE DataPushed
  <2>1. view' \in ViewType
    BY <1>10, DataPushedDoes
  <2>2. toClient' \in Seq(Answers)
    BY <1>0, <1>10, TailTyped DEF DataPushed
  <2> QED BY <1>0, <1>10, <2>1, <2>2 DEF DataPushed, Typed, puts, tree
<1>11. CASE HandleAuth
  <2>1. toServer' \in Seq(Requests)
    BY <1>0, <1>11, HandleAuthDoes, TailTyped
  <2>2. toClient' \in Seq(Answers)
    BY <1>0, <1>11, HandleAuthDoes, AnswersAre, AppendTyped
  <2> QED BY <1>0, <1>11, <2>1, <2>2, HandleAuthDoes DEF Typed, puts, tree
<1>12. CASE HandlePut
  <2> DEFINE w == Head(toServer).write
  <2>1. toServer' \in Seq(Requests)
    BY <1>0, <1>12, HandlePutDoes, TailTyped
  <2>2. w \in Write /\ Change(w.kind, w.value) /\ w.id \in 1..MaxWrites
    BY <1>12, HandlePutDoes, Zenon
  <2>3. \/ /\ Commits(w.value, w.id)
           /\ toClient' = toClient \o Pushed(w.kind, w.value) \o <<WriteAnswer(w.id, TRUE)>>
        \/ /\ server' = server
           /\ toClient' = Append(toClient, WriteAnswer(w.id, FALSE))
    BY <1>12, HandlePutDoes, Zenon
  <2>4. UNCHANGED <<connection, puts, tree, observed, view, made>>
    BY <1>12, HandlePutDoes
  <2> DEFINE kind  == w.kind
             value == w.value
             id    == w.id
  <2> HIDE DEF w, kind, value, id
  <2>5. id \in Nat /\ id \in 1..MaxWrites /\ Change(kind, value)
    BY <2>2, DatabaseValuesAssumption DEF kind, value, id
  <2>6. Pushed(kind, value) \in Seq(Answers) /\ (Commits(value, id) => server' \in ServerType)
    BY <2>5, CommitTyped
  <2>7. server' \in ServerType
    BY <1>0, <2>3, <2>6 DEF value, id
  <2>8. \A ok \in BOOLEAN : WriteAnswer(id, ok) \in Answers
    BY <2>5, AnswersAre
  <2>9. <<WriteAnswer(id, TRUE)>> \in Seq(Answers) /\ WriteAnswer(id, FALSE) \in Answers
    BY <2>8, OneTyped
  <2>10. toClient \o Pushed(kind, value) \in Seq(Answers)
    BY <1>0, <2>6, ConcatTyped
  <2>11. toClient \o Pushed(kind, value) \o <<WriteAnswer(id, TRUE)>> \in Seq(Answers)
    BY <2>9, <2>10, ConcatTyped
  <2>12. Append(toClient, WriteAnswer(id, FALSE)) \in Seq(Answers)
    BY <1>0, <2>9, AppendTyped
  <2>13. toClient' \in Seq(Answers)
    BY <2>3, <2>11, <2>12 DEF kind, value, id
  <2> QED BY <1>0, <2>1, <2>4, <2>7, <2>13 DEF Typed, puts, tree
<1>13. CASE HandleListen
  <2>1. toServer' \in Seq(Requests)
    BY <1>0, <1>13, HandleListenDoes, TailTyped
  <2> QED BY <1>0, <1>13, <2>1, HandleListenDoes DEF Typed, puts, tree
<1>14. CASE AnswerListen
  <2>1. toClient \o Brought \in Seq(Answers) /\ <<Told>> \in Seq(Answers)
    BY <1>0, <1>14, AnswerListenDoes, ConcatTyped, OneTyped
  <2>2. toClient' \in Seq(Answers)
    BY <1>14, <2>1, AnswerListenDoes, ConcatTyped
  <2> QED BY <1>0, <1>14, <2>2, AnswerListenDoes DEF Typed, puts, tree
<1>15. CASE ForeignWrite
  <2>1. PICK kind, value :
          /\ Change(kind, value) /\ Commits(value, 0)
          /\ toClient' = toClient \o Pushed(kind, value)
          /\ made' \in MadeType /\ made'.writes = made.writes
          /\ UNCHANGED <<toServer, connection, puts, tree, observed, view>>
    BY <1>15, ForeignWriteDoes
  <2>2. server' \in ServerType /\ Pushed(kind, value) \in Seq(Answers)
    BY <2>1, CommitTyped
  <2>3. toClient' \in Seq(Answers)
    BY <1>0, <2>1, <2>2, ConcatTyped
  <2> QED BY <1>0, <2>1, <2>2, <2>3 DEF Typed, puts, tree
<1>16. CASE UNCHANGED vars
  BY <1>16 DEF vars, wire, puts, tree, Typed
<1> QED BY <1>1, <1>2, <1>3, <1>4, <1>5, <1>6, <1>7, <1>8, <1>9, <1>10, <1>11, <1>12, <1>13, <1>14,
           <1>15, <1>16, StepsAre


-----------------------------------------------------------------------------
(* What each step leaves on the wire, by the types of the messages.        *)

Types == {"auth", "put", "listen", "data"}

Same(type, s, t) == OfType(type, s) = OfType(type, t)

LEMMA OneAppended ==
  ASSUME NEW S, NEW s \in Seq(S), NEW m \in S
  PROVE  /\ OfType(m.type, Append(s, m)) = Append(OfType(m.type, s), m)
         /\ \A type : type # m.type => Same(type, Append(s, m), s)
BY OfTypeOfAppend DEF Same

LEMMA OneTaken ==
  ASSUME NEW S, NEW s \in Seq(S), s # <<>>
  PROVE  /\ OfType(Head(s).type, s) = <<Head(s)>> \o OfType(Head(s).type, Tail(s))
         /\ \A type : type # Head(s).type => Same(type, Tail(s), s)
BY OfTypeOfTail DEF Same

LEMMA NothingAdded ==
  ASSUME NEW type, NEW S, NEW s \in Seq(S), NEW t \in Seq(S), OfType(type, t) = <<>>
  PROVE  Same(type, s \o t, s)
<1>1. OfType(type, s) \in Seq(S)
  BY OfTypeTyped
<1>2. OfType(type, s) \o <<>> = OfType(type, s)
  BY <1>1
<1>3. OfType(type, s \o t) = OfType(type, s) \o OfType(type, t)
  BY OfTypeOfConcat
<1> QED BY <1>2, <1>3 DEF Same

LEMMA SameCount ==
  ASSUME NEW type, NEW s, NEW t, Same(type, s, t)
  PROVE  CountOf(type, s) = CountOf(type, t)
BY DEF Same, CountOf

(* An update to the observers brings no other message.                     *)
LEMMA PushedOfType ==
  ASSUME NEW kind, NEW value
  PROVE  /\ \A type : type # "data" => OfType(type, Pushed(kind, value)) = <<>>
         /\ ~server.listening => Pushed(kind, value) = <<>>
<1>1. Push(kind, value).type = "data"
  BY DEF Push
<1>2. \A type : OfType(type, <<Push(kind, value)>>)
                  = IF "data" = type THEN <<Push(kind, value)>> ELSE <<>>
  BY <1>1, OfTypeOfOne
<1> QED BY <1>2, OfTypeOfNone DEF Pushed

LEMMA BroughtOfType == \A type : type # "data" => OfType(type, Brought) = <<>>
<1>1. Fetched.type = "data"
  BY DEF Fetched
<1>2. \A type : OfType(type, <<Fetched>>) = IF "data" = type THEN <<Fetched>> ELSE <<>>
  BY <1>1, OfTypeOfOne
<1> QED BY <1>2, OfTypeOfNone DEF Brought

(* What is restored: a listen if there is an observer, then the writes.    *)
Resent == [i \in 1..Len(outstandingPuts) |-> PutRequest(outstandingPuts[i])]

LEMMA RestoredOfType ==
  ASSUME Typed
  PROVE  /\ OfType("auth", Restored) = <<>> /\ OfType("data", Restored) = <<>>
         /\ OfType("listen", Restored) = IF observed THEN <<ListenRequest>> ELSE <<>>
         /\ OfType("put", Restored) = Resent
<1> DEFINE listens  == IF observed THEN <<ListenRequest>> ELSE <<>>
<1>1. Resent \in Seq(PutRequests)
  BY DEF Typed, Resent, PutRequest, PutRequests
<1>2. \A i \in 1..Len(Resent) : Resent[i].type = "put"
  <2>1. \A i \in 1..Len(Resent) : Resent[i] \in PutRequests
    BY <1>1
  <2> QED BY <2>1 DEF PutRequests
<1>3. OfType("put", Resent) = Resent
  BY <1>1, <1>2, OfTypeOfAll
<1>4. \A type : type # "put" => CountOf(type, Resent) = 0
  BY <1>1, <1>2, CountIsZero
<1>5. \A type : type # "put" => OfType(type, Resent) = <<>>
  <2> SUFFICES ASSUME NEW type, type # "put" PROVE OfType(type, Resent) = <<>>
    OBVIOUS
  <2>1. OfType(type, Resent) \in Seq(PutRequests)
    BY <1>1, OfTypeTyped
  <2> QED BY <1>4, <2>1 DEF CountOf
<1>6. \A type : OfType(type, listens) = IF type = "listen" THEN listens ELSE <<>>
  <2>1. ListenRequest.type = "listen"
    BY DEF ListenRequest
  <2>2. \A type : OfType(type, <<ListenRequest>>)
                    = IF "listen" = type THEN <<ListenRequest>> ELSE <<>>
    BY <2>1, OfTypeOfOne
  <2> QED BY <2>2, OfTypeOfNone
<1>7. listens \in Seq(Requests) /\ Resent \in Seq(Requests)
  <2>1. ListenRequest \in Requests
    BY ViewIs DEF Typed, ListenRequest, Requests, ListenRequests
  <2>2. PutRequests \subseteq Requests
    BY DEF Requests
  <2> QED BY <1>1, <2>1, <2>2, OneTyped, NoneTyped
<1> HIDE DEF listens
<1>8. Restored = listens \o Resent
  BY DEF Restored, Resent, listens
<1>9. \A type : OfType(type, Restored) = OfType(type, listens) \o OfType(type, Resent)
  BY <1>7, <1>8, OfTypeOfConcat
<1>10. /\ OfType("auth", Restored) = <<>> \o <<>> /\ OfType("data", Restored) = <<>> \o <<>>
       /\ OfType("listen", Restored) = listens \o <<>>
       /\ OfType("put", Restored) = <<>> \o Resent
  BY <1>3, <1>5, <1>6, <1>9
<1>11. /\ <<>> \o <<>> = <<>> /\ listens \o <<>> = listens
       /\ <<>> \o Resent = Resent
  BY <1>7
<1> QED BY <1>10, <1>11 DEF listens

LEMMA HandlePutSends ==
  ASSUME Typed, HandlePut
  PROVE  /\ \A type : type # "put" => Same(type, toServer', toServer)
         /\ OfType("put", toServer) = <<Head(toServer)>> \o OfType("put", toServer')
         /\ \A type : type \notin {"put", "data"} => Same(type, toClient', toClient)
         /\ ~server.listening => Same("data", toClient', toClient)
         /\ \E ok \in BOOLEAN : OfType("put", toClient')
              = Append(OfType("put", toClient), WriteAnswer(Head(toServer).write.id, ok))
<1> DEFINE w  == Head(toServer).write
           id == w.id
           kind == w.kind
           value == w.value
           told == toClient \o Pushed(kind, value)
<1>1. toServer \in Seq(Requests) /\ toClient \in Seq(Answers)
  BY DEF Typed
<1>2. toServer # <<>> /\ Head(toServer).type = "put" /\ toServer' = Tail(toServer)
  BY HandlePutDoes
<1>3. (\A type : type # "put" => Same(type, toServer', toServer))
        /\ OfType("put", toServer) = <<Head(toServer)>> \o OfType("put", toServer')
  BY <1>1, <1>2, OneTaken
<1>4. Change(kind, value) /\ id \in 1..MaxWrites
  BY HandlePutDoes
<1>5. \/ toClient' = Append(toClient, WriteAnswer(id, FALSE))
      \/ toClient' = told \o <<WriteAnswer(id, TRUE)>>
  BY HandlePutDoes, Zenon
<1>6. \A ok \in BOOLEAN : WriteAnswer(id, ok) \in Answers /\ WriteAnswer(id, ok).type = "put"
  <2> HIDE DEF id
  <2> QED BY <1>4, AnswersAre DEF WriteAnswer
<1>7. Pushed(kind, value) \in Seq(Answers)
  <2> HIDE DEF kind, value
  <2> QED BY <1>4, CommitTyped
<1>8. \A type : type # "data" => OfType(type, Pushed(kind, value)) = <<>>
  <2> HIDE DEF kind, value
  <2> QED BY PushedOfType
<1>9. ~server.listening => OfType("data", Pushed(kind, value)) = <<>>
  <2> HIDE DEF kind, value
  <2> QED BY PushedOfType, OfTypeOfNone
<1> HIDE DEF w, id, kind, value
<1>10. \A type : OfType(type, Pushed(kind, value)) = <<>> => Same(type, told, toClient)
  <2> DEFINE pushed == Pushed(kind, value)
  <2>1. pushed \in Seq(Answers)
    BY <1>7
  <2> HIDE DEF pushed
  <2>2. \A type : OfType(type, pushed) = <<>> => Same(type, toClient \o pushed, toClient)
    BY <1>1, <2>1, NothingAdded
  <2> QED BY <2>2 DEF pushed
<1>11. told \in Seq(Answers)
  BY <1>1, <1>7, ConcatTyped
<1> HIDE DEF told
<1>12. CASE toClient' = Append(toClient, WriteAnswer(id, FALSE))
  <2>1. WriteAnswer(id, FALSE) \in Answers /\ WriteAnswer(id, FALSE).type = "put"
    BY <1>6
  <2>2. /\ OfType("put", toClient') = Append(OfType("put", toClient), WriteAnswer(id, FALSE))
        /\ \A type : type # "put" => Same(type, toClient', toClient)
    BY <1>1, <1>12, <2>1, OneAppended
  <2> QED BY <1>3, <2>2 DEF id, w
<1>13. CASE toClient' = told \o <<WriteAnswer(id, TRUE)>>
  <2>1. WriteAnswer(id, TRUE) \in Answers /\ WriteAnswer(id, TRUE).type = "put"
    BY <1>6
  <2>2. toClient' = Append(told, WriteAnswer(id, TRUE))
    BY <1>11, <1>13, <2>1, OneMore, Zenon
  <2>3. /\ OfType("put", toClient') = Append(OfType("put", told), WriteAnswer(id, TRUE))
        /\ \A type : type # "put" => Same(type, toClient', told)
    BY <1>11, <2>1, <2>2, OneAppended
  <2>4. OfType("put", told) = OfType("put", toClient)
    BY <1>8, <1>10 DEF Same
  <2>5. \A type : type \notin {"put", "data"} => Same(type, toClient', toClient)
    BY <1>8, <1>10, <2>3 DEF Same
  <2>6. ~server.listening => Same("data", toClient', toClient)
    BY <1>9, <1>10, <2>3 DEF Same
  <2> QED BY <1>3, <2>3, <2>4, <2>5, <2>6 DEF id, w
<1> QED BY <1>5, <1>12, <1>13

LEMMA ForeignWriteSends ==
  ASSUME Typed, ForeignWrite
  PROVE  /\ \A type : type # "data" => Same(type, toClient', toClient)
         /\ ~server.listening => toClient' = toClient
<1>1. PICK kind, value : Change(kind, value) /\ toClient' = toClient \o Pushed(kind, value)
  BY ForeignWriteDoes
<1> DEFINE pushed == Pushed(kind, value)
<1>2. toClient \in Seq(Answers) /\ pushed \in Seq(Answers)
  BY <1>1, CommitTyped DEF Typed
<1>3. (\A type : type # "data" => OfType(type, pushed) = <<>>)
        /\ (~server.listening => pushed = <<>>)
  BY PushedOfType
<1>4. toClient' = toClient \o pushed
  BY <1>1
<1> HIDE DEF pushed
<1>5. \A type : type # "data" => Same(type, toClient', toClient)
  BY <1>2, <1>3, <1>4, NothingAdded
<1> QED BY <1>2, <1>3, <1>4, <1>5

LEMMA AnswerListenSends ==
  ASSUME Typed, AnswerListen
  PROVE  /\ \A type : type \notin {"listen", "data"} => Same(type, toClient', toClient)
         /\ CountOf("listen", toClient') = CountOf("listen", toClient) + 1
<1> DEFINE brought == toClient \o Brought
<1>1. toClient \in Seq(Answers) /\ Brought \in Seq(Answers) /\ Told \in Answers
        /\ toClient' = toClient \o Brought \o <<Told>>
  BY AnswerListenDoes DEF Typed
<1>2. brought \in Seq(Answers)
  BY <1>1, ConcatTyped
<1>3. \A type : type # "data" => Same(type, brought, toClient)
  BY <1>1, BroughtOfType, NothingAdded
<1>4. Told.type = "listen"
  BY DEF Told
<1>5. toClient' = brought \o <<Told>>
  BY <1>1
<1> HIDE DEF brought
<1>6. toClient' = Append(brought, Told)
  BY <1>1, <1>2, <1>5
<1>7. (\A type : type # "listen" => Same(type, toClient', brought))
        /\ OfType("listen", toClient') = Append(OfType("listen", brought), Told)
  BY <1>1, <1>2, <1>4, <1>6, OneAppended
<1>8. OfType("listen", brought) = OfType("listen", toClient)
  BY <1>3 DEF Same
<1>9. Len(OfType("listen", toClient')) = Len(OfType("listen", toClient)) + 1
  <2>1. OfType("listen", toClient) \in Seq(Answers)
    BY <1>1, OfTypeTyped
  <2> QED BY <1>1, <1>7, <1>8, <2>1
<1>10. \A type : type \notin {"listen", "data"} => Same(type, toClient', toClient)
  BY <1>3, <1>7 DEF Same
<1> QED BY <1>9, <1>10 DEF CountOf

LEMMA HandleAuthSends ==
  ASSUME Typed, HandleAuth
  PROVE  /\ \A type : type # "auth" => Same(type, toServer', toServer)
         /\ \A type : type # "auth" => Same(type, toClient', toClient)
         /\ CountOf("auth", toServer) = CountOf("auth", toServer') + 1
         /\ CountOf("auth", toClient') = CountOf("auth", toClient) + 1
<1>1. toServer \in Seq(Requests) /\ toClient \in Seq(Answers)
  BY DEF Typed
<1>2. toServer # <<>> /\ Head(toServer).type = "auth" /\ toServer' = Tail(toServer)
  BY HandleAuthDoes
<1>3. PICK ok \in BOOLEAN : toClient' = Append(toClient, [type |-> "auth", ok |-> ok])
  BY HandleAuthDoes
<1> DEFINE answer == [type |-> "auth", ok |-> ok]
<1>4. answer \in Answers /\ answer.type = "auth" /\ toClient' = Append(toClient, answer)
  BY <1>3, AnswersAre
<1> HIDE DEF answer
<1>5. \A type : type # "auth" => Same(type, toServer', toServer)
  BY <1>1, <1>2, OneTaken
<1>6. \A type : type # "auth" => Same(type, toClient', toClient)
  BY <1>1, <1>4, OneAppended
<1>7. CountOf("auth", toServer) = CountOf("auth", toServer') + 1
  BY <1>1, <1>2, CountOfTail
<1>8. CountOf("auth", toClient') = CountOf("auth", toClient) + 1
  BY <1>1, <1>4, CountOfAppend
<1> QED BY <1>5, <1>6, <1>7, <1>8

(* A message taken from the client's end of the wire.                      *)
LEMMA AnswerTaken ==
  ASSUME Typed, toClient # <<>>, toClient' = Tail(toClient)
  PROVE  /\ \A type : type # Head(toClient).type => Same(type, toClient', toClient)
         /\ CountOf(Head(toClient).type, toClient) = CountOf(Head(toClient).type, toClient') + 1
         /\ OfType(Head(toClient).type, toClient)
              = <<Head(toClient)>> \o OfType(Head(toClient).type, toClient')
<1>1. toClient \in Seq(Answers)
  BY DEF Typed
<1> QED BY <1>1, OneTaken, CountOfTail

LEMMA RequestTaken ==
  ASSUME Typed, toServer # <<>>, toServer' = Tail(toServer)
  PROVE  /\ \A type : type # Head(toServer).type => Same(type, toServer', toServer)
         /\ CountOf(Head(toServer).type, toServer) = CountOf(Head(toServer).type, toServer') + 1
<1>1. toServer \in Seq(Requests)
  BY DEF Typed
<1> QED BY <1>1, OneTaken, CountOfTail

LEMMA RequestAdded ==
  ASSUME Typed, NEW m \in Requests, toServer' = Append(toServer, m)
  PROVE  /\ \A type : type # m.type => Same(type, toServer', toServer)
         /\ CountOf(m.type, toServer') = CountOf(m.type, toServer) + 1
         /\ OfType(m.type, toServer') = Append(OfType(m.type, toServer), m)
<1>1. toServer \in Seq(Requests)
  BY DEF Typed
<1> QED BY <1>1, OneAppended, CountOfAppend

LEMMA RestoresSends ==
  ASSUME Typed, Restores
  PROVE  /\ Same("auth", toServer', toServer)
         /\ CountOf("listen", toServer') = CountOf("listen", toServer) + (IF observed THEN 1 ELSE 0)
         /\ OfType("put", toServer') = OfType("put", toServer) \o Resent
<1>1. toServer \in Seq(Requests) /\ Restored \in Seq(Requests) /\ toServer' = toServer \o Restored
  BY RestoresDoes, RestoredTyped DEF Typed
<1>2. Same("auth", toServer', toServer)
  BY <1>1, RestoredOfType, NothingAdded
<1>3. OfType("put", toServer') = OfType("put", toServer) \o OfType("put", Restored)
  BY <1>1, OfTypeOfConcat
<1>4. CountOf("listen", toServer') = CountOf("listen", toServer) + CountOf("listen", Restored)
  BY <1>1, CountOfConcat
<1>5. CountOf("listen", Restored) = IF observed THEN 1 ELSE 0
  BY RestoredOfType DEF CountOf
<1> QED BY <1>2, <1>3, <1>4, <1>5, RestoredOfType

LEMMA NoCounts == \A type : CountOf(type, <<>>) = 0 /\ OfType(type, <<>>) = <<>>
BY CountOfNone, OfTypeOfNone

-----------------------------------------------------------------------------
(* Part 2 is kept. *)

LEMMA OneMoreListen ==
  \A a, b, c \in Nat : \A n \in 0..1 : (a + n) + b + c = (a + b + c) + n /\ 0 + n <= 1
OBVIOUS

LEMMA CountedIsKept ==
  ASSUME DatabaseInv, [Next]_vars
  PROVE  Counted'
<1> DEFINE asked(s) == CountOf("listen", s)
           tokens(s) == CountOf("auth", s)
<1> USE DEF DatabaseInv
<1>0. /\ connection.unacked = asked(toServer) + Len(server.due) + asked(toClient)
      /\ tokens(toServer) + tokens(toClient) = IF connection.state = "Authenticating" THEN 1 ELSE 0
      /\ connection.unacked <= 2
      /\ connection.state = "Authenticating" => connection.unacked <= 1
  BY DEF Counted
<1>a. /\ asked(toServer) \in Nat /\ asked(toClient) \in Nat /\ Len(server.due) \in Nat
      /\ tokens(toServer) \in Nat /\ tokens(toClient) \in Nat /\ connection.unacked \in Int
  BY AnswersCounted, RecordsAre
<1>b. ~Connected => /\ toServer = <<>> /\ toClient = <<>> /\ server.due = <<>>
                    /\ connection.unacked = 0
  <2>1. Len(<<>>) = 0
    OBVIOUS
  <2> QED BY <1>0, <2>1, NoCounts DEF Quiet
<1>1. CASE WriteData
  <2>1. PICK w : /\ PutRequest(w) \in Requests
                 /\ toServer' = (IF CanSendWrites THEN Append(toServer, PutRequest(w)) ELSE toServer)
                 /\ UNCHANGED <<server, toClient, connection>>
    BY <1>1, WriteDataDoes
  <2>2. PutRequest(w).type = "put"
    BY DEF PutRequest
  <2>3. CanSendWrites => Same("listen", toServer', toServer) /\ Same("auth", toServer', toServer)
    BY <2>1, <2>2, RequestAdded
  <2>4. asked(toServer') = asked(toServer) /\ tokens(toServer') = tokens(toServer)
    BY <2>1, <2>3, SameCount
  <2> QED BY <1>0, <2>1, <2>4 DEF Counted
<1>2. CASE Observe
  <2> DEFINE request == [type |-> "listen", has |-> EmptyNode]
  <2>1. /\ ~observed /\ connection'.state = connection.state
        /\ connection'.unacked = connection.unacked + (IF Connected THEN 1 ELSE 0)
        /\ toServer' = (IF Connected THEN Append(toServer, request) ELSE toServer)
        /\ request \in Requests
        /\ server' = server /\ toClient' = toClient
    BY <1>2, ObserveDoes
  <2>2. connection.unacked = 0
    BY <2>1 DEF Quiet
  <2>3. request.type = "listen"
    OBVIOUS
  <2> HIDE DEF request
  <2>4. Connected => Same("auth", toServer', toServer) /\ asked(toServer') = asked(toServer) + 1
    BY <2>1, <2>3, RequestAdded
  <2>5. tokens(toServer') = tokens(toServer)
          /\ asked(toServer') = asked(toServer) + (IF Connected THEN 1 ELSE 0)
    BY <1>a, <2>1, <2>4, SameCount
  <2> DEFINE listens == IF Connected THEN 1 ELSE 0
  <2>6. listens \in 0..1
    OBVIOUS
  <2> HIDE DEF listens
  <2>7. /\ connection'.unacked = connection.unacked + listens /\ tokens(toServer') = tokens(toServer)
        /\ asked(toServer') = asked(toServer) + listens
        /\ asked(toClient') = asked(toClient) /\ tokens(toClient') = tokens(toClient)
        /\ Len(server'.due) = Len(server.due) /\ connection'.state = connection.state
    BY <2>1, <2>5 DEF listens
  <2>8. connection'.unacked = asked(toServer') + Len(server'.due) + asked(toClient')
          /\ connection'.unacked <= 1
    <3>1. connection'.unacked = (asked(toServer) + Len(server.due) + asked(toClient)) + listens
            /\ connection'.unacked = 0 + listens
      BY <1>0, <2>2, <2>7, Zenon
    <3>2. asked(toServer') + Len(server'.due) + asked(toClient')
            = (asked(toServer) + listens) + Len(server.due) + asked(toClient)
      BY <2>7, Zenon
    <3> QED BY <1>a, <2>6, <3>1, <3>2, OneMoreListen
  <2>9. tokens(toServer') + tokens(toClient') = IF connection'.state = "Authenticating" THEN 1 ELSE 0
    BY <1>0, <2>7
  <2> HIDE DEF DatabaseInv
  <2> QED BY <1>a, <2>2, <2>6, <2>7, <2>8, <2>9 DEF Counted
<1>3. CASE Waits
  <2>1. /\ connection'.unacked = connection.unacked /\ ~Connected /\ ~Connected'
        /\ UNCHANGED <<server, wire>>
    BY <1>3, WaitsDoes
  <2>2. connection.state # "Authenticating" /\ connection'.state # "Authenticating"
    BY <2>1 DEF Connected
  <2>3. toServer' = toServer /\ toClient' = toClient /\ server' = server
    BY <2>1 DEF wire
  <2>4. /\ asked(toServer') = asked(toServer) /\ asked(toClient') = asked(toClient)
        /\ tokens(toServer') = tokens(toServer) /\ tokens(toClient') = tokens(toClient)
    BY <2>3
  <2>5. tokens(toServer') + tokens(toClient') = 0
    BY <1>0, <2>2, <2>4
  <2>6. connection'.unacked = asked(toServer') + Len(server'.due) + asked(toClient')
          /\ connection'.unacked <= 2
    BY <1>0, <2>1, <2>3, <2>4
  <2> HIDE DEF DatabaseInv
  <2> QED BY <2>2, <2>5, <2>6 DEF Counted
<1>4. CASE Loses \/ EndProcess
  <2>1. /\ connection'.unacked = 0 /\ connection'.state = "Disconnected" /\ server'.due = <<>>
        /\ toServer' = <<>> /\ toClient' = <<>>
    <3>1. CASE Loses
      BY <3>1, LosesDoes
    <3>2. CASE EndProcess
      BY <3>2, EndProcessDoes
    <3> QED BY <1>4, <3>1, <3>2
  <2>2. Len(<<>>) = 0
    OBVIOUS
  <2>3. asked(toServer') = 0 /\ asked(toClient') = 0 /\ Len(server'.due) = 0
          /\ tokens(toServer') = 0 /\ tokens(toClient') = 0
    BY <2>1, <2>2, NoCounts
  <2> QED BY <2>1, <2>3 DEF Counted
<1>5. CASE SendsAuth
  <2> DEFINE request == [type |-> "auth"]
  <2>1. /\ connection.state = "Connecting" /\ connection'.state = "Authenticating"
        /\ connection'.unacked = connection.unacked /\ toServer' = <<request>>
        /\ UNCHANGED <<server, toClient>>
    BY <1>5, SendsAuthDoes
  <2>2. ~Connected
    BY <2>1 DEF Connected
  <2>3. request.type = "auth" /\ Len(<<request>>) = 1 /\ Len(<<>>) = 0
    OBVIOUS
  <2> HIDE DEF request
  <2>4. asked(toServer') = 0 /\ tokens(toServer') = 1
    BY <2>1, <2>3, OfTypeOfOne DEF CountOf
  <2>5. asked(toClient') = 0 /\ tokens(toClient') = 0 /\ Len(server'.due) = 0
    BY <1>b, <2>1, <2>2, <2>3, NoCounts
  <2> QED BY <1>b, <2>1, <2>2, <2>4, <2>5 DEF Counted
<1>6. CASE Restores
  <2> DEFINE listens == IF observed THEN 1 ELSE 0
  <2>a. listens \in 0..1
    OBVIOUS
  <2>1. /\ connection'.state = "Connected" /\ server' = server
        /\ connection'.unacked = connection.unacked + listens
    BY <1>6, RestoresDoes
  <2>2. tokens(toServer') = tokens(toServer) /\ asked(toServer') = asked(toServer) + listens
    BY <1>6, RestoresSends, SameCount
  <2> HIDE DEF listens
  <2>3. \/ connection.state = "Connecting" /\ toClient' = toClient
        \/ toClient # <<>> /\ Head(toClient).type = "auth" /\ toClient' = Tail(toClient)
    BY <1>6, RestoresDoes
  <2>4. CASE connection.state = "Connecting" /\ toClient' = toClient
    <3>1. connection.unacked = 0
      BY <1>b, <2>4 DEF Connected
    <3>2. asked(toClient') = asked(toClient) /\ tokens(toClient') = tokens(toClient)
            /\ Len(server'.due) = Len(server.due)
      BY <2>1, <2>4
    <3>3. connection'.unacked = (asked(toServer) + Len(server.due) + asked(toClient)) + listens
            /\ connection'.unacked = 0 + listens
      BY <1>0, <2>1, <3>1, Zenon
    <3>4. asked(toServer') + Len(server'.due) + asked(toClient')
            = (asked(toServer) + listens) + Len(server.due) + asked(toClient)
      BY <2>2, <3>2, Zenon
    <3>5. connection'.unacked = asked(toServer') + Len(server'.due) + asked(toClient')
            /\ connection'.unacked <= 1
      BY <1>a, <2>a, <3>3, <3>4, OneMoreListen
    <3>6. tokens(toServer') + tokens(toClient') = 0
      BY <1>0, <2>2, <2>4, <3>2
    <3> HIDE DEF DatabaseInv
    <3>7. connection'.unacked <= 2
      BY <1>a, <2>a, <3>3
    <3> QED BY <2>1, <3>5, <3>6, <3>7 DEF Counted
  <2>5. CASE toClient # <<>> /\ Head(toClient).type = "auth" /\ toClient' = Tail(toClient)
    <3>1. connection.state = "Authenticating"
      BY <2>5, HeadIsExpected
    <3>2. tokens(toClient) = tokens(toClient') + 1 /\ Same("listen", toClient', toClient)
      BY <2>5, AnswerTaken
    <3>3. asked(toClient') = asked(toClient)
      BY <3>2, SameCount
    <3>4. tokens(toClient') \in Nat
      BY <2>5, AnswersCounted
    <3>5. tokens(toServer') + tokens(toClient') = 0
      BY <1>0, <1>a, <2>2, <3>1, <3>2, <3>4
    <3>6. connection'.unacked = asked(toServer') + Len(server'.due) + asked(toClient')
            /\ connection'.unacked <= 2
      <4>1. server'.due = server.due
        BY <2>1
      <4>2. connection.unacked = asked(toServer) + Len(server.due) + asked(toClient)
              /\ connection.unacked <= 1
        BY <1>0, <3>1
      <4> HIDE DEF DatabaseInv
      <4>3. connection'.unacked = asked(toServer') + Len(server'.due) + asked(toClient')
        <5>1. connection'.unacked = (asked(toServer) + Len(server.due) + asked(toClient)) + listens
          BY <2>1, <4>2, Zenon
        <5>2. asked(toServer') + Len(server'.due) + asked(toClient')
                = (asked(toServer) + listens) + Len(server.due) + asked(toClient)
          BY <2>2, <3>3, <4>1, Zenon
        <5> QED BY <1>a, <2>a, <5>1, <5>2
      <4>4. connection'.unacked <= 2
        BY <1>a, <2>a, <2>1, <4>2
      <4> QED BY <4>3, <4>4
    <3> HIDE DEF DatabaseInv
    <3> QED BY <2>1, <3>5, <3>6 DEF Counted
  <2> QED BY <2>3, <2>4, <2>5
<1>7. CASE PutAnswered \/ DataPushed
  <2>1. /\ toClient # <<>> /\ Head(toClient).type \in {"put", "data"} /\ toClient' = Tail(toClient)
        /\ UNCHANGED <<server, toServer, connection>>
    BY <1>7 DEF PutAnswered, DataPushed
  <2>2. asked(toClient') = asked(toClient) /\ tokens(toClient') = tokens(toClient)
    BY <2>1, AnswerTaken, SameCount
  <2> QED BY <1>0, <2>1, <2>2 DEF Counted
<1>8. CASE ListenAnswered
  <2>1. /\ toClient # <<>> /\ Head(toClient).type = "listen" /\ toClient' = Tail(toClient)
        /\ UNCHANGED <<server, toServer>>
    BY <1>8 DEF ListenAnswered
  <2>2. connection' = [state |-> connection.state, retrying |-> connection.retrying,
                       token |-> connection.token, killed |-> connection.killed,
                       unacked |-> connection.unacked - 1]
    BY <1>8, RecordsAre DEF ListenAnswered
  <2>3. asked(toClient) = asked(toClient') + 1 /\ tokens(toClient') = tokens(toClient)
    BY <2>1, AnswerTaken, SameCount
  <2>4. asked(toClient') \in Nat
    BY <2>1, AnswersCounted
  <2>5. connection'.state = connection.state /\ connection'.unacked = connection.unacked - 1
    BY <2>2
  <2>6. tokens(toServer') + tokens(toClient') = IF connection'.state = "Authenticating" THEN 1 ELSE 0
    BY <1>0, <2>1, <2>3, <2>5, Zenon
  <2>7. connection'.unacked = asked(toServer') + Len(server'.due) + asked(toClient')
    <3>1. asked(toServer') = asked(toServer) /\ server'.due = server.due
      BY <2>1
    <3> QED BY <1>0, <1>a, <2>3, <2>4, <2>5, <3>1
  <2>8. connection'.unacked <= 2
          /\ (connection'.state = "Authenticating" => connection'.unacked <= 1)
    BY <1>0, <1>a, <2>5
  <2> HIDE DEF DatabaseInv
  <2> QED BY <2>6, <2>7, <2>8, Zenon DEF Counted
<1>9. CASE HandleAuth
  <2>1. UNCHANGED <<server, connection>>
    BY <1>9, HandleAuthDoes
  <2>2. asked(toServer') = asked(toServer) /\ asked(toClient') = asked(toClient)
    BY <1>9, HandleAuthSends, SameCount
  <2>3. tokens(toServer) = tokens(toServer') + 1 /\ tokens(toClient') = tokens(toClient) + 1
    BY <1>9, HandleAuthSends
  <2>4. tokens(toServer') \in Nat
    BY <1>9, HandleAuthDoes, TypedIsKept, CountIsNat DEF Typed
  <2> QED BY <1>0, <1>a, <2>1, <2>2, <2>3, <2>4 DEF Counted
<1>10. CASE HandlePut
  <2>1. UNCHANGED connection
    BY <1>10, HandlePutDoes, Zenon
  <2>2. server'.due = server.due
    BY <1>10, HandlePutCommits
  <2>3. /\ asked(toServer') = asked(toServer) /\ asked(toClient') = asked(toClient)
        /\ tokens(toServer') = tokens(toServer) /\ tokens(toClient') = tokens(toClient)
    BY <1>10, HandlePutSends, SameCount
  <2> QED BY <1>0, <2>1, <2>2, <2>3 DEF Counted
<1>11. CASE HandleListen
  <2>1. /\ toServer # <<>> /\ Head(toServer).type = "listen" /\ toServer' = Tail(toServer)
        /\ server'.due = Append(server.due, Head(toServer))
        /\ UNCHANGED <<toClient, connection>>
    BY <1>11, HandleListenDoes
  <2>2. Len(server'.due) = Len(server.due) + 1
    <3>1. server.due \in Seq(ListenRequests)
      BY RecordsAre
    <3> QED BY <2>1, <3>1
  <2>3. asked(toServer) = asked(toServer') + 1 /\ tokens(toServer') = tokens(toServer)
    BY <2>1, RequestTaken, SameCount
  <2>4. asked(toServer') \in Nat
    BY <2>1, TypedIsKept, CountIsNat DEF Typed
  <2> QED BY <1>0, <1>a, <2>1, <2>2, <2>3, <2>4 DEF Counted
<1>12. CASE AnswerListen
  <2>1. /\ server.due # <<>> /\ server'.due = Tail(server.due)
        /\ UNCHANGED <<toServer, connection>>
    BY <1>12, AnswerListenDoes
  <2>2. Len(server'.due) = Len(server.due) - 1
    <3>1. server.due \in Seq(ListenRequests)
      BY RecordsAre
    <3> QED BY <2>1, <3>1
  <2>3. asked(toClient') = asked(toClient) + 1 /\ tokens(toClient') = tokens(toClient)
    BY <1>12, AnswerListenSends, SameCount
  <2> QED BY <1>0, <1>a, <2>1, <2>2, <2>3 DEF Counted
<1>13. CASE ForeignWrite
  <2>1. PICK value : Commits(value, 0) /\ UNCHANGED <<toServer, connection>>
    BY <1>13, ForeignWriteDoes
  <2>2. server'.due = server.due
    BY <2>1 DEF Commits
  <2>3. asked(toClient') = asked(toClient) /\ tokens(toClient') = tokens(toClient)
    BY <1>13, ForeignWriteSends, SameCount
  <2> QED BY <1>0, <2>1, <2>2, <2>3 DEF Counted
<1>14. CASE UNCHANGED vars
  BY <1>14 DEF vars, wire, Counted
<1> QED BY <1>1, <1>2, <1>3, <1>4, <1>5, <1>6, <1>7, <1>8, <1>9, <1>10, <1>11, <1>12, <1>13, <1>14,
           StepsAre

(* The first message leads the client on from what it knows of the server. *)
LEMMA HeadLeads ==
  ASSUME DatabaseInv, toClient # <<>>
  PROVE  \E to \in 0..Len(server.log) :
           Leads(server.log, Head(toClient), view.server.at, to)
<1> USE DEF DatabaseInv
<1>1. PICK p \in [0..Len(toClient) -> 0..Len(server.log)] :
        Path(server.log, toClient, p) /\ p[0] = view.server.at
  BY DEF Led, Follows, Chain
<1>2. 1 \in 1..Len(toClient) /\ 1 \in 0..Len(toClient) /\ toClient[1] = Head(toClient) /\ 1 - 1 = 0
  BY DEF Typed
<1>3. Leads(server.log, toClient[1], p[1 - 1], p[1])
  BY <1>1, <1>2 DEF Path
<1> QED BY <1>1, <1>2, <1>3

(* So the observers' update is never the one that is ignored.              *)
LEMMA DataPushedMoves ==
  ASSUME DatabaseInv, DataPushed
  PROVE  LET data == Head(toClient) IN
         /\ toClient # <<>> /\ data.type = "data" /\ toClient' = Tail(toClient)
         /\ data.at \in 1..Len(server.log) /\ view.server.at <= data.at
         /\ view'.server = [node |-> NodeAt(server.log, data.at), complete |-> TRUE,
                            at |-> data.at]
         /\ UNCHANGED <<server, toServer, connection, puts, tree, observed, made>>
<1> DEFINE data == Head(toClient)
<1> USE DEF DatabaseInv
<1>1. toClient # <<>> /\ data.type = "data" /\ toClient' = Tail(toClient)
        /\ UNCHANGED <<server, toServer, connection, puts, tree, observed, made>>
  BY DEF DataPushed
<1>2. /\ data \in DataPushes
      /\ IF data.kind = "merge" /\ ~view.server.complete /\ view.server.node = EmptyNode
         THEN view' = view
         ELSE view'.server = [node |-> Over(data.value, view.server.node),
                              complete |-> view.server.complete \/ data.kind = "set",
                              at |-> data.at]
  BY DataPushedDoes
<1>3. PICK to \in 0..Len(server.log) : Leads(server.log, data, view.server.at, to)
  BY <1>1, HeadLeads
<1>4. /\ data.value \in Partial /\ data.kind \in {"set", "child", "merge"}
      /\ data.kind = "set" => DOMAIN data.value = Keys
  BY <1>2 DEF DataPushes
<1>5. view.server.node = NodeAt(server.log, view.server.at) /\ view.server.node \in Node
        /\ (view.server.complete <=> view.server.at > 0) /\ view.server.complete \in BOOLEAN
  BY ViewIs DEF Led, Quiet, Typed
<1>6. /\ to = data.at /\ view.server.at <= to /\ to > 0
      /\ IF data.kind = "set" THEN NodeAt(server.log, to) = data.value
         ELSE view.server.at > 0
                /\ NodeAt(server.log, to) = Over(data.value, NodeAt(server.log, view.server.at))
  BY <1>1, <1>3 DEF Leads
<1>7. data.at \in 1..Len(server.log)
  BY <1>3, <1>6
<1>8. view'.server = [node |-> Over(data.value, view.server.node), complete |-> TRUE, at |-> data.at]
  BY <1>2, <1>4, <1>5, <1>6
<1>9. NodeAt(server.log, data.at) = Over(data.value, view.server.node)
  <2>1. CASE data.kind = "set"
    <3> DEFINE value == data.value
               node == view.server.node
    <3>1. value \in Partial /\ node \in Node /\ DOMAIN value = Keys
      BY <1>4, <1>5, <2>1
    <3> HIDE DEF value, node
    <3>2. Over(value, node) = value
      BY <3>1, CoveredNode
    <3> QED BY <1>6, <2>1, <3>2 DEF value, node
  <2>2. CASE data.kind # "set"
    BY <1>5, <1>6, <2>2
  <2> QED BY <2>1, <2>2
<1> HIDE DEF data
<1> QED BY <1>1, <1>6, <1>7, <1>8, <1>9 DEF data

LEMMA ListenAnsweredMoves ==
  ASSUME DatabaseInv, ListenAnswered
  PROVE  LET m == Head(toClient) IN
         /\ toClient # <<>> /\ m.type = "listen" /\ toClient' = Tail(toClient)
         /\ m.at \in 1..Len(server.log) /\ view.server.at <= m.at
         /\ view'.server = [node |-> NodeAt(server.log, m.at), complete |-> TRUE, at |-> m.at]
         /\ connection'.state = connection.state /\ connection'.unacked = connection.unacked - 1
         /\ UNCHANGED <<server, toServer, outstandingPuts, observed, made>>
<1> DEFINE m == Head(toClient)
<1> USE DEF DatabaseInv
<1>1. toClient # <<>> /\ m.type = "listen" /\ toClient' = Tail(toClient)
        /\ UNCHANGED <<server, toServer, outstandingPuts, observed, made>>
  BY DEF ListenAnswered
<1>2. PICK to \in 0..Len(server.log) : Leads(server.log, m, view.server.at, to)
  BY <1>1, HeadLeads
<1>3. /\ to = m.at /\ view.server.at <= to /\ to > 0
      /\ NodeAt(server.log, to) = NodeAt(server.log, view.server.at)
  BY <1>1, <1>2 DEF Leads
<1>4. m.at \in 1..Len(server.log)
  BY <1>2, <1>3
<1>5. view.server.node = NodeAt(server.log, view.server.at)
  BY DEF Led
<1>6. view'.server = [node |-> view.server.node, complete |-> TRUE, at |-> m.at]
  BY ListenAnsweredDoes
<1>7. connection' = [state |-> connection.state, retrying |-> connection.retrying,
                     token |-> connection.token, killed |-> connection.killed,
                     unacked |-> connection.unacked - 1]
  BY RecordsAre DEF ListenAnswered
<1> HIDE DEF m
<1> QED BY <1>1, <1>3, <1>4, <1>5, <1>6, <1>7 DEF m

LEMMA PutAnsweredMoves ==
  ASSUME DatabaseInv, PutAnswered
  PROVE  /\ toClient # <<>> /\ Head(toClient).type = "put" /\ toClient' = Tail(toClient)
         /\ view'.server = view.server
         /\ UNCHANGED <<server, toServer, connection, observed, made>>
<1>1. toClient # <<>> /\ Head(toClient).type = "put" /\ toClient' = Tail(toClient)
        /\ UNCHANGED <<server, toServer, connection, observed, made>>
  BY DEF PutAnswered
<1>2. view'.server = view.server
  BY PutAnsweredDoes
<1> QED BY <1>1, <1>2

LEMMA WriteDataMoves ==
  ASSUME DatabaseInv, WriteData
  PROVE  view'.server = view.server
<1> USE DEF DatabaseInv
<1>1. PICK w \in Write : view' = (IF observed THEN applyUserWrite(view, w) ELSE view)
  BY WriteDataDoes
<1>2. view \in ViewType /\ visibleWrites \in Visible
  BY DEF Typed
<1>3. observed => applyUserWrite(view, w).server = view.server
  BY <1>2, ViewAfterWrite DEF Viewed
<1> QED BY <1>1, <1>3

NothingKnown == [node |-> EmptyNode, complete |-> FALSE, at |-> 0]

LEMMA QuietIsKept ==
  ASSUME DatabaseInv, [Next]_vars
  PROVE  Quiet'
<1> DEFINE listens(s) == CountOf("listen", s)
           updates(s) == CountOf("data", s)
<1> USE DEF DatabaseInv
<1>0. /\ ~Connected => /\ toServer = <<>> /\ toClient = <<>> /\ server.due = <<>>
                       /\ ~server.listening
      /\ ~server.listening => updates(toClient) = 0 /\ listens(toClient) = 0
      /\ ~observed => /\ connection.unacked = 0 /\ ~server.listening /\ putsToAck = <<>>
                      /\ view.server = NothingKnown
      /\ connection.state = "Connected" /\ connection.unacked = 0 =>
           putsToAck = <<>> /\ (observed => view.server.complete /\ server.listening)
      /\ view.server.complete <=> view.server.at > 0
  BY DEF Quiet, NothingKnown
<1>1. CASE WriteData
  <2>1. PICK w : /\ toServer' = (IF CanSendWrites THEN Append(toServer, PutRequest(w)) ELSE toServer)
                 /\ UNCHANGED <<server, toClient, connection, putsToAck, observed>>
    BY <1>1, WriteDataDoes
  <2>2. CanSendWrites => Connected
    BY DEF CanSendWrites, Connected
  <2>3. Connected' = Connected
    BY <2>1 DEF Connected
  <2>4. view'.server = view.server
    BY <1>1, WriteDataMoves
  <2> HIDE DEF DatabaseInv
  <2> QED BY <1>0, <2>1, <2>2, <2>3, <2>4 DEF Quiet, NothingKnown
<1>2. CASE Observe
  <2>1. /\ ~observed /\ observed' = TRUE /\ view' = FreshView(visibleWrites)
        /\ connection'.state = connection.state
        /\ connection'.unacked = connection.unacked + (IF Connected THEN 1 ELSE 0)
        /\ (~Connected => toServer' = toServer)
        /\ UNCHANGED <<server, toClient, puts>>
    BY <1>2, ObserveDoes
  <2>2. view'.server = NothingKnown /\ putsToAck' = putsToAck
    BY <2>1 DEF FreshView, NothingKnown, puts
  <2>3. Connected' = Connected
    BY <2>1 DEF Connected
  <2>4. Connected => connection'.unacked = 1
    BY <1>0, <2>1
  <2>5. NothingKnown.complete = FALSE /\ NothingKnown.at = 0 /\ ~(0 > 0)
    BY DEF NothingKnown
  <2>6. connection'.state = "Connected" => Connected
    BY <2>1 DEF Connected
  <2> HIDE DEF DatabaseInv
  <2> QED BY <1>0, <2>1, <2>2, <2>3, <2>4, <2>5, <2>6 DEF Quiet, NothingKnown
<1>3. CASE Waits
  <2>1. /\ connection'.unacked = connection.unacked /\ ~Connected /\ ~Connected'
        /\ UNCHANGED <<server, wire, puts, observed, view>>
    BY <1>3, WaitsDoes
  <2>2. connection'.state # "Connected"
    BY <2>1 DEF Connected
  <2>3. toServer' = toServer /\ toClient' = toClient /\ putsToAck' = putsToAck
    BY <2>1 DEF wire, puts
  <2> HIDE DEF DatabaseInv
  <2> QED BY <1>0, <2>1, <2>2, <2>3 DEF Quiet, NothingKnown
<1>4. CASE Loses
  <2>1. /\ connection'.unacked = 0 /\ connection'.state = "Disconnected"
        /\ server' = [log |-> server.log, listening |-> FALSE, due |-> <<>>]
        /\ toServer' = <<>> /\ toClient' = <<>> /\ UNCHANGED <<puts, observed, view>>
    BY <1>4, LosesDoes
  <2>2. updates(toClient') = 0 /\ listens(toClient') = 0 /\ putsToAck' = putsToAck
          /\ server'.due = <<>> /\ server'.listening = FALSE
    BY <2>1, NoCounts DEF puts
  <2> HIDE DEF DatabaseInv
  <2> QED BY <1>0, <2>1, <2>2 DEF Quiet, NothingKnown
<1>5. CASE EndProcess
  <2>1. /\ connection'.unacked = 0 /\ connection'.state = "Disconnected"
        /\ server' = [log |-> server.log, listening |-> FALSE, due |-> <<>>]
        /\ toServer' = <<>> /\ toClient' = <<>> /\ putsToAck' = <<>>
        /\ view' = FreshView(EmptyWrite)
    BY <1>5, EndProcessDoes
  <2>2. updates(toClient') = 0 /\ listens(toClient') = 0 /\ view'.server = NothingKnown
          /\ server'.due = <<>> /\ server'.listening = FALSE
    BY <2>1, NoCounts DEF FreshView, NothingKnown
  <2>3. NothingKnown.complete = FALSE /\ NothingKnown.at = 0 /\ ~(0 > 0)
    BY DEF NothingKnown
  <2> HIDE DEF DatabaseInv
  <2> QED BY <2>1, <2>2, <2>3 DEF Quiet, NothingKnown
<1>6. CASE SendsAuth
  <2>1. /\ connection.state = "Connecting" /\ connection'.state = "Authenticating"
        /\ connection'.unacked = connection.unacked
        /\ UNCHANGED <<server, toClient, puts, observed, view>>
    BY <1>6, SendsAuthDoes
  <2>2. ~Connected /\ Connected' /\ putsToAck' = putsToAck
    BY <2>1 DEF Connected, puts
  <2> HIDE DEF DatabaseInv
  <2> QED BY <1>0, <2>1, <2>2 DEF Quiet, NothingKnown
<1>7. CASE Restores
  <2>1. /\ connection'.state = "Connected"
        /\ connection'.unacked = connection.unacked + (IF observed THEN 1 ELSE 0)
        /\ UNCHANGED <<server, puts, observed, view>>
    BY <1>7, RestoresDoes
  <2>2. Connected' /\ putsToAck' = putsToAck
    BY <2>1 DEF Connected, puts
  <2>3. /\ ~observed => connection'.unacked = 0
        /\ observed => connection'.unacked # 0
    <3>1. connection.unacked \in Nat
      BY <1>7, AnswersCounted, RecordsAre DEF Counted
    <3> QED BY <1>0, <2>1, <3>1
  <2>4. ~server.listening => updates(toClient') = 0 /\ listens(toClient') = 0
    <3>1. CASE toClient' = toClient
      BY <1>0, <3>1
    <3>2. CASE toClient # <<>> /\ Head(toClient).type = "auth" /\ toClient' = Tail(toClient)
      BY <1>0, <3>2, AnswerTaken, SameCount
    <3> QED BY <1>7, <3>1, <3>2, RestoresDoes
  <2> HIDE DEF DatabaseInv
  <2> QED BY <1>0, <2>1, <2>2, <2>3, <2>4 DEF Quiet, NothingKnown
<1>8. CASE PutAnswered
  <2>1. /\ toClient # <<>> /\ Head(toClient).type = "put" /\ toClient' = Tail(toClient)
        /\ view'.server = view.server
        /\ UNCHANGED <<server, toServer, connection, observed>>
    BY <1>8, PutAnsweredMoves
  <2>2. updates(toClient') = updates(toClient) /\ listens(toClient') = listens(toClient)
    BY <2>1, AnswerTaken, SameCount
  <2>3. connection.unacked = 0 => putsToAck' = <<>>
    BY <1>8, PutAnsweredDoes
  <2>4. Connected' /\ Connected
    BY <1>0, <2>1 DEF Connected
  <2> HIDE DEF DatabaseInv
  <2> QED BY <1>0, <2>1, <2>2, <2>3, <2>4 DEF Quiet, NothingKnown
<1>9. CASE ListenAnswered
  <2>1. /\ toClient # <<>> /\ Head(toClient).at \in 1..Len(server.log)
        /\ view'.server = [node |-> NodeAt(server.log, Head(toClient).at), complete |-> TRUE,
                           at |-> Head(toClient).at]
        /\ connection'.state = connection.state /\ connection'.unacked = connection.unacked - 1
        /\ UNCHANGED <<server, toServer, observed>>
    BY <1>9, ListenAnsweredMoves
  <2>2. observed /\ server.listening /\ putsToAck' = (IF connection.unacked = 1 THEN <<>> ELSE putsToAck)
    BY <1>9, ListenAnsweredDoes
  <2>3. Connected' /\ Connected
    BY <1>0, <2>1 DEF Connected
  <2>4. connection'.unacked = 0 => connection.unacked = 1
    BY <2>1, RecordsAre
  <2>5. view'.server.complete /\ view'.server.at > 0
    BY <2>1
  <2> HIDE DEF DatabaseInv
  <2> QED BY <2>1, <2>2, <2>3, <2>4, <2>5 DEF Quiet, NothingKnown
<1>10. CASE DataPushed
  <2>1. /\ toClient # <<>> /\ Head(toClient).at \in 1..Len(server.log)
        /\ view'.server = [node |-> NodeAt(server.log, Head(toClient).at), complete |-> TRUE,
                           at |-> Head(toClient).at]
        /\ UNCHANGED <<server, toServer, connection, puts, observed>>
    BY <1>10, DataPushedMoves
  <2>2. observed /\ server.listening
    BY <1>10, DataPushedDoes
  <2>3. Connected' /\ Connected /\ putsToAck' = putsToAck
    BY <1>0, <2>1 DEF Connected, puts
  <2>4. view'.server.complete /\ view'.server.at > 0
    BY <2>1
  <2> HIDE DEF DatabaseInv
  <2> QED BY <1>0, <2>1, <2>2, <2>3, <2>4 DEF Quiet, NothingKnown
<1>11. CASE HandleAuth
  <2>1. toServer # <<>> /\ UNCHANGED <<server, connection, puts, observed, view>>
    BY <1>11, HandleAuthDoes
  <2>2. updates(toClient') = updates(toClient) /\ listens(toClient') = listens(toClient)
    BY <1>11, HandleAuthSends, SameCount
  <2>3. Connected' /\ Connected /\ putsToAck' = putsToAck
    BY <1>0, <2>1 DEF Connected, puts
  <2> HIDE DEF DatabaseInv
  <2> QED BY <1>0, <2>1, <2>2, <2>3 DEF Quiet, NothingKnown
<1>12. CASE HandlePut
  <2>1. toServer # <<>> /\ UNCHANGED <<connection, puts, observed, view>>
    BY <1>12, HandlePutDoes, Zenon
  <2>2. server'.due = server.due /\ server'.listening = server.listening
    BY <1>12, HandlePutCommits
  <2>3. ~server.listening => updates(toClient') = updates(toClient) /\ listens(toClient') = listens(toClient)
    BY <1>12, HandlePutSends, SameCount
  <2>4. Connected' /\ Connected /\ putsToAck' = putsToAck
    BY <1>0, <2>1 DEF Connected, puts
  <2> HIDE DEF DatabaseInv
  <2> QED BY <1>0, <2>1, <2>2, <2>3, <2>4 DEF Quiet, NothingKnown
<1>13. CASE HandleListen
  <2>1. /\ toServer # <<>> /\ server'.listening = server.listening
        /\ UNCHANGED <<toClient, connection, puts, observed, view>>
    BY <1>13, HandleListenDoes
  <2>2. Connected' /\ Connected /\ putsToAck' = putsToAck
    BY <1>0, <2>1 DEF Connected, puts
  <2> HIDE DEF DatabaseInv
  <2> QED BY <1>0, <2>1, <2>2 DEF Quiet, NothingKnown
<1>14. CASE AnswerListen
  <2>1. /\ server.due # <<>> /\ server'.listening = TRUE
        /\ UNCHANGED <<toServer, connection, puts, observed, view>>
    BY <1>14, AnswerListenDoes
  <2>2. Connected' /\ Connected /\ putsToAck' = putsToAck
    BY <1>0, <2>1 DEF Connected, puts
  <2>3. observed
    <3>1. server.due \in Seq(ListenRequests) /\ Len(server.due) \in Nat /\ Len(server.due) # 0
      BY <2>1, RecordsAre
    <3>2. connection.unacked # 0
      BY <3>1, AnswersCounted DEF Counted
    <3> QED BY <1>0, <3>2
  <2> HIDE DEF DatabaseInv
  <2> QED BY <1>0, <2>1, <2>2, <2>3 DEF Quiet, NothingKnown
<1>15. CASE ForeignWrite
  <2>1. PICK value : Commits(value, 0) /\ UNCHANGED <<toServer, connection, puts, observed, view>>
    BY <1>15, ForeignWriteDoes
  <2>2. server'.due = server.due /\ server'.listening = server.listening
    BY <2>1 DEF Commits
  <2>3. ~server.listening => toClient' = toClient
    BY <1>15, ForeignWriteSends
  <2>4. Connected' = Connected /\ putsToAck' = putsToAck
    BY <2>1 DEF Connected, puts
  <2> HIDE DEF DatabaseInv
  <2> QED BY <1>0, <2>1, <2>2, <2>3, <2>4 DEF Quiet, NothingKnown
<1>16. CASE UNCHANGED vars
  BY <1>16 DEF vars, wire, puts, Quiet, Connected
<1> QED BY <1>1, <1>2, <1>3, <1>4, <1>5, <1>6, <1>7, <1>8, <1>9, <1>10, <1>11, <1>12, <1>13, <1>14,
           <1>15, <1>16, StepsAre


-----------------------------------------------------------------------------
(* Part 3 is kept. *)

LEMMA WriteIds == \A w \in Write : w.id \in 1..MaxWrites /\ w.id \in Int
BY WriteTyped

LEMMA HeldIds == \A a \in Held : a.id \in 1..MaxWrites
BY DEF Held

LEMMA QueueAppended ==
  ASSUME NEW writes \in Seq(Write), NEW held \in Seq(Held), NEW waiting \in Seq(Write),
         NEW n \in Nat, QueueOf(writes, held, waiting, n), NEW w \in Write, w.id = n + 1
  PROVE  QueueOf(Append(writes, w), held, Append(waiting, w), n + 1)
<1> DEFINE all  == Append(writes, w)
           rest == Append(waiting, w)
<1>1. /\ Len(writes) \in Nat /\ Len(held) \in Nat /\ Len(waiting) \in Nat
      /\ Len(all) = Len(writes) + 1 /\ Len(rest) = Len(waiting) + 1
      /\ all[Len(writes) + 1] = w /\ rest[Len(waiting) + 1] = w
      /\ \A i \in 1..Len(writes) : all[i] = writes[i] /\ writes[i].id \in Int
      /\ \A i \in 1..Len(waiting) : rest[i] = waiting[i]
  BY WriteIds
<1>2. /\ \A i, j \in 1..Len(writes) : i < j => writes[i].id < writes[j].id
      /\ \A i \in 1..Len(writes) : writes[i].id <= n
      /\ Len(writes) = Len(held) + Len(waiting)
      /\ \A i \in 1..Len(held) : writes[i].id = held[i].id
      /\ \A i \in 1..Len(waiting) : writes[Len(held) + i] = waiting[i]
  BY DEF QueueOf
<1> HIDE DEF all, rest
<1>3. \A i, j \in 1..Len(all) : i < j => all[i].id < all[j].id
  <2> SUFFICES ASSUME NEW i \in 1..Len(all), NEW j \in 1..Len(all), i < j
               PROVE  all[i].id < all[j].id
    OBVIOUS
  <2>1. i \in 1..Len(writes) /\ all[i] = writes[i]
    BY <1>1
  <2>2. CASE j \in 1..Len(writes)
    BY <1>1, <1>2, <2>1, <2>2
  <2>3. CASE j = Len(writes) + 1
    <3>1. writes[i].id <= n /\ writes[i].id \in Int
      BY <1>1, <1>2, <2>1
    <3>2. all[j].id = n + 1
      BY <1>1, <2>3
    <3> QED BY <2>1, <3>1, <3>2
  <2> QED BY <1>1, <2>2, <2>3
<1>4. \A i \in 1..Len(all) : all[i].id <= n + 1
  <2> SUFFICES ASSUME NEW i \in 1..Len(all) PROVE all[i].id <= n + 1
    OBVIOUS
  <2>1. CASE i \in 1..Len(writes)
    BY <1>1, <1>2, <2>1
  <2>2. CASE i = Len(writes) + 1
    BY <1>1, <2>2
  <2> QED BY <1>1, <2>1, <2>2
<1>5. Len(all) = Len(held) + Len(rest)
  BY <1>1, <1>2
<1>6. \A i \in 1..Len(held) : all[i].id = held[i].id
  BY <1>1, <1>2
<1>7. \A i \in 1..Len(rest) : all[Len(held) + i] = rest[i]
  <2> SUFFICES ASSUME NEW i \in 1..Len(rest) PROVE all[Len(held) + i] = rest[i]
    OBVIOUS
  <2>1. CASE i \in 1..Len(waiting)
    <3>1. Len(held) + i \in 1..Len(writes)
      BY <1>1, <1>2, <2>1
    <3> QED BY <1>1, <1>2, <2>1, <3>1
  <2>2. CASE i = Len(waiting) + 1
    <3>1. Len(held) + i = Len(writes) + 1
      BY <1>1, <1>2, <2>2
    <3> QED BY <1>1, <2>2, <3>1
  <2> QED BY <1>1, <2>1, <2>2
<1> QED BY <1>3, <1>4, <1>5, <1>6, <1>7 DEF QueueOf, all, rest

LEMMA QueueHeld ==
  ASSUME NEW writes \in Seq(Write), NEW held \in Seq(Held), NEW waiting \in Seq(Write),
         NEW n \in Nat, QueueOf(writes, held, waiting, n), waiting # <<>>,
         NEW answer \in Held, answer.id = waiting[1].id
  PROVE  QueueOf(writes, Append(held, answer), Tail(waiting), n)
<1> DEFINE kept == Append(held, answer)
           rest == Tail(waiting)
<1>1. /\ Len(writes) \in Nat /\ Len(held) \in Nat /\ Len(waiting) \in Nat \ {0}
      /\ Len(kept) = Len(held) + 1 /\ Len(rest) = Len(waiting) - 1
      /\ kept[Len(held) + 1] = answer
      /\ \A i \in 1..Len(held) : kept[i] = held[i]
      /\ \A i \in 1..Len(rest) : rest[i] = waiting[i + 1]
  OBVIOUS
<1>2. /\ \A i, j \in 1..Len(writes) : i < j => writes[i].id < writes[j].id
      /\ \A i \in 1..Len(writes) : writes[i].id <= n
      /\ Len(writes) = Len(held) + Len(waiting)
      /\ \A i \in 1..Len(held) : writes[i].id = held[i].id
      /\ \A i \in 1..Len(waiting) : writes[Len(held) + i] = waiting[i]
  BY DEF QueueOf
<1> HIDE DEF kept, rest
<1>3. Len(writes) = Len(kept) + Len(rest)
  BY <1>1, <1>2
<1>4. \A i \in 1..Len(kept) : writes[i].id = kept[i].id
  <2> SUFFICES ASSUME NEW i \in 1..Len(kept) PROVE writes[i].id = kept[i].id
    OBVIOUS
  <2>1. CASE i \in 1..Len(held)
    BY <1>1, <1>2, <2>1
  <2>2. CASE i = Len(held) + 1
    <3>1. writes[Len(held) + 1] = waiting[1]
      BY <1>1, <1>2
    <3> QED BY <1>1, <2>2, <3>1
  <2> QED BY <1>1, <2>1, <2>2
<1>5. \A i \in 1..Len(rest) : writes[Len(kept) + i] = rest[i]
  <2> SUFFICES ASSUME NEW i \in 1..Len(rest) PROVE writes[Len(kept) + i] = rest[i]
    OBVIOUS
  <2>1. i + 1 \in 1..Len(waiting) /\ Len(kept) + i = Len(held) + (i + 1)
    BY <1>1
  <2> QED BY <1>1, <1>2, <2>1
<1> QED BY <1>2, <1>3, <1>4, <1>5 DEF QueueOf, kept, rest

(* The writes with a held answer go, or the oldest when none is held.      *)
LEMMA QueueAcked ==
  ASSUME NEW writes \in Seq(Write), NEW held \in Seq(Held), NEW waiting \in Seq(Write),
         NEW n \in Nat, QueueOf(writes, held, waiting, n)
  PROVE  QueueOf(SubSeq(writes, Len(held) + 1, Len(writes)), <<>>, waiting, n)
<1> DEFINE rest == SubSeq(writes, Len(held) + 1, Len(writes))
<1>1. /\ \A i, j \in 1..Len(writes) : i < j => writes[i].id < writes[j].id
      /\ \A i \in 1..Len(writes) : writes[i].id <= n
      /\ Len(writes) = Len(held) + Len(waiting)
      /\ \A i \in 1..Len(waiting) : writes[Len(held) + i] = waiting[i]
  BY DEF QueueOf
<1>2. Len(writes) \in Nat /\ Len(held) \in Nat /\ Len(waiting) \in Nat
  OBVIOUS
<1>3. Len(rest) = Len(waiting) /\ \A i \in 1..Len(waiting) : rest[i] = writes[Len(held) + i]
                                                          /\ Len(held) + i \in 1..Len(writes)
  BY <1>1, <1>2
<1> HIDE DEF rest
<1>4. \A i, j \in 1..Len(rest) : i < j => rest[i].id < rest[j].id
  <2> SUFFICES ASSUME NEW i \in 1..Len(rest), NEW j \in 1..Len(rest), i < j
               PROVE  rest[i].id < rest[j].id
    OBVIOUS
  <2>1. Len(held) + i < Len(held) + j
    BY <1>2, <1>3
  <2> QED BY <1>1, <1>3, <2>1
<1>5. \A i \in 1..Len(rest) : rest[i].id <= n
  BY <1>1, <1>3
<1>6. \A i \in 1..Len(waiting) : rest[0 + i] = waiting[i]
  BY <1>1, <1>3
<1>7. Len(rest) = 0 + Len(waiting) /\ Len(<<>>) = 0
  BY <1>2, <1>3
<1> QED BY <1>4, <1>5, <1>6, <1>7 DEF QueueOf, rest

LEMMA QueuedIsKept ==
  ASSUME DatabaseInv, [Next]_vars
  PROVE  Queued'
<1> USE DEF DatabaseInv
<1>1. /\ allWrites \in Seq(Write) /\ putsToAck \in Seq(Held) /\ outstandingPuts \in Seq(Write)
      /\ made.writes \in Nat
      /\ QueueOf(allWrites, putsToAck, outstandingPuts, made.writes)
  BY RecordsAre, DatabaseValuesAssumption DEF Typed, Queued
<1>2. CASE WriteData
  <2>1. PICK w \in Write :
          /\ w.id = made.writes + 1 /\ made'.writes = made.writes + 1
          /\ allWrites' = Append(allWrites, w) /\ outstandingPuts' = Append(outstandingPuts, w)
          /\ putsToAck' = putsToAck
    BY <1>2, WriteDataDoes
  <2> QED BY <1>1, <2>1, QueueAppended DEF Queued
<1>3. CASE PutAnswered
  <2> DEFINE answer == [id |-> Head(toClient).id, ok |-> Head(toClient).ok]
  <2>1. /\ answer \in Held /\ outstandingPuts # <<>> /\ answer.id = outstandingPuts[1].id
        /\ outstandingPuts' = Tail(outstandingPuts) /\ made' = made
    BY <1>3, PutAnsweredDoes, PutAnsweredMoves
  <2>2. QueueOf(allWrites, Append(putsToAck, answer), Tail(outstandingPuts), made.writes)
    <3> HIDE DEF answer
    <3> QED BY <1>1, <2>1, QueueHeld
  <2>3. CASE connection.unacked = 0
    <3>1. putsToAck = <<>> /\ putsToAck' = <<>> /\ allWrites # <<>> /\ allWrites' = Tail(allWrites)
      BY <1>3, <2>3, PutAnsweredDoes
    <3>2. Append(<<>>, answer) \in Seq(Held) /\ Len(Append(<<>>, answer)) = 1
            /\ Tail(outstandingPuts) \in Seq(Write)
      BY <1>1, <2>1
    <3>3. SubSeq(allWrites, 1 + 1, Len(allWrites)) = Tail(allWrites)
      BY <1>1, <3>1
    <3> DEFINE one == Append(<<>>, answer)
    <3> HIDE DEF one, answer
    <3>4. QueueOf(SubSeq(allWrites, Len(one) + 1, Len(allWrites)), <<>>, Tail(outstandingPuts), made.writes)
      BY <1>1, <2>2, <3>1, <3>2, QueueAcked DEF one
    <3> QED BY <2>1, <3>1, <3>2, <3>3, <3>4 DEF Queued, one
  <2>4. CASE connection.unacked # 0
    BY <1>3, <2>1, <2>2, <2>4, PutAnsweredDoes DEF Queued
  <2> QED BY <2>3, <2>4
<1>4. CASE ListenAnswered
  <2>1. /\ allWrites' = SubSeq(allWrites, ListenAcks + 1, Len(allWrites))
        /\ putsToAck' = (IF connection.unacked = 1 THEN <<>> ELSE putsToAck)
        /\ outstandingPuts' = outstandingPuts /\ made' = made
    BY <1>4, ListenAnsweredDoes, ListenAnsweredMoves
  <2>2. CASE connection.unacked = 1
    BY <1>1, <2>1, <2>2, QueueAcked DEF Queued, ListenAcks
  <2>3. CASE connection.unacked # 1
    <3>1. SubSeq(allWrites, 0 + 1, Len(allWrites)) = allWrites
      BY <1>1
    <3> QED BY <1>1, <2>1, <2>3, <3>1 DEF Queued, ListenAcks
  <2> QED BY <2>2, <2>3
<1>5. CASE EndProcess
  <2>1. allWrites' = <<>> /\ putsToAck' = <<>> /\ outstandingPuts' = <<>>
    BY <1>5, EndProcessDoes
  <2>2. Len(<<>>) = 0
    OBVIOUS
  <2> QED BY <2>1, <2>2 DEF Queued, QueueOf
<1>6. ASSUME UNCHANGED <<allWrites, putsToAck, outstandingPuts>>, made'.writes = made.writes
      PROVE  Queued'
  BY <1>1, <1>6 DEF Queued
<1>7. CASE DataPushed
  BY <1>6, <1>7, DataPushedMoves DEF puts, tree
<1>8. CASE Loses \/ Waits
  BY <1>6, <1>8, LosesDoes, WaitsDoes DEF puts, tree
<1>9. CASE Observe \/ SendsAuth \/ Restores
  BY <1>6, <1>9, ObserveDoes, SendsAuthDoes, RestoresDoes DEF puts, tree
<1>10. CASE HandleAuth \/ HandlePut \/ HandleListen
  BY <1>6, <1>10, HandleAuthDoes, HandlePutDoes, HandleListenDoes DEF puts, tree
<1>11. CASE AnswerListen \/ ForeignWrite
  BY <1>6, <1>11, AnswerListenDoes, ForeignWriteDoes DEF puts, tree
<1>12. CASE UNCHANGED vars
  BY <1>6, <1>12 DEF vars, puts, tree
<1> QED BY <1>2, <1>3, <1>4, <1>5, <1>7, <1>8, <1>9, <1>10, <1>11, <1>12, StepsAre


(* The same for the wire. *)

LEMMA WireSent ==
  ASSUME NEW answers \in Seq(Answers), NEW requests \in Seq(Requests), NEW waiting \in Seq(Write),
         OnTheWire(answers, requests, waiting), NEW w \in Write
  PROVE  OnTheWire(answers, Append(requests, PutRequest(w)), Append(waiting, w))
<1> DEFINE sent == Append(requests, PutRequest(w))
           all  == Append(waiting, w)
<1>1. /\ Len(answers) \in Nat /\ Len(requests) \in Nat /\ Len(waiting) \in Nat
      /\ Len(sent) = Len(requests) + 1 /\ Len(all) = Len(waiting) + 1
      /\ sent[Len(requests) + 1] = PutRequest(w) /\ all[Len(waiting) + 1] = w
      /\ \A i \in 1..Len(requests) : sent[i] = requests[i]
      /\ \A i \in 1..Len(waiting) : all[i] = waiting[i]
  OBVIOUS
<1>2. /\ Len(answers) + Len(requests) = Len(waiting)
      /\ \A i \in 1..Len(answers) : answers[i].id = waiting[i].id
      /\ \A i \in 1..Len(requests) : requests[i].write = waiting[Len(answers) + i]
  BY DEF OnTheWire
<1> HIDE DEF sent, all
<1>3. Len(answers) + Len(sent) = Len(all)
  BY <1>1, <1>2
<1>4. \A i \in 1..Len(answers) : answers[i].id = all[i].id
  BY <1>1, <1>2
<1>5. \A i \in 1..Len(sent) : sent[i].write = all[Len(answers) + i]
  <2> SUFFICES ASSUME NEW i \in 1..Len(sent) PROVE sent[i].write = all[Len(answers) + i]
    OBVIOUS
  <2>1. CASE i \in 1..Len(requests)
    <3>1. Len(answers) + i \in 1..Len(waiting)
      BY <1>1, <1>2, <2>1
    <3> QED BY <1>1, <1>2, <2>1, <3>1
  <2>2. CASE i = Len(requests) + 1
    <3>1. Len(answers) + i = Len(waiting) + 1
      BY <1>1, <1>2, <2>2
    <3> QED BY <1>1, <2>2, <3>1 DEF PutRequest
  <2> QED BY <1>1, <2>1, <2>2
<1> QED BY <1>3, <1>4, <1>5 DEF OnTheWire, sent, all

LEMMA WireHandled ==
  ASSUME NEW answers \in Seq(Answers), NEW requests \in Seq(Requests), NEW waiting \in Seq(Write),
         NEW m \in Requests, OnTheWire(answers, <<m>> \o requests, waiting),
         NEW answer \in Answers, answer.id = m.write.id
  PROVE  OnTheWire(Append(answers, answer), requests, waiting)
<1> DEFINE given == Append(answers, answer)
           all   == <<m>> \o requests
<1>1. /\ Len(answers) \in Nat /\ Len(requests) \in Nat /\ Len(waiting) \in Nat
      /\ Len(given) = Len(answers) + 1 /\ Len(all) = Len(requests) + 1
      /\ given[Len(answers) + 1] = answer /\ all[1] = m
      /\ \A i \in 1..Len(answers) : given[i] = answers[i]
      /\ \A i \in 1..Len(requests) : requests[i] = all[i + 1]
  OBVIOUS
<1> HIDE DEF given, all
<1>2. /\ Len(answers) + Len(all) = Len(waiting)
      /\ \A i \in 1..Len(answers) : answers[i].id = waiting[i].id
      /\ \A i \in 1..Len(all) : all[i].write = waiting[Len(answers) + i]
  BY DEF OnTheWire, all
<1>3. Len(given) + Len(requests) = Len(waiting)
  BY <1>1, <1>2
<1>4. \A i \in 1..Len(given) : given[i].id = waiting[i].id
  <2> SUFFICES ASSUME NEW i \in 1..Len(given) PROVE given[i].id = waiting[i].id
    OBVIOUS
  <2>1. CASE i \in 1..Len(answers)
    BY <1>1, <1>2, <2>1
  <2>2. CASE i = Len(answers) + 1
    <3>1. all[1].write = waiting[Len(answers) + 1]
      BY <1>1, <1>2
    <3> QED BY <1>1, <2>2, <3>1
  <2> QED BY <1>1, <2>1, <2>2
<1>5. \A i \in 1..Len(requests) : requests[i].write = waiting[Len(given) + i]
  <2> SUFFICES ASSUME NEW i \in 1..Len(requests) PROVE requests[i].write = waiting[Len(given) + i]
    OBVIOUS
  <2>1. i + 1 \in 1..Len(all) /\ Len(given) + i = Len(answers) + (i + 1)
    BY <1>1
  <2> QED BY <1>1, <1>2, <2>1
<1> QED BY <1>3, <1>4, <1>5 DEF OnTheWire, given

LEMMA WireAnswered ==
  ASSUME NEW answers \in Seq(Answers), NEW requests \in Seq(Requests), NEW waiting \in Seq(Write),
         NEW m \in Answers, OnTheWire(<<m>> \o answers, requests, waiting)
  PROVE  OnTheWire(answers, requests, Tail(waiting))
<1> DEFINE all  == <<m>> \o answers
           rest == Tail(waiting)
<1>1. /\ Len(answers) \in Nat /\ Len(requests) \in Nat /\ Len(waiting) \in Nat
      /\ Len(all) = Len(answers) + 1
      /\ \A i \in 1..Len(answers) : answers[i] = all[i + 1]
  OBVIOUS
<1> HIDE DEF all
<1>2. /\ Len(all) + Len(requests) = Len(waiting)
      /\ \A i \in 1..Len(all) : all[i].id = waiting[i].id
      /\ \A i \in 1..Len(requests) : requests[i].write = waiting[Len(all) + i]
  BY DEF OnTheWire, all
<1>3. waiting # <<>>
  <2>1. Len(<<>>) = 0
    OBVIOUS
  <2> QED BY <1>1, <1>2, <2>1
<1>4. Len(rest) = Len(waiting) - 1 /\ \A i \in 1..Len(rest) : rest[i] = waiting[i + 1]
  BY <1>3
<1> HIDE DEF rest
<1>5. Len(answers) + Len(requests) = Len(rest)
  BY <1>1, <1>2, <1>4
<1>6. \A i \in 1..Len(answers) : answers[i].id = rest[i].id
  <2> SUFFICES ASSUME NEW i \in 1..Len(answers) PROVE answers[i].id = rest[i].id
    OBVIOUS
  <2>1. i + 1 \in 1..Len(all) /\ i \in 1..Len(rest)
    BY <1>1, <1>5
  <2> QED BY <1>1, <1>2, <1>4, <2>1
<1>7. \A i \in 1..Len(requests) : requests[i].write = rest[Len(answers) + i]
  <2> SUFFICES ASSUME NEW i \in 1..Len(requests) PROVE requests[i].write = rest[Len(answers) + i]
    OBVIOUS
  <2>1. Len(answers) + i \in 1..Len(rest) /\ (Len(answers) + i) + 1 = Len(all) + i
    BY <1>1, <1>5
  <2> QED BY <1>1, <1>2, <1>4, <2>1
<1> QED BY <1>5, <1>6, <1>7 DEF OnTheWire, rest

LEMMA WireRestored ==
  ASSUME outstandingPuts \in Seq(Write)
  PROVE  OnTheWire(<<>>, Resent, outstandingPuts)
<1>1. Len(outstandingPuts) \in Nat /\ Len(<<>>) = 0
  OBVIOUS
<1>2. Len(Resent) = Len(outstandingPuts)
        /\ \A i \in 1..Len(Resent) : Resent[i].write = outstandingPuts[0 + i]
  BY DEF Resent, PutRequest
<1> QED BY <1>1, <1>2 DEF OnTheWire

LEMMA WiredIsKept ==
  ASSUME DatabaseInv, [Next]_vars
  PROVE  Wired'
<1> DEFINE answers  == OfType("put", toClient)
           requests == OfType("put", toServer)
           answersAfter  == OfType("put", toClient')
           requestsAfter == OfType("put", toServer')
<1> USE DEF DatabaseInv
<1>1. /\ answers \in Seq(Answers) /\ requests \in Seq(Requests)
      /\ outstandingPuts \in Seq(Write) /\ toServer \in Seq(Requests) /\ toClient \in Seq(Answers)
  BY OfTypeTyped DEF Typed
<1>2. IF CanSendWrites THEN OnTheWire(answers, requests, outstandingPuts)
      ELSE answers = <<>> /\ requests = <<>>
  BY DEF Wired
<1>3. answersAfter \in Seq(Answers) /\ requestsAfter \in Seq(Requests)
  <2>1. toServer' \in Seq(Requests) /\ toClient' \in Seq(Answers)
    BY TypedIsKept DEF Typed
  <2> QED BY <2>1, OfTypeTyped
<1>4. Wired' <=> IF CanSendWrites' THEN OnTheWire(answersAfter, requestsAfter, outstandingPuts')
                 ELSE answersAfter = <<>> /\ requestsAfter = <<>>
  BY DEF Wired, OnTheWire
<1>6. CASE WriteData
  <2>1. PICK w \in Write :
          /\ outstandingPuts' = Append(outstandingPuts, w)
          /\ toServer' = (IF CanSendWrites THEN Append(toServer, PutRequest(w)) ELSE toServer)
          /\ PutRequest(w) \in Requests
          /\ UNCHANGED <<toClient, connection>>
    BY <1>6, WriteDataDoes
  <2>2. CanSendWrites' = CanSendWrites /\ answersAfter = answers
    BY <2>1 DEF CanSendWrites
  <2>3. PutRequest(w).type = "put"
    BY DEF PutRequest
  <2>4. CanSendWrites => requestsAfter = Append(requests, PutRequest(w))
    BY <2>1, <2>3, RequestAdded
  <2>5. ~CanSendWrites => requestsAfter = requests
    BY <2>1
  <2>6. CanSendWrites => OnTheWire(answers, Append(requests, PutRequest(w)), Append(outstandingPuts, w))
    <3> HIDE DEF answers, requests
    <3> QED BY <1>1, <1>2, <2>1, WireSent
  <2> HIDE DEF answers, requests, answersAfter, requestsAfter
  <2> QED BY <1>2, <1>4, <2>1, <2>2, <2>4, <2>5, <2>6
<1>7. CASE Loses \/ EndProcess
  <2>1. connection'.state = "Disconnected" /\ toServer' = <<>> /\ toClient' = <<>>
    <3>1. CASE Loses
      BY <3>1, LosesDoes
    <3>2. CASE EndProcess
      BY <3>2, EndProcessDoes
    <3> QED BY <1>7, <3>1, <3>2
  <2> QED BY <1>4, <2>1, NoCounts DEF CanSendWrites
<1>8. CASE SendsAuth
  <2> DEFINE request == [type |-> "auth"]
  <2>1. /\ connection.state = "Connecting" /\ connection'.state = "Authenticating"
        /\ toServer' = <<request>> /\ toClient' = toClient
    BY <1>8, SendsAuthDoes
  <2>2. request.type # "put"
    OBVIOUS
  <2> HIDE DEF request
  <2>3. requestsAfter = <<>>
    BY <2>1, <2>2, OfTypeOfOne
  <2> QED BY <1>2, <1>4, <2>1, <2>3 DEF CanSendWrites
<1>9. CASE Restores
  <2>1. /\ connection'.state = "Connected" /\ outstandingPuts' = outstandingPuts
    BY <1>9, RestoresDoes DEF puts
  <2>2. ~CanSendWrites /\ answersAfter = answers
    <3>1. CASE connection.state = "Connecting" /\ toClient' = toClient
      BY <3>1 DEF CanSendWrites
    <3>2. CASE toClient # <<>> /\ Head(toClient).type = "auth" /\ toClient' = Tail(toClient)
      <4>1. connection.state = "Authenticating"
        BY <3>2, HeadIsExpected
      <4>2. Same("put", toClient', toClient)
        BY <3>2, AnswerTaken
      <4> QED BY <4>1, <4>2 DEF CanSendWrites, Same
    <3> QED BY <1>9, <3>1, <3>2, RestoresDoes
  <2>3. requestsAfter = requests \o Resent
    BY <1>9, RestoresSends
  <2>4. answers = <<>> /\ requests = <<>>
    BY <1>2, <2>2
  <2>5. <<>> \o Resent = Resent
    BY <1>1 DEF Resent
  <2>6. answersAfter = <<>> /\ requestsAfter = Resent
    BY <2>2, <2>3, <2>4, <2>5
  <2> HIDE DEF answersAfter, requestsAfter
  <2> QED BY <1>1, <1>4, <2>1, <2>6, WireRestored DEF CanSendWrites
<1>10. CASE PutAnswered
  <2>1. /\ toClient # <<>> /\ Head(toClient).type = "put" /\ toClient' = Tail(toClient)
        /\ UNCHANGED <<toServer, connection>>
    BY <1>10, PutAnsweredMoves
  <2>2. connection.state = "Connected" /\ outstandingPuts' = Tail(outstandingPuts)
    BY <1>10, PutAnsweredDoes
  <2>3. answers = <<Head(toClient)>> \o answersAfter /\ Head(toClient) \in Answers
    BY <2>1, AnswerTaken, AnswersCounted
  <2>4. OnTheWire(<<Head(toClient)>> \o answersAfter, requests, outstandingPuts)
    BY <1>2, <2>2, <2>3 DEF CanSendWrites
  <2>5. OnTheWire(answersAfter, requests, Tail(outstandingPuts))
    <3> DEFINE m == Head(toClient)
    <3> HIDE DEF m, answersAfter, requests
    <3> QED BY <1>1, <1>3, <2>3, <2>4, WireAnswered DEF m
  <2> QED BY <1>4, <2>1, <2>2, <2>5 DEF CanSendWrites
<1>11. CASE HandlePut
  <2>1. /\ toServer # <<>> /\ Head(toServer).type = "put" /\ toServer' = Tail(toServer)
        /\ UNCHANGED <<connection, puts>>
    BY <1>11, HandlePutDoes, Zenon
  <2>2. Head(toServer) \in Requests /\ Head(toServer).write.id \in 1..MaxWrites
    BY <1>1, <1>11, <2>1, HandlePutDoes
  <2>3. requests = <<Head(toServer)>> \o requestsAfter
    BY <1>11, HandlePutSends
  <2>4. PICK ok \in BOOLEAN : answersAfter = Append(answers, WriteAnswer(Head(toServer).write.id, ok))
    BY <1>11, HandlePutSends
  <2> DEFINE m == Head(toServer)
             answer == WriteAnswer(m.write.id, ok)
  <2>5. m \in Requests /\ answer \in Answers /\ answer.id = m.write.id
    BY <2>2, AnswersAre DEF WriteAnswer
  <2>6. requests = <<m>> \o requestsAfter /\ answersAfter = Append(answers, answer)
    BY <2>3, <2>4
  <2> HIDE DEF m, answer
  <2>7. CanSendWrites
    <3>1. <<m>> \o requestsAfter # <<>>
      BY <1>3, <2>5
    <3> QED BY <1>2, <2>6, <3>1
  <2>8. CanSendWrites' /\ outstandingPuts' = outstandingPuts
    BY <2>1, <2>7 DEF CanSendWrites, puts
  <2>9. OnTheWire(answers, <<m>> \o requestsAfter, outstandingPuts)
    BY <1>2, <2>6, <2>7
  <2> HIDE DEF answers, requests, answersAfter, requestsAfter
  <2>10. OnTheWire(Append(answers, answer), requestsAfter, outstandingPuts)
    BY <1>1, <1>3, <2>5, <2>9, WireHandled
  <2> QED BY <1>4, <2>6, <2>8, <2>10
<1>12. ASSUME connection'.state = connection.state \/ (~Connected /\ ~Connected'),
              outstandingPuts' = outstandingPuts,
              answersAfter = answers, requestsAfter = requests
       PROVE  Wired'
  <2>1. CanSendWrites' = CanSendWrites
    BY <1>12 DEF CanSendWrites, Connected
  <2> HIDE DEF answers, requests, answersAfter, requestsAfter
  <2> QED BY <1>2, <1>4, <1>12, <2>1
<1>13. CASE Observe
  <2> DEFINE request == [type |-> "listen", has |-> EmptyNode]
  <2>1. /\ connection'.state = connection.state
        /\ toServer' = (IF Connected THEN Append(toServer, request) ELSE toServer)
        /\ request \in Requests
        /\ UNCHANGED <<toClient, puts>>
    BY <1>13, ObserveDoes
  <2>2. request.type = "listen"
    OBVIOUS
  <2> HIDE DEF request
  <2>3. requestsAfter = requests
    BY <2>1, <2>2, RequestAdded DEF Same
  <2> QED BY <1>12, <2>1, <2>3 DEF puts
<1>14. CASE Waits
  BY <1>12, <1>14, WaitsDoes DEF wire, puts
<1>15. CASE ListenAnswered \/ DataPushed
  <2>1. /\ toClient # <<>> /\ Head(toClient).type \in {"listen", "data"} /\ toClient' = Tail(toClient)
        /\ connection'.state = connection.state /\ UNCHANGED <<toServer, outstandingPuts>>
    BY <1>15, ListenAnsweredMoves, DataPushedMoves DEF puts
  <2>2. answersAfter = answers
    BY <2>1, AnswerTaken DEF Same
  <2> QED BY <1>12, <2>1, <2>2
<1>16. CASE HandleAuth
  <2>1. answersAfter = answers /\ requestsAfter = requests
    BY <1>16, HandleAuthSends DEF Same
  <2> QED BY <1>12, <1>16, <2>1, HandleAuthDoes DEF puts
<1>17. CASE HandleListen
  <2>1. /\ toServer # <<>> /\ Head(toServer).type = "listen" /\ toServer' = Tail(toServer)
        /\ UNCHANGED <<toClient, connection, puts>>
    BY <1>17, HandleListenDoes
  <2>2. requestsAfter = requests
    BY <2>1, RequestTaken DEF Same
  <2> QED BY <1>12, <2>1, <2>2 DEF puts
<1>18. CASE AnswerListen
  <2>1. answersAfter = answers
    BY <1>18, AnswerListenSends DEF Same
  <2> QED BY <1>12, <1>18, <2>1, AnswerListenDoes DEF puts
<1>19. CASE ForeignWrite
  <2>1. answersAfter = answers
    BY <1>19, ForeignWriteSends DEF Same
  <2>2. UNCHANGED <<toServer, connection, puts>>
    BY <1>19, ForeignWriteDoes
  <2> QED BY <1>12, <2>1, <2>2 DEF puts
<1>20. CASE UNCHANGED vars
  BY <1>12, <1>20 DEF vars, wire, puts
<1> QED BY <1>6, <1>7, <1>8, <1>9, <1>10, <1>11, <1>13, <1>14, <1>15, <1>16, <1>17, <1>18, <1>19,
           <1>20, StepsAre


-----------------------------------------------------------------------------
(* Part 6 is kept. *)

LEMMA ViewedIsKept ==
  ASSUME DatabaseInv, [Next]_vars
  PROVE  Viewed'
<1> USE DEF DatabaseInv
<1>1. /\ allWrites \in Seq(Write) /\ visibleWrites \in Visible /\ view \in ViewType
      /\ visibleWrites = layerTreeFromWrites(allWrites)
      /\ observed => Layered(view, visibleWrites)
  BY DEF Typed, Viewed
<1>2. CASE WriteData
  <2>1. PICK w \in Write :
          /\ allWrites' = Append(allWrites, w) /\ visibleWrites' = addWrite(visibleWrites, w)
          /\ view' = (IF observed THEN applyUserWrite(view, w) ELSE view)
          /\ observed' = observed
    BY <1>2, WriteDataDoes
  <2>2. visibleWrites' = layerTreeFromWrites(allWrites')
    BY <1>1, <2>1, LayerOfAppend
  <2>3. observed => Layered(applyUserWrite(view, w), addWrite(visibleWrites, w))
    BY <1>1, <2>1, ViewAfterWrite
  <2> QED BY <2>1, <2>2, <2>3 DEF Viewed
<1>3. CASE Observe
  <2>1. view' = FreshView(visibleWrites) /\ allWrites' = allWrites /\ visibleWrites' = visibleWrites
    BY <1>3, ObserveDoes DEF tree
  <2>2. Layered(FreshView(visibleWrites), visibleWrites)
    BY <1>1, FreshViewIs
  <2> QED BY <1>1, <2>1, <2>2 DEF Viewed
<1>4. CASE PutAnswered
  <2>1. observed' = observed
    BY <1>4, PutAnsweredMoves
  <2>2. CASE connection.unacked = 0
    <3>1. visibleWrites' = layerTreeFromWrites(allWrites')
            /\ (observed => Layered(view', visibleWrites'))
      BY <1>4, <2>2, PutAnsweredDoes
    <3> QED BY <2>1, <3>1 DEF Viewed
  <2>3. CASE connection.unacked # 0
    <3>1. allWrites' = allWrites /\ visibleWrites' = visibleWrites /\ view' = view
      BY <1>4, <2>3, PutAnsweredDoes
    <3> QED BY <1>1, <2>1, <3>1 DEF Viewed
  <2> QED BY <2>2, <2>3
<1>5. CASE ListenAnswered
  BY <1>5, ListenAnsweredDoes DEF Viewed
<1>6. CASE DataPushed
  <2>1. Layered(view', visibleWrites)
    BY <1>6, DataPushedDoes
  <2>2. allWrites' = allWrites /\ visibleWrites' = visibleWrites
    BY <1>6, DataPushedMoves DEF tree
  <2> QED BY <1>1, <2>1, <2>2 DEF Viewed
<1>7. CASE EndProcess
  <2>1. allWrites' = <<>> /\ visibleWrites' = EmptyWrite /\ observed' = FALSE
    BY <1>7, EndProcessDoes
  <2> QED BY <2>1, LayerOfNone DEF Viewed
<1>8. ASSUME allWrites' = allWrites, visibleWrites' = visibleWrites, observed' = observed, view' = view
      PROVE  Viewed'
  BY <1>1, <1>8 DEF Viewed
<1>9. CASE Loses \/ Waits
  BY <1>8, <1>9, LosesDoes, WaitsDoes DEF tree
<1>10. CASE SendsAuth \/ Restores
  BY <1>8, <1>10, SendsAuthDoes, RestoresDoes DEF tree
<1>11. CASE HandleAuth \/ HandlePut \/ HandleListen
  BY <1>8, <1>11, HandleAuthDoes, HandlePutDoes, HandleListenDoes DEF tree
<1>12. CASE AnswerListen \/ ForeignWrite
  BY <1>8, <1>12, AnswerListenDoes, ForeignWriteDoes DEF tree
<1>13. CASE UNCHANGED vars
  BY <1>8, <1>13 DEF vars, tree
<1> QED BY <1>2, <1>3, <1>4, <1>5, <1>6, <1>7, <1>9, <1>10, <1>11, <1>12, <1>13, StepsAre


-----------------------------------------------------------------------------
(* How what comes to the client leads it on. *)

(* What is true of the answer at the head of the messages.                 *)
HeadTold(log, messages, listening, at) ==
  Head(messages).type = "put" =>
    \A j \in 1..Len(log) : log[j].by = Head(messages).id =>
      /\ \A k \in 1..Len(messages) : messages[k].type = "listen" => j <= messages[k].at
      /\ j <= at \/ ~listening \/ \E k \in 1..Len(messages) : messages[k].type = "listen"

HeadFollowed(log, messages, listening, at) ==
  /\ HeadTold(log, messages, listening, at)
  /\ \E to \in 0..Len(log) : /\ Leads(log, Head(messages), at, to)
                             /\ Follows(log, Tail(messages), listening, to)

LEMMA FollowsTail ==
  ASSUME NEW log \in Seq(Logged), NEW messages \in Seq(Answers), NEW listening \in BOOLEAN,
         NEW at, Follows(log, messages, listening, at), messages # <<>>
  PROVE  HeadFollowed(log, messages, listening, at)
<1> DEFINE n    == Len(messages)
           rest == Tail(messages)
           m    == Head(messages)
<1>1. PICK p \in [0..n -> 0..Len(log)] :
        /\ Path(log, messages, p) /\ p[0] = at /\ ToldOf(log, messages, listening, p)
        /\ listening => p[n] = Len(log)
        /\ ~listening => \A i \in 0..n : p[i] = at
  BY DEF Follows, Chain
<1>2. /\ n \in Nat \ {0} /\ Len(rest) = n - 1 /\ m = messages[1]
      /\ \A i \in 1..(n - 1) : rest[i] = messages[i + 1]
  OBVIOUS
<1>3. \A i \in 1..n : Leads(log, messages[i], p[i - 1], p[i])
  BY <1>1 DEF Path
<1>4. \A i \in 1..n : messages[i].type = "put" =>
        \A j \in 1..Len(log) : log[j].by = messages[i].id =>
          /\ \A k \in i..n : messages[k].type = "listen" => j <= messages[k].at
          /\ j <= p[i] \/ ~listening \/ \E k \in i..n : messages[k].type = "listen"
  BY <1>1 DEF ToldOf
<1> DEFINE q == [i \in 0..(n - 1) |-> p[i + 1]]
<1>5. q \in [0..(n - 1) -> 0..Len(log)] /\ q[0] = p[1] /\ q[n - 1] = p[n]
        /\ \A i \in 0..(n - 1) : q[i] = p[i + 1] /\ i + 1 \in 1..n
  BY <1>2
<1> HIDE DEF n, rest, m, q
<1>6. Leads(log, m, at, p[1]) /\ p[1] \in 0..Len(log)
  <2>1. 1 \in 1..n /\ 1 - 1 = 0 /\ 1 \in 0..n
    BY <1>2
  <2> QED BY <1>1, <1>2, <1>3, <2>1
<1>7. Path(log, rest, q)
  <2> SUFFICES ASSUME NEW i \in 1..(n - 1) PROVE Leads(log, rest[i], q[i - 1], q[i])
    BY <1>2, <1>5 DEF Path
  <2>1. i + 1 \in 1..n /\ (i + 1) - 1 = i /\ i - 1 \in 0..(n - 1) /\ (i - 1) + 1 = i /\ i \in 0..(n - 1)
    BY <1>2
  <2>2. Leads(log, messages[i + 1], p[i], p[i + 1])
    BY <1>3, <2>1
  <2>3. q[i - 1] = p[i] /\ q[i] = p[i + 1] /\ rest[i] = messages[i + 1]
    BY <1>2, <1>5, <2>1
  <2> QED BY <2>2, <2>3
<1>8. ToldOf(log, rest, listening, q)
  <2> SUFFICES ASSUME NEW i \in 1..Len(rest), rest[i].type = "put",
                      NEW j \in 1..Len(log), log[j].by = rest[i].id
               PROVE  /\ \A k \in i..Len(rest) : rest[k].type = "listen" => j <= rest[k].at
                      /\ \/ j <= q[i] \/ ~listening
                         \/ \E k \in i..Len(rest) : rest[k].type = "listen"
    BY DEF ToldOf
  <2>1. i + 1 \in 1..n /\ i \in 0..(n - 1) /\ rest[i] = messages[i + 1] /\ q[i] = p[i + 1]
    BY <1>2, <1>5
  <2>2. /\ \A k \in (i + 1)..n : messages[k].type = "listen" => j <= messages[k].at
        /\ j <= p[i + 1] \/ ~listening \/ \E k \in (i + 1)..n : messages[k].type = "listen"
    BY <1>4, <2>1
  <2>3. \A k \in i..Len(rest) : k + 1 \in (i + 1)..n /\ rest[k] = messages[k + 1]
    BY <1>2
  <2>4. \A k \in (i + 1)..n : k - 1 \in i..Len(rest) /\ rest[k - 1] = messages[k]
    <3> SUFFICES ASSUME NEW k \in (i + 1)..n PROVE k - 1 \in i..Len(rest) /\ rest[k - 1] = messages[k]
      OBVIOUS
    <3>1. k - 1 \in 1..(n - 1) /\ k - 1 \in i..Len(rest) /\ (k - 1) + 1 = k
      BY <1>2
    <3> QED BY <1>2, <3>1
  <2>5. \A k \in i..Len(rest) : rest[k].type = "listen" => j <= rest[k].at
    BY <2>2, <2>3
  <2>6. j <= q[i] \/ ~listening \/ \E k \in i..Len(rest) : rest[k].type = "listen"
    BY <2>1, <2>2, <2>4
  <2> QED BY <2>5, <2>6
<1>9. Follows(log, rest, listening, p[1])
  <2>1. Chain(log, rest, listening, p[1], q)
    BY <1>5, <1>7, <1>8 DEF Chain
  <2>2. listening => q[Len(rest)] = Len(log)
    BY <1>1, <1>2, <1>5
  <2>3. ~listening => \A i \in 0..Len(rest) : q[i] = p[1]
    <3>1. \A i \in 0..(n - 1) : i + 1 \in 0..n
      BY <1>2
    <3> QED BY <1>1, <1>2, <1>5, <3>1
  <2>4. q \in [0..Len(rest) -> 0..Len(log)]
    BY <1>2, <1>5
  <2> QED BY <2>1, <2>2, <2>3, <2>4 DEF Follows
<1>10. HeadTold(log, messages, listening, at)
  <2> SUFFICES ASSUME m.type = "put", NEW j \in 1..Len(log), log[j].by = m.id
               PROVE  /\ \A k \in 1..n : messages[k].type = "listen" => j <= messages[k].at
                      /\ \/ j <= at \/ ~listening
                         \/ \E k \in 1..n : messages[k].type = "listen"
    BY DEF HeadTold, m, n
  <2>1. 1 \in 1..n /\ p[1] = at
    BY <1>2, <1>6 DEF Leads
  <2> QED BY <1>2, <1>4, <2>1
<1> QED BY <1>6, <1>9, <1>10 DEF HeadFollowed, m, rest

(* One more message. *)
Extended(p, n, e) == [i \in 0..(n + 1) |-> IF i = n + 1 THEN e ELSE p[i]]

Extends(q, p, n, e, S) ==
  q \in [0..(n + 1) -> S] /\ q[n + 1] = e /\ \A i \in 0..n : q[i] = p[i]

LEMMA ExtendedIs ==
  \A n \in Nat : \A S : \A p \in [0..n -> S] : \A e \in S : Extends(Extended(p, n, e), p, n, e, S)
BY DEF Extended, Extends

LEMMA PathMore ==
  ASSUME NEW log \in Seq(Logged), NEW messages \in Seq(Answers), NEW m \in Answers,
         NEW p, Path(log, messages, p), NEW e \in 0..Len(log),
         Leads(log, m, p[Len(messages)], e)
  PROVE  Path(log, Append(messages, m), Extended(p, Len(messages), e))
<1> DEFINE n   == Len(messages)
           all == Append(messages, m)
           q   == Extended(p, n, e)
<1>1. /\ n \in Nat /\ Len(all) = n + 1 /\ all[n + 1] = m
      /\ \A i \in 1..n : all[i] = messages[i]
  OBVIOUS
<1>2. p \in [0..n -> 0..Len(log)] /\ \A i \in 1..n : Leads(log, messages[i], p[i - 1], p[i])
  BY DEF Path
<1>3. /\ q \in [0..(n + 1) -> 0..Len(log)] /\ q[n + 1] = e
      /\ \A i \in 0..n : q[i] = p[i]
  <2>1. n \in Nat /\ p \in [0..n -> 0..Len(log)]
    BY <1>1, <1>2
  <2>2. Extends(q, p, n, e, 0..Len(log))
    BY <2>1, ExtendedIs, Zenon
  <2> QED BY <2>2 DEF Extends
<1>4. Leads(log, m, p[n], e)
  OBVIOUS
<1> HIDE DEF n, all, q
<1>5. ASSUME NEW i \in 1..(n + 1) PROVE Leads(log, all[i], q[i - 1], q[i])
  <2>1. CASE i \in 1..n
    <3>1. i - 1 \in 0..n /\ i \in 0..n
      BY <1>1, <2>1
    <3>2. all[i] = messages[i] /\ q[i - 1] = p[i - 1] /\ q[i] = p[i]
      BY <1>1, <1>3, <2>1, <3>1
    <3>3. Leads(log, messages[i], p[i - 1], p[i])
      BY <1>2, <2>1
    <3> QED BY <3>2, <3>3
  <2>2. CASE i = n + 1
    <3>1. i - 1 = n /\ n \in 0..n
      BY <1>1, <2>2
    <3>2. all[i] = m /\ q[i - 1] = p[n] /\ q[i] = e
      BY <1>1, <1>3, <2>2, <3>1
    <3> QED BY <1>4, <3>2
  <2> QED BY <1>1, <2>1, <2>2
<1> QED BY <1>1, <1>3, <1>5 DEF Path, n, all, q

LEMMA ToldMore ==
  ASSUME NEW log \in Seq(Logged), NEW messages \in Seq(Answers), NEW m \in Answers,
         NEW p \in [0..Len(messages) -> 0..Len(log)], NEW listening, NEW after,
         ToldOf(log, messages, listening, p), NEW e \in 0..Len(log),
         m.type = "put" /\ after => e = Len(log),
         m.type = "listen" => m.at = Len(log),
         m.type = "listen" \/ after = listening
  PROVE  ToldOf(log, Append(messages, m), after, Extended(p, Len(messages), e))
<1> DEFINE n   == Len(messages)
           all == Append(messages, m)
           q   == Extended(p, n, e)
<1>1. /\ n \in Nat /\ Len(all) = n + 1 /\ all[n + 1] = m /\ Len(log) \in Nat
      /\ \A i \in 1..n : all[i] = messages[i]
  OBVIOUS
<1>2. \A i \in 1..n : messages[i].type = "put" =>
        \A j \in 1..Len(log) : log[j].by = messages[i].id =>
          /\ \A k \in i..n : messages[k].type = "listen" => j <= messages[k].at
          /\ j <= p[i] \/ ~listening \/ \E k \in i..n : messages[k].type = "listen"
  BY DEF ToldOf
<1>3. q[n + 1] = e /\ \A i \in 0..n : q[i] = p[i]
  <2>1. Extends(q, p, n, e, 0..Len(log))
    BY <1>1, ExtendedIs, Zenon
  <2> QED BY <2>1 DEF Extends
<1> HIDE DEF n, all, q
<1> SUFFICES ASSUME NEW i \in 1..(n + 1), all[i].type = "put",
                    NEW j \in 1..Len(log), log[j].by = all[i].id
             PROVE  /\ \A k \in i..(n + 1) : all[k].type = "listen" => j <= all[k].at
                    /\ j <= q[i] \/ ~after \/ \E k \in i..(n + 1) : all[k].type = "listen"
  BY <1>1 DEF ToldOf, n, all, q
<1>4. j \in Nat /\ j <= Len(log)
  BY <1>1
<1>5. CASE i \in 1..n
  <2>1. /\ \A k \in i..n : messages[k].type = "listen" => j <= messages[k].at
        /\ j <= p[i] \/ ~listening \/ \E k \in i..n : messages[k].type = "listen"
        /\ q[i] = p[i]
    <3>1. all[i] = messages[i] /\ i \in 0..n
      BY <1>1, <1>5
    <3> QED BY <1>2, <1>3, <1>5, <3>1
  <2>2. ASSUME NEW k \in i..(n + 1)
        PROVE  (k \in i..n /\ all[k] = messages[k]) \/ (k = n + 1 /\ all[k] = m)
    <3>1. (k \in i..n /\ k \in 1..n) \/ k = n + 1
      BY <1>1, <1>5
    <3> QED BY <1>1, <3>1
  <2>3. \A k \in i..(n + 1) : all[k].type = "listen" => j <= all[k].at
    BY <1>4, <2>1, <2>2
  <2>4. n + 1 \in i..(n + 1) /\ \A k \in i..n : k \in i..(n + 1) /\ all[k] = messages[k]
    BY <1>1, <1>5
  <2>5. j <= q[i] \/ ~after \/ \E k \in i..(n + 1) : all[k].type = "listen"
    BY <1>1, <2>1, <2>4
  <2> QED BY <2>3, <2>5
<1>6. CASE i = n + 1
  <2>1. all[i] = m /\ q[i] = e /\ m.type = "put"
    BY <1>1, <1>3, <1>6
  <2>2. \A k \in i..(n + 1) : all[k].type # "listen"
    BY <1>1, <1>6, <2>1
  <2>3. j <= q[i] \/ ~after
    BY <1>4, <2>1
  <2> QED BY <2>2, <2>3
<1> QED BY <1>1, <1>5, <1>6


LEMMA ChainMore ==
  ASSUME NEW log \in Seq(Logged), NEW messages \in Seq(Answers), NEW m \in Answers,
         NEW p \in [0..Len(messages) -> 0..Len(log)], NEW listening, NEW after, NEW at,
         Chain(log, messages, listening, at, p), NEW e \in 0..Len(log),
         Leads(log, m, p[Len(messages)], e),
         m.type = "put" /\ after => e = Len(log),
         m.type = "listen" => m.at = Len(log),
         m.type = "listen" \/ after = listening
  PROVE  Chain(log, Append(messages, m), after, at, Extended(p, Len(messages), e))
<1> DEFINE n   == Len(messages)
           q   == Extended(p, n, e)
<1>1. Path(log, messages, p) /\ p[0] = at /\ ToldOf(log, messages, listening, p)
  BY DEF Chain
<1>2. Path(log, Append(messages, m), q)
  BY <1>1, PathMore
<1>3. ToldOf(log, Append(messages, m), after, q)
  BY <1>1, ToldMore
<1>4. q[0] = at
  <2>1. n \in Nat /\ 0 \in 0..n
    OBVIOUS
  <2>2. Extends(q, p, n, e, 0..Len(log))
    BY <2>1, ExtendedIs, Zenon
  <2> QED BY <1>1, <2>1, <2>2 DEF Extends
<1> QED BY <1>2, <1>3, <1>4 DEF Chain

(* A chain that ends as it must. *)
Ends(log, messages, listening, at, p) ==
  /\ p \in [0..Len(messages) -> 0..Len(log)]
  /\ Chain(log, messages, listening, at, p)
  /\ listening => p[Len(messages)] = Len(log)
  /\ ~listening => \A i \in 0..Len(messages) : p[i] = at

LEMMA FollowsEnds ==
  \A log, messages, listening, at :
    Follows(log, messages, listening, at) <=> \E p : Ends(log, messages, listening, at, p)
BY DEF Follows, Ends

LEMMA EndsMore ==
  ASSUME NEW log \in Seq(Logged), NEW messages \in Seq(Answers), NEW m \in Answers,
         NEW listening \in BOOLEAN, NEW at, NEW p, Ends(log, messages, listening, at, p),
         m.type \in {"auth", "put"}
  PROVE  Ends(log, Append(messages, m), listening, at, Extended(p, Len(messages), p[Len(messages)]))
<1> DEFINE n   == Len(messages)
           e   == p[n]
           q   == Extended(p, n, e)
<1>1. n \in Nat /\ n \in 0..n /\ Len(Append(messages, m)) = n + 1
  OBVIOUS
<1>2. /\ p \in [0..n -> 0..Len(log)] /\ Chain(log, messages, listening, at, p)
      /\ listening => p[n] = Len(log)
      /\ ~listening => \A i \in 0..n : p[i] = at
  BY DEF Ends
<1>3. e \in 0..Len(log)
  BY <1>1, <1>2
<1>4. Leads(log, m, e, e)
  BY DEF Leads
<1>5. Chain(log, Append(messages, m), listening, at, q)
  BY <1>2, <1>3, <1>4, ChainMore
<1> HIDE DEF n
<1>6. Extends(q, p, n, e, 0..Len(log))
  BY <1>1, <1>2, <1>3, ExtendedIs, Zenon
<1> HIDE DEF q
<1>7. q \in [0..(n + 1) -> 0..Len(log)] /\ q[n + 1] = e /\ \A i \in 0..n : q[i] = p[i]
  BY <1>6 DEF Extends
<1>8. ~listening => \A i \in 0..(n + 1) : q[i] = at
  BY <1>1, <1>2, <1>7
<1> QED BY <1>1, <1>2, <1>5, <1>7, <1>8 DEF Ends, q, n

LEMMA FollowsMore ==
  ASSUME NEW log \in Seq(Logged), NEW messages \in Seq(Answers), NEW m \in Answers,
         NEW listening \in BOOLEAN, NEW at, Follows(log, messages, listening, at),
         m.type \in {"auth", "put"}
  PROVE  Follows(log, Append(messages, m), listening, at)
<1>1. PICK p : Ends(log, messages, listening, at, p)
  BY FollowsEnds
<1>2. Ends(log, Append(messages, m), listening, at, Extended(p, Len(messages), p[Len(messages)]))
  BY <1>1, EndsMore
<1> QED BY <1>2, FollowsEnds

LEMMA FollowsNone ==
  ASSUME NEW log \in Seq(Logged), NEW at \in 0..Len(log)
  PROVE  Follows(log, <<>>, FALSE, at)
<1> DEFINE p == [i \in 0..0 |-> at]
<1>1. p \in [0..0 -> 0..Len(log)] /\ \A i \in 0..0 : p[i] = at /\ i = 0
  OBVIOUS
<1>2. Len(<<>>) = 0
  OBVIOUS
<1>3. Chain(log, <<>>, FALSE, at, p)
  BY <1>1, <1>2 DEF Chain, Path, ToldOf
<1> HIDE DEF p
<1> QED BY <1>1, <1>2, <1>3 DEF Follows

LEMMA FollowsFrom ==
  ASSUME NEW log \in Seq(Logged), NEW messages \in Seq(Answers), NEW listening, NEW at,
         Follows(log, messages, listening, at)
  PROVE  at \in 0..Len(log)
<1>1. PICK p \in [0..Len(messages) -> 0..Len(log)] : Chain(log, messages, listening, at, p)
  BY DEF Follows
<1>2. 0 \in 0..Len(messages)
  OBVIOUS
<1> QED BY <1>1, <1>2 DEF Chain


(* One more state of the node. *)
LEMMA OneMoreState ==
  ASSUME NEW log \in Seq(Logged), NEW state \in Logged
  PROVE  /\ Append(log, state) \in Seq(Logged) /\ Len(log) \in Nat
         /\ Len(Append(log, state)) = Len(log) + 1
         /\ Append(log, state)[Len(log) + 1] = state
         /\ \A i \in 1..Len(log) : Append(log, state)[i] = log[i]
         /\ \A i \in 0..Len(log) : i \in 0..(Len(log) + 1)
                                   /\ NodeAt(Append(log, state), i) = NodeAt(log, i)
         /\ NodeAt(Append(log, state), Len(log) + 1) = state.node
<1>1. /\ Append(log, state) \in Seq(Logged) /\ Len(log) \in Nat
      /\ Len(Append(log, state)) = Len(log) + 1
      /\ Append(log, state)[Len(log) + 1] = state
      /\ \A i \in 1..Len(log) : Append(log, state)[i] = log[i]
  OBVIOUS
<1>2. ASSUME NEW i \in 0..Len(log)
      PROVE  i \in 0..(Len(log) + 1) /\ NodeAt(Append(log, state), i) = NodeAt(log, i)
  <2>1. i \in 0..(Len(log) + 1) /\ (i = 0 \/ i \in 1..Len(log))
    BY <1>1
  <2> QED BY <1>1, <2>1 DEF NodeAt
<1>3. NodeAt(Append(log, state), Len(log) + 1) = state.node
  BY <1>1 DEF NodeAt
<1> QED BY <1>1, <1>2, <1>3

LEMMA ChainOfLog ==
  ASSUME NEW log \in Seq(Logged), NEW state \in Logged, NEW messages \in Seq(Answers),
         NEW listening, NEW at, NEW p \in [0..Len(messages) -> 0..Len(log)],
         Chain(log, messages, listening, at, p),
         \A k \in 1..Len(messages) : messages[k].type = "put" => messages[k].id # state.by
  PROVE  /\ p \in [0..Len(messages) -> 0..Len(Append(log, state))]
         /\ Chain(Append(log, state), messages, listening, at, p)
<1> DEFINE n    == Len(messages)
           more == Append(log, state)
<1>1. /\ n \in Nat /\ Len(log) \in Nat /\ Len(more) = Len(log) + 1 /\ more[Len(log) + 1] = state
      /\ \A i \in 1..Len(log) : more[i] = log[i]
      /\ \A i \in 0..Len(log) : i \in 0..(Len(log) + 1) /\ NodeAt(more, i) = NodeAt(log, i)
  BY OneMoreState
<1>2. /\ \A i \in 1..n : Leads(log, messages[i], p[i - 1], p[i]) /\ p[0] = at
      /\ ToldOf(log, messages, listening, p)
  BY DEF Chain, Path
<1> HIDE DEF n, more
<1>3. p \in [0..n -> 0..Len(log)]
  BY DEF n
<1>4. p \in [0..n -> 0..Len(more)]
  BY <1>1, <1>3
<1>5. ASSUME NEW i \in 1..n PROVE Leads(more, messages[i], p[i - 1], p[i])
  <2>1. i \in 0..n /\ i - 1 \in 0..n
    BY <1>1
  <2>2. p[i] \in 0..Len(log) /\ p[i - 1] \in 0..Len(log)
    BY <1>3, <2>1
  <2>3. NodeAt(more, p[i]) = NodeAt(log, p[i]) /\ NodeAt(more, p[i - 1]) = NodeAt(log, p[i - 1])
    BY <1>1, <2>2
  <2> QED BY <1>2, <2>3 DEF Leads
<1>6. ToldOf(more, messages, listening, p)
  <2> SUFFICES ASSUME NEW i \in 1..n, messages[i].type = "put",
                      NEW j \in 1..Len(more), more[j].by = messages[i].id
               PROVE  /\ \A k \in i..n : messages[k].type = "listen" => j <= messages[k].at
                      /\ j <= p[i] \/ ~listening \/ \E k \in i..n : messages[k].type = "listen"
    BY DEF ToldOf, n
  <2>1. j # Len(log) + 1
    BY <1>1 DEF n
  <2>2. j \in 1..Len(log)
    BY <1>1, <2>1
  <2>3. log[j].by = messages[i].id
    BY <1>1, <2>2
  <2> QED BY <1>2, <2>2, <2>3 DEF ToldOf, n
<1> QED BY <1>2, <1>4, <1>5, <1>6 DEF Chain, Path, n, more

LEMMA FollowsCommit ==
  ASSUME NEW log \in Seq(Logged), NEW state \in Logged, NEW messages \in Seq(Answers),
         NEW listening \in BOOLEAN, NEW at, NEW push \in Answers,
         Follows(log, messages, listening, at), log # <<>>,
         \A k \in 1..Len(messages) : messages[k].type = "put" => messages[k].id # state.by,
         push.type = "data", push.at = Len(log) + 1,
         IF push.kind = "set" THEN state.node = push.value
         ELSE state.node = Over(push.value, NodeAt(log, Len(log)))
  PROVE  Follows(Append(log, state), IF listening THEN Append(messages, push) ELSE messages,
                 listening, at)
<1> DEFINE n    == Len(messages)
           more == Append(log, state)
           last == Len(log)
<1>1. /\ more \in Seq(Logged) /\ last \in Nat \ {0} /\ Len(more) = last + 1
      /\ NodeAt(more, last) = NodeAt(log, last) /\ NodeAt(more, last + 1) = state.node
      /\ n \in Nat /\ n \in 0..n
  BY OneMoreState
<1>2. PICK p \in [0..n -> 0..last] :
        /\ Chain(log, messages, listening, at, p)
        /\ listening => p[n] = last
        /\ ~listening => \A i \in 0..n : p[i] = at
  BY DEF Follows
<1>3. p \in [0..n -> 0..Len(more)] /\ Chain(more, messages, listening, at, p)
  BY <1>2, ChainOfLog
<1>4. CASE ~listening
  BY <1>2, <1>3, <1>4 DEF Follows
<1>5. CASE listening
  <2> DEFINE e == last + 1
             q == Extended(p, n, e)
  <2>1. e \in 0..Len(more)
    BY <1>1
  <2>2. Leads(more, push, p[n], e)
    <3> HIDE DEF more, last, n
    <3>1. push.at = last + 1
      BY DEF last
    <3>2. IF push.kind = "set" THEN state.node = push.value
          ELSE state.node = Over(push.value, NodeAt(log, last))
      BY DEF last
    <3> QED BY <1>1, <1>2, <1>5, <3>1, <3>2 DEF Leads
  <2>3. Chain(more, Append(messages, push), listening, at, q)
    <3> HIDE DEF more, e
    <3> QED BY <1>1, <1>3, <2>1, <2>2, ChainMore
  <2>4. Extends(q, p, n, e, 0..Len(more))
    BY <1>1, <1>3, <2>1, ExtendedIs, Zenon
  <2>5. Len(Append(messages, push)) = n + 1
    OBVIOUS
  <2> HIDE DEF q
  <2>6. q \in [0..(n + 1) -> 0..Len(more)] /\ q[n + 1] = Len(more)
    BY <1>1, <2>4 DEF Extends
  <2> HIDE DEF n, more, e
  <2>7. Follows(more, Append(messages, push), listening, at)
    BY <1>5, <2>3, <2>5, <2>6 DEF Follows
  <2> QED BY <1>5, <2>7 DEF more
<1> QED BY <1>4, <1>5

(* The server's answer to a listen. *)
LEMMA FollowsTold ==
  ASSUME NEW log \in Seq(Logged), NEW messages \in Seq(Answers), NEW listening \in BOOLEAN, NEW at,
         NEW p \in [0..Len(messages) -> 0..Len(log)], Chain(log, messages, listening, at, p),
         log # <<>>,
         NEW told \in Answers, told.type = "listen", told.at = Len(log),
         NodeAt(log, p[Len(messages)]) = NodeAt(log, Len(log))
  PROVE  Follows(log, Append(messages, told), TRUE, at)
<1> DEFINE n == Len(messages)
           e == Len(log)
           q == Extended(p, n, e)
<1>1. /\ e \in Nat \ {0} /\ e \in 0..e /\ n \in Nat /\ n \in 0..n
      /\ Len(Append(messages, told)) = n + 1
  OBVIOUS
<1>3. Leads(log, told, p[n], e)
  <2>1. p[n] \in 0..e
    BY <1>1
  <2> QED BY <1>1, <2>1 DEF Leads
<1>4. Chain(log, Append(messages, told), TRUE, at, q)
  <2> HIDE DEF q
  <2>1. Chain(log, Append(messages, told), TRUE, at, Extended(p, n, e))
    BY <1>1, <1>3, ChainMore
  <2> QED BY <2>1 DEF q
<1>5. Extends(q, p, n, e, 0..e)
  BY <1>1, ExtendedIs, Zenon
<1> HIDE DEF q, n, e
<1>6. q \in [0..(n + 1) -> 0..e] /\ q[n + 1] = e
  BY <1>5 DEF Extends
<1> QED BY <1>1, <1>4, <1>6 DEF Follows, e


LEMMA FollowsListened ==
  ASSUME NEW log \in Seq(Logged), NEW messages \in Seq(Answers), NEW listening \in BOOLEAN, NEW at,
         Follows(log, messages, listening, at), log # <<>>,
         NEW told \in Answers, told.type = "listen", told.at = Len(log)
  PROVE  /\ listening \/ NodeAt(log, at) = NodeAt(log, Len(log))
              => Follows(log, Append(messages, told), TRUE, at)
         /\ \A fetched \in Answers :
              /\ fetched.type = "data" /\ fetched.kind = "set" /\ fetched.at = Len(log)
              /\ fetched.value = NodeAt(log, Len(log))
              => Follows(log, Append(Append(messages, fetched), told), TRUE, at)
<1> DEFINE n == Len(messages)
           e == Len(log)
<1>1. e \in Nat \ {0} /\ e \in 0..e /\ n \in Nat /\ n \in 0..n
  OBVIOUS
<1>2. PICK p \in [0..n -> 0..e] :
        /\ Chain(log, messages, listening, at, p)
        /\ listening => p[n] = e
        /\ ~listening => \A i \in 0..n : p[i] = at
  BY DEF Follows
<1>3. p[n] \in 0..e /\ (p[n] = at \/ p[n] = e)
  BY <1>1, <1>2
<1>4. ASSUME listening \/ NodeAt(log, at) = NodeAt(log, e)
      PROVE  Follows(log, Append(messages, told), TRUE, at)
  <2>1. NodeAt(log, p[n]) = NodeAt(log, e)
    <3> HIDE DEF e, n
    <3> QED BY <1>1, <1>2, <1>4
  <2> QED BY <1>2, <2>1, FollowsTold
<1>5. ASSUME NEW fetched \in Answers, fetched.type = "data", fetched.kind = "set",
             fetched.at = e, fetched.value = NodeAt(log, e)
      PROVE  Follows(log, Append(Append(messages, fetched), told), TRUE, at)
  <2> DEFINE more == Append(messages, fetched)
             q    == Extended(p, n, e)
  <2>1. Leads(log, fetched, p[n], e)
    <3> HIDE DEF e
    <3> QED BY <1>1, <1>3, <1>5 DEF Leads
  <2>2. Chain(log, more, listening, at, q)
    <3>1. Chain(log, more, listening, at, Extended(p, n, e))
      <4> HIDE DEF more
      <4>1. fetched.type \notin {"put", "listen"}
        BY <1>5
      <4> QED BY <1>1, <1>2, <2>1, <4>1, ChainMore DEF more
    <3> QED BY <3>1
  <2>3. Extends(q, p, n, e, 0..e)
    BY <1>1, <1>2, ExtendedIs, Zenon
  <2>4. more \in Seq(Answers) /\ Len(more) = n + 1
    OBVIOUS
  <2> HIDE DEF q, n, more
  <2>5. q \in [0..Len(more) -> 0..e] /\ q[Len(more)] = e
    BY <1>1, <2>3, <2>4 DEF Extends
  <2>6. Follows(log, Append(more, told), TRUE, at)
    BY <2>2, <2>4, <2>5, FollowsTold
  <2> QED BY <2>6 DEF more
<1> QED BY <1>4, <1>5

(* A message less. *)
LEMMA FollowsTaken ==
  ASSUME NEW log \in Seq(Logged), NEW messages \in Seq(Answers), NEW listening \in BOOLEAN,
         NEW at, Follows(log, messages, listening, at), messages # <<>>
  PROVE  /\ Head(messages).type \in {"auth", "put"} =>
              Follows(log, Tail(messages), listening, at)
         /\ Head(messages).type \in {"data", "listen"} =>
              Follows(log, Tail(messages), listening, Head(messages).at)
<1>1. PICK to \in 0..Len(log) : /\ Leads(log, Head(messages), at, to)
                                /\ Follows(log, Tail(messages), listening, to)
  BY FollowsTail DEF HeadFollowed
<1>2. /\ Head(messages).type \in {"auth", "put"} => to = at
      /\ Head(messages).type \in {"data", "listen"} => to = Head(messages).at
  BY <1>1 DEF Leads
<1> QED BY <1>1, <1>2

(* The write the server handles next, and those before it.                 *)
PutsAnswered == OfType("put", toClient)

LEMMA HandledIsNext ==
  ASSUME DatabaseInv, HandlePut
  PROVE  LET w == Head(toServer).write
             n == Len(putsToAck) + Len(PutsAnswered) + 1
         IN /\ CanSendWrites /\ n \in 1..Len(allWrites) /\ w = allWrites[n]
            /\ w.id \in 1..MaxWrites /\ w.id <= made.writes
            /\ \A k \in 1..Len(toClient) : toClient[k].type = "put" => toClient[k].id < w.id
            /\ \A i \in 1..Len(putsToAck) : putsToAck[i].id < w.id
<1> DEFINE m        == Head(toServer)
           w        == m.write
           h        == Len(putsToAck)
           answers  == OfType("put", toClient)
           requests == OfType("put", toServer)
           a        == Len(answers)
           n        == h + a + 1
<1> USE DEF DatabaseInv
<1>1. toServer # <<>> /\ m.type = "put" /\ toServer \in Seq(Requests)
  BY ServerTakesDoes, Zenon DEF HandlePut, Typed
<1>2. m \in Requests /\ Tail(toServer) \in Seq(Requests)
  BY <1>1
<1>3. requests # <<>> /\ requests[1] = m /\ Len(requests) \in Nat \ {0}
  <2>1. requests = <<m>> \o OfType("put", Tail(toServer))
    BY <1>1, OfTypeOfTail
  <2>2. OfType("put", Tail(toServer)) \in Seq(Requests)
    BY <1>2, OfTypeTyped
  <2> HIDE DEF m, requests
  <2> QED BY <1>2, <2>1, <2>2 DEF m
<1>4. /\ answers \in Seq(Answers) /\ allWrites \in Seq(Write) /\ putsToAck \in Seq(Held)
      /\ outstandingPuts \in Seq(Write)
  BY OfTypeTyped DEF Typed
<1>5. \A k \in 1..Len(toClient) : toClient[k].type = "put" => \E j \in 1..a : answers[j] = toClient[k]
  BY OfTypeKeeps DEF Typed
<1>6. IF CanSendWrites THEN OnTheWire(answers, requests, outstandingPuts)
      ELSE answers = <<>> /\ requests = <<>>
  BY DEF Wired
<1>7. QueueOf(allWrites, putsToAck, outstandingPuts, made.writes)
  BY DEF Queued
<1> HIDE DEF m, answers, requests, DatabaseInv
<1>8. CanSendWrites /\ OnTheWire(answers, requests, outstandingPuts)
  BY <1>3, <1>6
<1>9. h \in Nat /\ a \in Nat /\ Len(outstandingPuts) \in Nat /\ Len(allWrites) \in Nat
  BY <1>4
<1> HIDE DEF a, h
<1>10. /\ a + Len(requests) = Len(outstandingPuts) /\ 1 \in 1..Len(requests)
       /\ \A i \in 1..a : answers[i].id = outstandingPuts[i].id
       /\ requests[1].write = outstandingPuts[a + 1]
  BY <1>3, <1>8, <1>9 DEF OnTheWire, a
<1>11. /\ \A i, j \in 1..Len(allWrites) : i < j => allWrites[i].id < allWrites[j].id
       /\ \A i \in 1..Len(allWrites) : allWrites[i].id <= made.writes
       /\ Len(allWrites) = h + Len(outstandingPuts)
       /\ \A i \in 1..h : allWrites[i].id = putsToAck[i].id
       /\ \A i \in 1..Len(outstandingPuts) : allWrites[h + i] = outstandingPuts[i]
  BY <1>7 DEF QueueOf, h
<1>12. n \in 1..Len(allWrites) /\ w = allWrites[n]
  <2>1. a + 1 \in 1..Len(outstandingPuts) /\ h + (a + 1) = n /\ n \in 1..Len(allWrites)
    BY <1>3, <1>9, <1>10, <1>11
  <2>2. allWrites[h + (a + 1)] = outstandingPuts[a + 1]
    BY <1>11, <2>1
  <2> QED BY <1>3, <1>10, <2>1, <2>2
<1>13. w.id \in 1..MaxWrites /\ w.id <= made.writes
  <2>1. allWrites[n] \in Write
    BY <1>4, <1>12
  <2> QED BY <1>11, <1>12, <2>1, WriteIds
<1>14. ASSUME NEW k \in 1..Len(toClient), toClient[k].type = "put" PROVE toClient[k].id < w.id
  <2>1. PICK j \in 1..a : answers[j] = toClient[k]
    BY <1>5, <1>14
  <2>2. /\ j \in 1..Len(outstandingPuts) /\ h + j \in 1..Len(allWrites) /\ h + j < n
    BY <1>3, <1>9, <1>10, <1>11
  <2>3. answers[j].id = outstandingPuts[j].id /\ allWrites[h + j] = outstandingPuts[j]
    BY <1>10, <1>11, <2>2
  <2>4. allWrites[h + j].id < allWrites[n].id
    BY <1>11, <1>12, <2>2
  <2> QED BY <1>12, <2>1, <2>3, <2>4
<1>15. ASSUME NEW i \in 1..h PROVE putsToAck[i].id < w.id
  <2>1. i \in 1..Len(allWrites) /\ i < n
    BY <1>9, <1>11
  <2> QED BY <1>11, <1>12, <2>1
<1> QED BY <1>8, <1>12, <1>13, <1>14, <1>15 DEF m, answers, a, h, PutsAnswered


LEMMA CommitFollows ==
  ASSUME DatabaseInv, NEW kind, NEW value, Change(kind, value), NEW by \in Nat,
         \A k \in 1..Len(toClient) : toClient[k].type = "put" => toClient[k].id # by
  PROVE  Follows(Append(server.log, NewState(value, by)), toClient \o Pushed(kind, value),
                 server.listening, view.server.at)
<1> DEFINE state == NewState(value, by)
           push  == Push(kind, value)
           log   == server.log
<1> USE DEF DatabaseInv
<1>1. /\ state \in Logged /\ push \in Answers /\ log \in Seq(Logged) /\ log # <<>>
      /\ toClient \in Seq(Answers) /\ server.listening \in BOOLEAN /\ Stored \in Node
  BY CommitTyped, RecordsAre, StoredIsNode DEF Typed
<1>2. Follows(log, toClient, server.listening, view.server.at)
  BY DEF Led
<1>3. Stored = NodeAt(log, Len(log)) /\ Len(log) \in Nat \ {0}
  BY StoredIsNode DEF NodeAt
<1>4. state.by = by /\ push.type = "data" /\ push.at = Len(log) + 1 /\ push.kind = kind
        /\ push.value = value /\ state.node = Over(value, Stored)
  BY DEF NewState, Push
<1>5. kind = "set" => Over(value, Stored) = value
  BY <1>1, CoveredNode DEF Change
<1>6. toClient \o Pushed(kind, value)
        = IF server.listening THEN Append(toClient, push) ELSE toClient
  <2>1. toClient \o <<push>> = Append(toClient, push) /\ toClient \o <<>> = toClient
    BY <1>1
  <2> HIDE DEF push
  <2> QED BY <2>1 DEF Pushed, push
<1>7. IF push.kind = "set" THEN state.node = push.value
      ELSE state.node = Over(push.value, NodeAt(log, Len(log)))
  BY <1>3, <1>4, <1>5
<1> HIDE DEF state, push, log, DatabaseInv
<1>8. Follows(Append(log, state), IF server.listening THEN Append(toClient, push) ELSE toClient,
              server.listening, view.server.at)
  BY <1>1, <1>2, <1>4, <1>7, FollowsCommit
<1> QED BY <1>6, <1>8 DEF state, log

LEMMA HandlePutFollows ==
  ASSUME DatabaseInv, HandlePut
  PROVE  Follows(server'.log, toClient', server'.listening, view.server.at)
<1> DEFINE w == Head(toServer).write
<1> USE DEF DatabaseInv
<1>1. /\ w \in Write /\ Change(w.kind, w.value) /\ w.id \in 1..MaxWrites
      /\ \/ /\ Commits(w.value, w.id)
            /\ toClient' = toClient \o Pushed(w.kind, w.value) \o <<WriteAnswer(w.id, TRUE)>>
         \/ /\ server' = server
            /\ toClient' = Append(toClient, WriteAnswer(w.id, FALSE))
  BY HandlePutDoes, Zenon
<1>2. \A k \in 1..Len(toClient) : toClient[k].type = "put" => toClient[k].id # w.id
  <2>1. \A k \in 1..Len(toClient) :
          toClient[k].type = "put" => toClient[k].id < w.id /\ toClient[k].id \in Int
    <3>1. toClient \in Seq(Answers)
      BY DEF Typed
    <3>2. \A k \in 1..Len(toClient) : toClient[k] \in Answers
      BY <3>1
    <3> QED BY <3>2, AnswerIs, HandledIsNext
  <2> QED BY <1>1, <2>1
<1>3. /\ toClient \in Seq(Answers) /\ server.log \in Seq(Logged) /\ server.listening \in BOOLEAN
      /\ Follows(server.log, toClient, server.listening, view.server.at)
  BY RecordsAre DEF Typed, Led
<1> HIDE DEF w, DatabaseInv
<1>4. \A ok \in BOOLEAN : WriteAnswer(w.id, ok) \in Answers /\ WriteAnswer(w.id, ok).type = "put"
  BY <1>1, AnswersAre DEF WriteAnswer
<1>5. ASSUME Commits(w.value, w.id),
             toClient' = toClient \o Pushed(w.kind, w.value) \o <<WriteAnswer(w.id, TRUE)>>
      PROVE  Follows(server'.log, toClient', server'.listening, view.server.at)
  <2> DEFINE log  == Append(server.log, NewState(w.value, w.id))
             told == toClient \o Pushed(w.kind, w.value)
             m    == WriteAnswer(w.id, TRUE)
  <2>1. NewState(w.value, w.id) \in Logged /\ Pushed(w.kind, w.value) \in Seq(Answers)
    BY <1>1, CommitTyped DEF DatabaseInv
  <2>2. log \in Seq(Logged) /\ told \in Seq(Answers)
    BY <1>3, <2>1
  <2>3. Follows(log, told, server.listening, view.server.at)
    BY <1>1, <1>2, CommitFollows
  <2>4. m \in Answers /\ m.type = "put"
    BY <1>4
  <2>5. server'.log = log /\ server'.listening = server.listening
    BY <1>5 DEF Commits
  <2>6. toClient' = told \o <<m>>
    BY <1>5
  <2> HIDE DEF log, told, m
  <2>7. toClient' = Append(told, m)
    BY <2>2, <2>4, <2>6, OneMore
  <2>8. Follows(log, Append(told, m), server.listening, view.server.at)
    BY <1>3, <2>2, <2>3, <2>4, FollowsMore
  <2> QED BY <2>5, <2>7, <2>8
<1>6. ASSUME server' = server, toClient' = Append(toClient, WriteAnswer(w.id, FALSE))
      PROVE  Follows(server'.log, toClient', server'.listening, view.server.at)
  <2>1. Follows(server.log, Append(toClient, WriteAnswer(w.id, FALSE)), server.listening,
                view.server.at)
    BY <1>3, <1>4, FollowsMore
  <2> QED BY <1>6, <2>1
<1> QED BY <1>1, <1>5, <1>6

LEMMA ForeignWriteFollows ==
  ASSUME DatabaseInv, ForeignWrite
  PROVE  Follows(server'.log, toClient', server'.listening, view.server.at)
<1>1. PICK kind, value :
        Change(kind, value) /\ Commits(value, 0) /\ toClient' = toClient \o Pushed(kind, value)
  BY ForeignWriteDoes DEF DatabaseInv
<1>2. \A k \in 1..Len(toClient) : toClient[k].type = "put" => toClient[k].id # 0
  <2>1. toClient \in Seq(Answers)
    BY DEF DatabaseInv, Typed
  <2>2. \A k \in 1..Len(toClient) : toClient[k] \in Answers
    BY <2>1
  <2> QED BY <2>2, AnswerIs
<1>3. Follows(Append(server.log, NewState(value, 0)), toClient \o Pushed(kind, value),
              server.listening, view.server.at)
  BY <1>1, <1>2, CommitFollows
<1>4. server'.log = Append(server.log, NewState(value, 0)) /\ server'.listening = server.listening
  BY <1>1 DEF Commits
<1> QED BY <1>1, <1>3, <1>4

LEMMA AnswerListenFollows ==
  ASSUME DatabaseInv, AnswerListen
  PROVE  Follows(server.log, toClient', TRUE, view.server.at)
<1> DEFINE log == server.log
           at  == view.server.at
<1> USE DEF DatabaseInv
<1>1. /\ toClient' = toClient \o Brought \o <<Told>>
      /\ Brought \in Seq(Answers) /\ Fetched \in Answers /\ Told \in Answers
      /\ server.due # <<>> /\ Head(server.due) \in ListenRequests
  BY AnswerListenDoes
<1>2. /\ toClient \in Seq(Answers) /\ log \in Seq(Logged) /\ log # <<>>
      /\ server.listening \in BOOLEAN /\ server.due \in Seq(ListenRequests)
  BY RecordsAre DEF Typed
<1>3. Follows(log, toClient, server.listening, at)
  BY DEF Led
<1>4. Stored = NodeAt(log, Len(log))
  BY StoredIsNode DEF NodeAt
<1>5. server.listening \/ Head(server.due).has = NodeAt(log, at)
  <2>1. 1 \in 1..Len(server.due) /\ server.due[1] = Head(server.due)
    BY <1>1, <1>2
  <2>2. Head(server.due).type = "listen"
    BY <1>1 DEF ListenRequests
  <2> QED BY <2>1, <2>2 DEF Led, AsksFor
<1>6. /\ Told.type = "listen" /\ Told.at = Len(log)
      /\ Fetched.type = "data" /\ Fetched.kind = "set" /\ Fetched.at = Len(log)
      /\ Fetched.value = NodeAt(log, Len(log))
  BY <1>4 DEF Told, Fetched
<1> HIDE DEF log, at, DatabaseInv
<1>7. CASE Stored = Head(server.due).has
  <2>1. toClient' = Append(toClient, Told)
    <3>1. toClient \o <<>> = toClient
      BY <1>2
    <3> QED BY <1>1, <1>2, <1>7, <3>1, OneMore DEF Brought
  <2>2. server.listening \/ NodeAt(log, at) = NodeAt(log, Len(log))
    BY <1>4, <1>5, <1>7
  <2>3. Follows(log, Append(toClient, Told), TRUE, at)
    BY <1>1, <1>2, <1>3, <1>6, <2>2, FollowsListened
  <2> QED BY <2>1, <2>3 DEF log, at
<1>8. CASE Stored # Head(server.due).has
  <2>1. toClient' = Append(Append(toClient, Fetched), Told)
    <3>1. toClient \o <<Fetched>> = Append(toClient, Fetched) /\ Append(toClient, Fetched) \in Seq(Answers)
      BY <1>1, <1>2, OneMore, AppendTyped
    <3> QED BY <1>1, <1>8, <3>1, OneMore DEF Brought
  <2>2. Follows(log, Append(Append(toClient, Fetched), Told), TRUE, at)
    BY <1>1, <1>2, <1>3, <1>6, FollowsListened
  <2> QED BY <2>1, <2>2 DEF log, at
<1> QED BY <1>7, <1>8



-----------------------------------------------------------------------------
(* Part 4 is kept. *)

LEMMA AsksForMore ==
  ASSUME NEW node, NEW requests \in Seq(Requests), AsksFor(requests, node), NEW m \in Requests,
         m.type = "listen" => m.has = node
  PROVE  AsksFor(Append(requests, m), node)
<1>1. Len(Append(requests, m)) = Len(requests) + 1 /\ Append(requests, m)[Len(requests) + 1] = m
        /\ Len(requests) \in Nat /\ \A i \in 1..Len(requests) : Append(requests, m)[i] = requests[i]
  OBVIOUS
<1>2. ASSUME NEW i \in 1..(Len(requests) + 1), Append(requests, m)[i].type = "listen"
      PROVE  Append(requests, m)[i].has = node
  <2>1. i \in 1..Len(requests) \/ i = Len(requests) + 1
    BY <1>1
  <2> QED BY <1>1, <1>2, <2>1 DEF AsksFor
<1> QED BY <1>1, <1>2 DEF AsksFor

LEMMA AsksForTail ==
  ASSUME NEW node, NEW requests \in Seq(Requests), AsksFor(requests, node), requests # <<>>
  PROVE  /\ AsksFor(Tail(requests), node)
         /\ Head(requests).type = "listen" => Head(requests).has = node
<1>1. /\ 1 \in 1..Len(requests) /\ Head(requests) = requests[1]
      /\ \A i \in 1..Len(Tail(requests)) : i + 1 \in 1..Len(requests) /\ Tail(requests)[i] = requests[i + 1]
  OBVIOUS
<1> QED BY <1>1 DEF AsksFor

LEMMA AsksForNone == \A node : AsksFor(<<>>, node)
BY DEF AsksFor

(* What is restored asks for what the view does not know. *)
LEMMA AsksForRestored ==
  ASSUME Typed, AsksFor(toServer, view.server.node)
  PROVE  AsksFor(toServer \o Restored, view.server.node)
<1> DEFINE node == view.server.node
           all  == toServer \o Restored
<1>1. toServer \in Seq(Requests) /\ Restored \in Seq(Requests)
  BY RestoredTyped DEF Typed
<1>2. \A i \in 1..Len(Restored) : Restored[i].type = "listen" => Restored[i].has = node
  <2>1. \A i \in 1..Len(Restored) : Restored[i].type = "listen" =>
          \E j \in 1..Len(OfType("listen", Restored)) : OfType("listen", Restored)[j] = Restored[i]
    BY <1>1, OfTypeKeeps
  <2>2. OfType("listen", Restored) = IF observed THEN <<ListenRequest>> ELSE <<>>
    BY RestoredOfType
  <2>3. ListenRequest.has = node
    BY DEF ListenRequest
  <2>4. \A j \in 1..Len(OfType("listen", Restored)) : OfType("listen", Restored)[j] = ListenRequest
    <3> HIDE DEF node
    <3>1. \A j \in 1..Len(<<ListenRequest>>) : <<ListenRequest>>[j] = ListenRequest
      OBVIOUS
    <3>2. \A j \in 1..Len(<<>>) : <<>>[j] = ListenRequest
      OBVIOUS
    <3> QED BY <2>2, <3>1, <3>2
  <2> QED BY <2>1, <2>3, <2>4
<1>3. /\ Len(all) = Len(toServer) + Len(Restored) /\ Len(toServer) \in Nat /\ Len(Restored) \in Nat
      /\ \A i \in 1..Len(toServer) : all[i] = toServer[i]
      /\ \A i \in 1..Len(Restored) : all[Len(toServer) + i] = Restored[i]
  BY <1>1
<1> HIDE DEF all, node
<1>4. ASSUME NEW i \in 1..Len(all), all[i].type = "listen" PROVE all[i].has = node
  <2>1. CASE i \in 1..Len(toServer)
    BY <1>3, <1>4, <2>1 DEF AsksFor, node
  <2>2. CASE i \notin 1..Len(toServer)
    <3>1. i - Len(toServer) \in 1..Len(Restored) /\ Len(toServer) + (i - Len(toServer)) = i
      BY <1>3, <2>2
    <3> QED BY <1>2, <1>3, <1>4, <3>1
  <2> QED BY <2>1, <2>2
<1> QED BY <1>4 DEF AsksFor, all, node

LEMMA LedIsKept ==
  ASSUME DatabaseInv, [Next]_vars
  PROVE  Led'
<1> DEFINE log  == server.log
           node == view.server.node
           at   == view.server.at
<1> USE DEF DatabaseInv
<1>1. /\ toServer \in Seq(Requests) /\ toClient \in Seq(Answers) /\ log \in Seq(Logged)
      /\ server.listening \in BOOLEAN /\ server.due \in Seq(ListenRequests)
      /\ ListenRequests \subseteq Requests
  BY RecordsAre DEF Typed, Requests
<1>2. /\ Follows(log, toClient, server.listening, at)
      /\ node = NodeAt(log, at)
      /\ ~server.listening => AsksFor(toServer, node) /\ AsksFor(server.due, node)
  BY DEF Led
<1>3. at \in 0..Len(log)
  BY <1>1, <1>2, FollowsFrom
<1>4. ASSUME server' = server, toClient' = toClient, view'.server = view.server,
             ~server.listening => AsksFor(toServer', node)
      PROVE  Led'
  BY <1>2, <1>4 DEF Led
<1>5. CASE WriteData
  <2>1. PICK w \in Write :
          /\ toServer' = (IF CanSendWrites THEN Append(toServer, PutRequest(w)) ELSE toServer)
          /\ PutRequest(w) \in Requests /\ server' = server /\ toClient' = toClient
    BY <1>5, WriteDataDoes
  <2>2. ~server.listening => AsksFor(Append(toServer, PutRequest(w)), node)
    <3>1. PutRequest(w).type # "listen"
      BY DEF PutRequest
    <3> HIDE DEF node
    <3> QED BY <1>1, <1>2, <2>1, <3>1, AsksForMore
  <2>3. view'.server = view.server
    BY <1>5, WriteDataMoves
  <2> HIDE DEF node, DatabaseInv
  <2> QED BY <1>2, <1>4, <2>1, <2>2, <2>3
<1>6. CASE Observe
  <2> DEFINE request == [type |-> "listen", has |-> EmptyNode]
  <2>1. /\ ~observed /\ view' = FreshView(visibleWrites) /\ request \in Requests
        /\ toServer' = (IF Connected THEN Append(toServer, request) ELSE toServer)
        /\ server' = server /\ toClient' = toClient
    BY <1>6, ObserveDoes
  <2>2. view.server = [node |-> EmptyNode, complete |-> FALSE, at |-> 0]
    BY <2>1 DEF Quiet
  <2>3. view'.server = view.server
    BY <2>1, <2>2 DEF FreshView
  <2>4. ~server.listening => AsksFor(Append(toServer, request), node)
    <3>1. request.has = node
      BY <2>2
    <3> HIDE DEF node, request
    <3> QED BY <1>1, <1>2, <2>1, <3>1, AsksForMore
  <2> HIDE DEF node, request, DatabaseInv
  <2> QED BY <1>2, <1>4, <2>1, <2>3, <2>4
<1>7. CASE Waits
  <2>1. UNCHANGED <<server, wire, view>>
    BY <1>7, WaitsDoes
  <2> QED BY <1>2, <1>4, <2>1 DEF wire
<1>8. CASE Loses \/ EndProcess
  <2>1. /\ server' = [log |-> log, listening |-> FALSE, due |-> <<>>]
        /\ toServer' = <<>> /\ toClient' = <<>>
        /\ view' = view \/ view' = FreshView(EmptyWrite)
    BY <1>8, LosesDoes, EndProcessDoes
  <2>2. view'.server.at \in 0..Len(log) /\ view'.server.node = NodeAt(log, view'.server.at)
    <3>1. CASE view' = view
      BY <1>2, <1>3, <3>1
    <3>2. CASE view' = FreshView(EmptyWrite)
      <4>1. view'.server = [node |-> EmptyNode, complete |-> FALSE, at |-> 0]
        BY <3>2 DEF FreshView
      <4>2. Len(log) \in Nat
        BY <1>1
      <4> QED BY <4>1, <4>2 DEF NodeAt
    <3> QED BY <2>1, <3>1, <3>2
  <2>3. Follows(log, <<>>, FALSE, view'.server.at)
    <3> HIDE DEF log
    <3> QED BY <1>1, <2>2, FollowsNone
  <2>4. server'.log = log /\ server'.listening = FALSE /\ server'.due = <<>>
    BY <2>1
  <2> HIDE DEF log, DatabaseInv
  <2> QED BY <2>1, <2>2, <2>3, <2>4, AsksForNone DEF Led
<1>9. CASE SendsAuth
  <2>1. toServer' = <<[type |-> "auth"]>> /\ UNCHANGED <<server, toClient, view>>
    BY <1>9, SendsAuthDoes
  <2>2. AsksFor(<<[type |-> "auth"]>>, node)
    BY DEF AsksFor
  <2> QED BY <1>4, <2>1, <2>2
<1>10. CASE Restores
  <2>1. /\ toServer' = toServer \o Restored
        /\ toClient' = toClient
             \/ (toClient # <<>> /\ Head(toClient).type = "auth" /\ toClient' = Tail(toClient))
        /\ UNCHANGED <<server, view>>
    BY <1>10, RestoresDoes
  <2>2. ~server.listening => AsksFor(toServer \o Restored, node)
    BY <1>2, AsksForRestored
  <2>3. Follows(log, toClient', server.listening, at)
    <3> HIDE DEF log, at
    <3> QED BY <1>1, <1>2, <2>1, FollowsTaken
  <2> HIDE DEF DatabaseInv
  <2> QED BY <1>2, <2>1, <2>2, <2>3 DEF Led
<1>11. CASE PutAnswered
  <2>1. /\ toClient # <<>> /\ Head(toClient).type = "put" /\ toClient' = Tail(toClient)
        /\ view'.server = view.server /\ UNCHANGED <<server, toServer>>
    BY <1>11, PutAnsweredMoves
  <2>2. Follows(log, Tail(toClient), server.listening, at)
    <3> HIDE DEF log, at
    <3> QED BY <1>1, <1>2, <2>1, FollowsTaken
  <2> HIDE DEF DatabaseInv
  <2> QED BY <1>2, <2>1, <2>2 DEF Led
<1>12. CASE ListenAnswered \/ DataPushed
  <2> DEFINE m == Head(toClient)
  <2>1. /\ toClient # <<>> /\ m.type \in {"listen", "data"} /\ toClient' = Tail(toClient)
        /\ view'.server = [node |-> NodeAt(log, m.at), complete |-> TRUE, at |-> m.at]
        /\ UNCHANGED server
    BY <1>12, ListenAnsweredMoves, DataPushedMoves
  <2>2. server.listening
    BY <1>12, ListenAnsweredDoes, DataPushedDoes
  <2>3. Follows(log, Tail(toClient), server.listening, m.at)
    <3> HIDE DEF log, at
    <3> QED BY <1>1, <1>2, <2>1, FollowsTaken
  <2>4. view'.server.at = m.at /\ view'.server.node = NodeAt(log, m.at)
    BY <2>1
  <2> HIDE DEF m, DatabaseInv
  <2> QED BY <2>1, <2>2, <2>3, <2>4 DEF Led
<1>13. CASE HandleAuth
  <2>1. PICK ok \in BOOLEAN : toClient' = Append(toClient, [type |-> "auth", ok |-> ok])
    BY <1>13, HandleAuthDoes
  <2>2. toServer # <<>> /\ toServer' = Tail(toServer) /\ UNCHANGED <<server, view>>
    BY <1>13, HandleAuthDoes
  <2>3. Follows(log, Append(toClient, [type |-> "auth", ok |-> ok]), server.listening, at)
    <3> DEFINE m == [type |-> "auth", ok |-> ok]
    <3>1. m \in Answers /\ m.type = "auth"
      BY AnswersAre
    <3> HIDE DEF m, log, at
    <3>2. Follows(log, Append(toClient, m), server.listening, at)
      BY <1>1, <1>2, <3>1, FollowsMore
    <3> QED BY <3>2 DEF m
  <2>4. ~server.listening => AsksFor(Tail(toServer), node)
    BY <1>1, <1>2, <2>2, AsksForTail
  <2> HIDE DEF DatabaseInv
  <2> QED BY <1>2, <2>1, <2>2, <2>3, <2>4 DEF Led
<1>14. ASSUME Follows(server'.log, toClient', server'.listening, at), view' = view,
              server'.log = log
                \/ (\E state \in Logged : server'.log = Append(log, state)),
              ~server'.listening => AsksFor(toServer', node) /\ AsksFor(server'.due, node)
       PROVE  Led'
  <2>1. NodeAt(server'.log, at) = NodeAt(log, at)
    <3> HIDE DEF log, at
    <3>1. \A state \in Logged : NodeAt(Append(log, state), at) = NodeAt(log, at)
      BY <1>1, <1>3, OneMoreState
    <3>2. CASE server'.log = log
      BY <3>2, Zenon
    <3>3. CASE \E state \in Logged : server'.log = Append(log, state)
      <4>1. PICK state \in Logged : server'.log = Append(log, state)
        BY <3>3, Zenon
      <4>2. NodeAt(Append(log, state), at) = NodeAt(log, at)
        BY <3>1
      <4> HIDE DEF DatabaseInv
      <4> QED BY <4>1, <4>2, Zenon
    <3> QED BY <1>14, <3>2, <3>3, Zenon
  <2> HIDE DEF DatabaseInv
  <2> QED BY <1>2, <1>14, <2>1 DEF Led
<1>15. CASE HandlePut
  <2> DEFINE w == Head(toServer).write
  <2>1. Follows(server'.log, toClient', server'.listening, at)
    BY <1>15, HandlePutFollows, Zenon
  <2>2. /\ toServer # <<>> /\ toServer' = Tail(toServer) /\ view' = view
        /\ Change(w.kind, w.value) /\ w.id \in 1..MaxWrites
    BY <1>15, HandlePutDoes
  <2>3. /\ server'.due = server.due /\ server'.listening = server.listening
        /\ server'.log = log \/ server'.log = Append(log, NewState(w.value, w.id))
    BY <1>15, HandlePutCommits
  <2>4. NewState(w.value, w.id) \in Logged
    <3> HIDE DEF w
    <3> QED BY <2>2, CommitTyped
  <2>5. ~server.listening => AsksFor(Tail(toServer), node)
    BY <1>1, <1>2, <2>2, AsksForTail
  <2> HIDE DEF w, log, at, node, DatabaseInv
  <2> QED BY <1>2, <1>14, <2>1, <2>2, <2>3, <2>4, <2>5
<1>16. CASE ForeignWrite
  <2>1. Follows(server'.log, toClient', server'.listening, at)
    BY <1>16, ForeignWriteFollows
  <2>2. PICK kind, value : /\ Change(kind, value) /\ Commits(value, 0)
                           /\ UNCHANGED <<toServer, view>>
    BY <1>16, ForeignWriteDoes
  <2>3. NewState(value, 0) \in Logged
    BY <2>2, CommitTyped
  <2>4. /\ server'.due = server.due /\ server'.listening = server.listening
        /\ server'.log = Append(log, NewState(value, 0))
    BY <2>2 DEF Commits
  <2> HIDE DEF log, at, node, DatabaseInv
  <2> QED BY <1>2, <1>14, <2>1, <2>2, <2>3, <2>4
<1>17. CASE HandleListen
  <2>1. /\ toServer # <<>> /\ Head(toServer).type = "listen" /\ toServer' = Tail(toServer)
        /\ Head(toServer) \in ListenRequests
        /\ server' = [log |-> log, listening |-> server.listening,
                      due |-> Append(server.due, Head(toServer))]
        /\ UNCHANGED <<toClient, view>>
    BY <1>17, HandleListenDoes
  <2>2. ~server.listening => AsksFor(Tail(toServer), node) /\ Head(toServer).has = node
    BY <1>1, <1>2, <2>1, AsksForTail
  <2>3. ~server.listening => AsksFor(Append(server.due, Head(toServer)), node)
    <3>1. server.due \in Seq(Requests) /\ Head(toServer) \in Requests
      BY <1>1, <2>1
    <3> HIDE DEF node
    <3> QED BY <1>2, <2>2, <3>1, AsksForMore
  <2>4. server'.log = log /\ server'.listening = server.listening
          /\ server'.due = Append(server.due, Head(toServer))
    BY <2>1
  <2> HIDE DEF log, at, node, DatabaseInv
  <2> QED BY <1>2, <1>14, <2>1, <2>2, <2>3, <2>4
<1>18. CASE AnswerListen
  <2>1. Follows(log, toClient', TRUE, at)
    BY <1>18, AnswerListenFollows
  <2>2. /\ server' = [log |-> log, listening |-> TRUE, due |-> Tail(server.due)]
        /\ view' = view
    BY <1>18, AnswerListenDoes
  <2>3. server'.log = log /\ server'.listening = TRUE
    BY <2>2
  <2> HIDE DEF log, at, node, DatabaseInv
  <2> QED BY <1>14, <2>1, <2>2, <2>3
<1>19. CASE UNCHANGED vars
  BY <1>2, <1>4, <1>19 DEF vars, wire
<1> QED BY <1>5, <1>6, <1>7, <1>8, <1>9, <1>10, <1>11, <1>12, <1>13, <1>15, <1>16, <1>17, <1>18,
           <1>19, StepsAre



-----------------------------------------------------------------------------
(* Part 5 is kept. *)

LEMMA HeldOfTail ==
  ASSUME NEW log, NEW messages \in Seq(Answers), messages # <<>>, NEW held,
         HeldOf(log, messages, held)
  PROVE  HeldOf(log, Tail(messages), held)
<1>1. \A k \in 1..Len(Tail(messages)) :
        k + 1 \in 1..Len(messages) /\ Tail(messages)[k] = messages[k + 1]
  OBVIOUS
<1> QED BY <1>1 DEF HeldOf

LEMMA HeldOfMore ==
  ASSUME NEW log \in Seq(Logged), NEW messages \in Seq(Answers), NEW held,
         HeldOf(log, messages, held), NEW m \in Answers, m.type = "listen" => m.at = Len(log)
  PROVE  HeldOf(log, Append(messages, m), held)
<1> DEFINE n   == Len(messages)
           all == Append(messages, m)
<1>1. /\ n \in Nat /\ Len(all) = n + 1 /\ all[n + 1] = m /\ Len(log) \in Nat
      /\ \A i \in 1..n : all[i] = messages[i]
  OBVIOUS
<1>2. \A i \in 1..Len(held), k \in 1..n : messages[k].type = "listen" =>
        \A j \in 1..Len(log) : log[j].by = held[i].id => j <= messages[k].at
  BY DEF HeldOf
<1> HIDE DEF n, all
<1>3. ASSUME NEW i \in 1..Len(held), NEW k \in 1..(n + 1), all[k].type = "listen",
             NEW j \in 1..Len(log), log[j].by = held[i].id
      PROVE  j <= all[k].at
  <2>1. k \in 1..n \/ k = n + 1
    BY <1>1
  <2>2. j <= Len(log)
    BY <1>1
  <2> QED BY <1>1, <1>2, <1>3, <2>1, <2>2
<1> QED BY <1>1, <1>3 DEF HeldOf, all, n

LEMMA HeldOfCommit ==
  ASSUME NEW log \in Seq(Logged), NEW messages \in Seq(Answers), NEW held,
         HeldOf(log, messages, held), NEW state \in Logged,
         \A i \in 1..Len(held) : held[i].id # state.by
  PROVE  HeldOf(Append(log, state), messages, held)
<1> DEFINE more == Append(log, state)
<1>1. /\ Len(log) \in Nat /\ Len(more) = Len(log) + 1 /\ more[Len(log) + 1] = state
      /\ \A i \in 1..Len(log) : more[i] = log[i]
  BY OneMoreState
<1> HIDE DEF more
<1>2. ASSUME NEW i \in 1..Len(held), NEW j \in 1..Len(more), more[j].by = held[i].id
      PROVE  j \in 1..Len(log) /\ log[j].by = held[i].id
  <2>1. j # Len(log) + 1
    BY <1>1, <1>2
  <2>2. j \in 1..Len(log)
    BY <1>1, <2>1
  <2> QED BY <1>1, <1>2, <2>2
<1>3. ASSUME NEW i \in 1..Len(held), NEW k \in 1..Len(messages), messages[k].type = "listen",
             NEW j \in 1..Len(more), more[j].by = held[i].id
      PROVE  j <= messages[k].at
  <2>1. j \in 1..Len(log) /\ log[j].by = held[i].id
    BY <1>2, <1>3
  <2> QED BY <1>3, <2>1 DEF HeldOf
<1> QED BY <1>3 DEF HeldOf, more

(* An answer more is held: its write is in what the listens bring.         *)
LEMMA HeldOfOne ==
  ASSUME NEW log, NEW messages, NEW held \in Seq(Held), NEW answer \in Held,
         HeldOf(log, messages, held),
         \A k \in 1..Len(messages) : messages[k].type = "listen" =>
           \A j \in 1..Len(log) : log[j].by = answer.id => j <= messages[k].at
  PROVE  HeldOf(log, messages, Append(held, answer))
<1>1. /\ Len(Append(held, answer)) = Len(held) + 1 /\ Append(held, answer)[Len(held) + 1] = answer
      /\ Len(held) \in Nat /\ \A i \in 1..Len(held) : Append(held, answer)[i] = held[i]
  OBVIOUS
<1>2. ASSUME NEW i \in 1..(Len(held) + 1), NEW k \in 1..Len(messages), messages[k].type = "listen",
             NEW j \in 1..Len(log), log[j].by = Append(held, answer)[i].id
      PROVE  j <= messages[k].at
  <2>1. i \in 1..Len(held) \/ i = Len(held) + 1
    BY <1>1
  <2>2. CASE i \in 1..Len(held)
    BY <1>1, <1>2, <2>2 DEF HeldOf
  <2>3. CASE i = Len(held) + 1
    BY <1>1, <1>2, <2>3
  <2> QED BY <2>1, <2>2, <2>3
<1> QED BY <1>1, <1>2 DEF HeldOf

LEMMA MadeBeforeMore ==
  ASSUME NEW log \in Seq(Logged), NEW n \in Nat, MadeBefore(log, n),
         NEW state \in Logged, state.by <= n
  PROVE  MadeBefore(Append(log, state), n)
<1>1. /\ Len(log) \in Nat /\ Len(Append(log, state)) = Len(log) + 1
      /\ Append(log, state)[Len(log) + 1] = state
      /\ \A i \in 1..Len(log) : Append(log, state)[i] = log[i]
  BY OneMoreState
<1>2. ASSUME NEW j \in 1..(Len(log) + 1) PROVE Append(log, state)[j].by <= n
  <2>1. j \in 1..Len(log) \/ j = Len(log) + 1
    BY <1>1
  <2> QED BY <1>1, <2>1 DEF MadeBefore
<1> QED BY <1>1, <1>2 DEF MadeBefore

(* A commit that is told, and answered. *)
LEMMA KeptOfCommit ==
  ASSUME DatabaseInv, NEW kind, NEW value, Change(kind, value), NEW by \in Nat,
         by <= made.writes, \A i \in 1..Len(putsToAck) : putsToAck[i].id # by
  PROVE  /\ MadeBefore(Append(server.log, NewState(value, by)), made.writes)
         /\ HeldOf(Append(server.log, NewState(value, by)), toClient \o Pushed(kind, value), putsToAck)
<1> DEFINE state == NewState(value, by)
           push  == Push(kind, value)
           more  == Append(server.log, state)
<1>1. /\ state \in Logged /\ push \in Answers /\ Pushed(kind, value) \in Seq(Answers)
      /\ server.log \in Seq(Logged) /\ toClient \in Seq(Answers) /\ made.writes \in Nat
  BY CommitTyped, RecordsAre, DatabaseValuesAssumption DEF DatabaseInv, Typed
<1>2. MadeBefore(server.log, made.writes) /\ HeldOf(server.log, toClient, putsToAck)
  BY DEF DatabaseInv, Kept
<1>3. state.by = by /\ push.type = "data"
  BY DEF NewState, Push
<1>4. toClient \o Pushed(kind, value) = toClient
        \/ toClient \o Pushed(kind, value) = Append(toClient, push)
  <2>1. toClient \o <<push>> = Append(toClient, push) /\ toClient \o <<>> = toClient
    BY <1>1
  <2> HIDE DEF push
  <2> QED BY <2>1 DEF Pushed, push
<1> HIDE DEF state, push
<1>5. MadeBefore(more, made.writes) /\ HeldOf(more, toClient, putsToAck)
  BY <1>1, <1>2, <1>3, MadeBeforeMore, HeldOfCommit
<1>6. more \in Seq(Logged)
  BY <1>1
<1> HIDE DEF more
<1>7. HeldOf(more, Append(toClient, push), putsToAck)
  BY <1>1, <1>3, <1>5, <1>6, HeldOfMore
<1> QED BY <1>4, <1>5, <1>7 DEF more, state

LEMMA KeptIsKept ==
  ASSUME DatabaseInv, [Next]_vars
  PROVE  Kept'
<1> USE DEF DatabaseInv
<1>1. /\ toClient \in Seq(Answers) /\ server.log \in Seq(Logged) /\ server.log # <<>>
      /\ putsToAck \in Seq(Held) /\ made.writes \in Nat
      /\ \A j \in 1..Len(server.log) : server.log[j].by \in Nat
  <2>1. server.log \in Seq(Logged) /\ \A state \in Logged : state.by \in Nat
    BY RecordsAre DEF Logged
  <2> QED BY <2>1, RecordsAre, DatabaseValuesAssumption DEF Typed
<1>2. MadeBefore(server.log, made.writes) /\ HeldOf(server.log, toClient, putsToAck)
  BY DEF Kept
<1> HIDE DEF DatabaseInv
<1>3. ASSUME server'.log = server.log, made'.writes = made.writes \/ made'.writes = made.writes + 1,
             HeldOf(server.log, toClient', putsToAck')
      PROVE  Kept'
  BY <1>1, <1>2, <1>3 DEF Kept, MadeBefore
<1>4. CASE WriteData
  BY <1>2, <1>3, <1>4, WriteDataDoes DEF DatabaseInv
<1>5. CASE Observe \/ Waits \/ SendsAuth
  <2>1. server' = server /\ toClient' = toClient /\ putsToAck' = putsToAck
          /\ made'.writes = made.writes
    BY <1>5, ObserveDoes, WaitsDoes, SendsAuthDoes DEF DatabaseInv, puts, wire
  <2> QED BY <1>2, <1>3, <2>1
<1>6. CASE Loses \/ EndProcess
  <2>1. server'.log = server.log /\ toClient' = <<>> /\ made'.writes = made.writes
    <3>1. /\ server' = [log |-> server.log, listening |-> FALSE, due |-> <<>>]
          /\ toClient' = <<>> /\ made'.writes = made.writes
      BY <1>6, LosesDoes, EndProcessDoes DEF DatabaseInv
    <3> QED BY <3>1
  <2>2. HeldOf(server.log, <<>>, putsToAck')
    BY DEF HeldOf
  <2> QED BY <1>3, <2>1, <2>2
<1>7. CASE Restores
  <2>1. /\ toClient' = toClient \/ (toClient # <<>> /\ toClient' = Tail(toClient))
        /\ server' = server /\ putsToAck' = putsToAck /\ made'.writes = made.writes
    BY <1>7, RestoresDoes DEF DatabaseInv, puts
  <2>2. HeldOf(server.log, toClient', putsToAck)
    BY <1>1, <1>2, <2>1, HeldOfTail
  <2> QED BY <1>3, <2>1, <2>2
<1>8. CASE PutAnswered
  <2> DEFINE m      == Head(toClient)
             answer == [id |-> m.id, ok |-> m.ok]
  <2>1. /\ toClient # <<>> /\ m.type = "put" /\ toClient' = Tail(toClient)
        /\ UNCHANGED <<server, made>>
    BY <1>8, PutAnsweredMoves
  <2>2. answer \in Held
          /\ (putsToAck' = <<>> \/ putsToAck' = Append(putsToAck, answer))
    BY <1>8, PutAnsweredDoes
  <2>3. \A k \in 1..Len(toClient) : toClient[k].type = "listen" =>
          \A j \in 1..Len(server.log) : server.log[j].by = answer.id => j <= toClient[k].at
    <3>1. HeadTold(server.log, toClient, server.listening, view.server.at)
      <4>1. Follows(server.log, toClient, server.listening, view.server.at)
        BY DEF DatabaseInv, Led
      <4>2. server.listening \in BOOLEAN
        BY RecordsAre DEF DatabaseInv
      <4> QED BY <1>1, <2>1, <4>1, <4>2, FollowsTail DEF HeadFollowed
    <3>2. answer.id = m.id
      OBVIOUS
    <3> HIDE DEF answer
    <3> QED BY <2>1, <3>1, <3>2 DEF HeadTold
  <2> HIDE DEF answer, m
  <2>4. HeldOf(server.log, toClient, putsToAck')
    <3>1. HeldOf(server.log, toClient, Append(putsToAck, answer))
      BY <1>1, <1>2, <2>2, <2>3, HeldOfOne
    <3>2. HeldOf(server.log, toClient, <<>>)
      BY DEF HeldOf
    <3> QED BY <2>2, <3>1, <3>2
  <2>5. HeldOf(server.log, Tail(toClient), putsToAck')
    BY <1>1, <2>1, <2>4, HeldOfTail
  <2> QED BY <1>3, <2>1, <2>5
<1>9. CASE ListenAnswered \/ DataPushed
  <2>1. toClient # <<>> /\ toClient' = Tail(toClient) /\ UNCHANGED <<server, made>>
    BY <1>9, ListenAnsweredMoves, DataPushedMoves
  <2>2. putsToAck' = putsToAck \/ putsToAck' = <<>>
    BY <1>9, ListenAnsweredDoes, DataPushedMoves DEF puts
  <2>3. HeldOf(server.log, Tail(toClient), putsToAck)
    BY <1>1, <1>2, <2>1, HeldOfTail
  <2>4. HeldOf(server.log, Tail(toClient), <<>>)
    BY DEF HeldOf
  <2> QED BY <1>3, <2>1, <2>2, <2>3, <2>4
<1>10. CASE HandleAuth
  <2>1. PICK ok \in BOOLEAN : toClient' = Append(toClient, [type |-> "auth", ok |-> ok])
    BY <1>10, HandleAuthDoes DEF DatabaseInv
  <2> DEFINE m == [type |-> "auth", ok |-> ok]
  <2>2. m \in Answers /\ m.type = "auth"
    BY AnswersAre
  <2>3. server' = server /\ putsToAck' = putsToAck /\ made'.writes = made.writes
    BY <1>10, HandleAuthDoes DEF DatabaseInv, puts
  <2>4. toClient' = Append(toClient, m)
    BY <2>1
  <2> HIDE DEF m
  <2>5. HeldOf(server.log, Append(toClient, m), putsToAck)
    BY <1>1, <1>2, <2>2, HeldOfMore
  <2> QED BY <1>3, <2>3, <2>4, <2>5
<1>11. CASE HandlePut
  <2> DEFINE w     == Head(toServer).write
             log   == Append(server.log, NewState(w.value, w.id))
             told  == toClient \o Pushed(w.kind, w.value)
             yes   == WriteAnswer(w.id, TRUE)
             no    == WriteAnswer(w.id, FALSE)
  <2>1. /\ Change(w.kind, w.value) /\ w.id \in 1..MaxWrites
        /\ \/ Commits(w.value, w.id) /\ toClient' = told \o <<yes>>
           \/ server' = server /\ toClient' = Append(toClient, no)
        /\ UNCHANGED <<puts, made>>
    BY <1>11, HandlePutDoes, Zenon DEF DatabaseInv
  <2>2. w.id <= made.writes /\ \A i \in 1..Len(putsToAck) : putsToAck[i].id # w.id
    <3>1. w.id <= made.writes /\ \A i \in 1..Len(putsToAck) : putsToAck[i].id < w.id
      BY <1>11, HandledIsNext
    <3>2. \A i \in 1..Len(putsToAck) : putsToAck[i].id \in Int
      BY <1>1, HeldIds
    <3> QED BY <2>1, <3>1, <3>2
  <2>3. yes \in Answers /\ yes.type = "put" /\ no \in Answers /\ no.type = "put"
    BY <2>1, AnswersAre DEF WriteAnswer
  <2>4. NewState(w.value, w.id) \in Logged /\ Pushed(w.kind, w.value) \in Seq(Answers)
    <3> HIDE DEF w
    <3> QED BY <2>1, CommitTyped DEF DatabaseInv
  <2>5. log \in Seq(Logged) /\ told \in Seq(Answers)
    BY <1>1, <2>4
  <2>6. MadeBefore(log, made.writes) /\ HeldOf(log, told, putsToAck)
    <3> HIDE DEF w
    <3> QED BY <2>1, <2>2, KeptOfCommit
  <2>7. Commits(w.value, w.id) => server'.log = log
    BY DEF Commits
  <2> HIDE DEF w, log, told, yes, no
  <2>8. told \o <<yes>> = Append(told, yes)
    BY <2>3, <2>5, OneMore
  <2>9. HeldOf(log, Append(told, yes), putsToAck)
    BY <2>3, <2>5, <2>6, HeldOfMore
  <2>10. HeldOf(server.log, Append(toClient, no), putsToAck)
    BY <1>1, <1>2, <2>3, HeldOfMore
  <2> QED BY <1>2, <2>1, <2>6, <2>7, <2>8, <2>9, <2>10 DEF Kept, puts
<1>12. CASE HandleListen
  <2>1. server'.log = server.log /\ UNCHANGED <<toClient, puts, made>>
    BY <1>12, HandleListenDoes DEF DatabaseInv
  <2> QED BY <1>2, <1>3, <2>1 DEF puts
<1>13. CASE AnswerListen
  <2>1. /\ toClient' = toClient \o Brought \o <<Told>> /\ server'.log = server.log
        /\ Brought \in Seq(Answers) /\ Fetched \in Answers /\ Told \in Answers
        /\ UNCHANGED <<puts, made>>
    BY <1>13, AnswerListenDoes DEF DatabaseInv
  <2>2. Fetched.type = "data" /\ Told.at = Len(server.log)
    BY DEF Fetched, Told
  <2>3. toClient \o Brought \in Seq(Answers) /\ HeldOf(server.log, toClient \o Brought, putsToAck)
    <3>1. Brought = <<>> \/ Brought = <<Fetched>>
      BY DEF Brought
    <3>2. toClient \o <<>> = toClient /\ toClient \o <<Fetched>> = Append(toClient, Fetched)
      BY <1>1, <2>1
    <3>3. HeldOf(server.log, Append(toClient, Fetched), putsToAck)
      BY <1>1, <1>2, <2>1, <2>2, HeldOfMore
    <3>4. toClient \o Brought = toClient \/ toClient \o Brought = Append(toClient, Fetched)
      BY <3>1, <3>2
    <3>5. toClient \o Brought \in Seq(Answers)
      BY <1>1, <2>1, ConcatTyped
    <3> QED BY <1>2, <3>3, <3>4, <3>5
  <2>4. toClient' = Append(toClient \o Brought, Told)
    BY <2>1, <2>3, OneMore
  <2>5. HeldOf(server.log, Append(toClient \o Brought, Told), putsToAck)
    BY <1>1, <2>1, <2>2, <2>3, HeldOfMore
  <2> QED BY <1>3, <2>1, <2>4, <2>5 DEF puts
<1>14. CASE ForeignWrite
  <2>1. PICK kind, value :
          /\ Change(kind, value) /\ Commits(value, 0) /\ toClient' = toClient \o Pushed(kind, value)
          /\ made'.writes = made.writes /\ UNCHANGED puts
    BY <1>14, ForeignWriteDoes DEF DatabaseInv
  <2>2. \A i \in 1..Len(putsToAck) : putsToAck[i].id # 0
    BY <1>1, HeldIds
  <2>3. /\ MadeBefore(Append(server.log, NewState(value, 0)), made.writes)
        /\ HeldOf(Append(server.log, NewState(value, 0)), toClient \o Pushed(kind, value), putsToAck)
    BY <1>1, <2>1, <2>2, KeptOfCommit
  <2>4. server'.log = Append(server.log, NewState(value, 0))
    BY <2>1 DEF Commits
  <2> QED BY <2>1, <2>3, <2>4 DEF Kept, puts
<1>15. CASE UNCHANGED vars
  BY <1>2, <1>3, <1>15 DEF vars, wire, puts
<1> QED BY <1>4, <1>5, <1>6, <1>7, <1>8, <1>9, <1>10, <1>11, <1>12, <1>13, <1>14, <1>15, StepsAre



-----------------------------------------------------------------------------
(* The theorems. *)

LEMMA InitHolds == Init => DatabaseInv
<1> SUFFICES ASSUME Init PROVE DatabaseInv
  OBVIOUS
<1>1. Typed
  BY TypedAtFirst
<1>2. /\ server.log = <<[node |-> EmptyNode, by |-> 0]>> /\ ~server.listening /\ server.due = <<>>
      /\ toServer = <<>> /\ toClient = <<>> /\ connection.state = "Disconnected"
      /\ connection.unacked = 0 /\ outstandingPuts = <<>> /\ putsToAck = <<>> /\ allWrites = <<>>
      /\ visibleWrites = EmptyWrite /\ observed = FALSE /\ made.writes = 0
      /\ view.server = [node |-> EmptyNode, complete |-> FALSE, at |-> 0]
  BY DEF Init, Idle, FreshView
<1>3. Counted
  BY <1>2, NoCounts DEF Counted
<1>4. Quiet
  BY <1>2, NoCounts DEF Quiet, Connected
<1>5. Queued
  BY <1>2 DEF Queued, QueueOf
<1>6. Wired
  BY <1>2, NoCounts DEF Wired, CanSendWrites
<1>7. Led
  <2>1. server.log \in Seq(Logged) /\ 0 \in 0..Len(server.log)
    <3>1. server.log \in Seq(Logged)
      BY <1>1, RecordsAre
    <3> QED BY <3>1
  <2>2. Follows(server.log, <<>>, FALSE, 0)
    BY <2>1, FollowsNone
  <2>3. server.listening = FALSE
    BY <1>1, <1>2, RecordsAre
  <2>4. view.server.at = 0 /\ view.server.node = EmptyNode
    BY <1>2
  <2>5. Follows(server.log, toClient, server.listening, view.server.at)
    BY <1>2, <2>2, <2>3, <2>4
  <2> QED BY <1>2, <2>4, <2>5, AsksForNone DEF Led, NodeAt
<1>8. Kept
  BY <1>2 DEF Kept, MadeBefore, HeldOf
<1>9. Viewed
  BY <1>2, LayerOfNone DEF Viewed
<1> QED BY <1>1, <1>3, <1>4, <1>5, <1>6, <1>7, <1>8, <1>9 DEF DatabaseInv

LEMMA StepKeepsInvariant == DatabaseInv /\ [Next]_vars => DatabaseInv'
BY TypedIsKept, CountedIsKept, QuietIsKept, QueuedIsKept, WiredIsKept, LedIsKept, KeptIsKept,
   ViewedIsKept DEF DatabaseInv

(* What is known of the pending writes, the connection, the server's log   *)
(* and the view at every moment of FRepo's queue.                          *)
THEOREM DatabaseInvariant == Spec => []DatabaseInv
BY InitHolds, StepKeepsInvariant, PTL DEF Spec

LEMMA ElementsAre == \A S : \A s \in Seq(S) : Range(s) \subseteq S
BY DEF Range

(* The client's data are those of its classes; the count of unanswered     *)
(* listens (FPersistentConnection) is never negative and never above two,  *)
(* over any number of reconnections.                                       *)
THEOREM DatabaseTypes == Spec => []DatabaseTypeOK
<1>1. DatabaseInv => DatabaseTypeOK
  <2> SUFFICES ASSUME DatabaseInv PROVE DatabaseTypeOK
    OBVIOUS
  <2>1. Typed /\ Counted /\ Led
    BY DEF DatabaseInv
  <2>2. connection \in [state : States, retrying : BOOLEAN, token : BOOLEAN, killed : BOOLEAN,
                        unacked : 0..2]
    <3>1. connection.unacked \in 0..2
      <4>1. connection.unacked \in Int /\ CountOf("listen", toServer) \in Nat
              /\ Len(server.due) \in Nat /\ CountOf("listen", toClient) \in Nat
        BY <2>1, RecordsAre, AnswersCounted
      <4> QED BY <2>1, <4>1 DEF Counted
    <3> QED BY <2>1, <3>1, RecordsAre
  <2>3. Range(allWrites) \union Range(outstandingPuts) \subseteq Write
    BY <2>1, ElementsAre DEF Typed
  <2>4. visibleWrites.root \in BOOLEAN /\ DOMAIN visibleWrites.at \subseteq Keys
    BY <2>1, PartialIs DEF Typed, Visible
  <2>5. view.server.node \in Node /\ view.event.node \in Node
    BY <2>1 DEF Typed, ViewType
  <2>6. view.server.at \in 0..Len(server.log)
    BY <2>1, RecordsAre, FollowsFrom DEF Led, Typed
  <2> QED BY <2>2, <2>3, <2>4, <2>5, <2>6 DEF DatabaseTypeOK, States
<1> QED BY <1>1, DatabaseInvariant, PTL

(* The tree of FWriteTree is what layering the pending writes gives.       *)
THEOREM WritesStayLayered == Spec => []VisibleWritesAreLayered
<1>1. DatabaseInv => VisibleWritesAreLayered
  BY DEF DatabaseInv, Viewed, VisibleWritesAreLayered
<1> QED BY <1>1, DatabaseInvariant, PTL

(* A view updated piece by piece is the server's state under the pending   *)
(* writes.                                                                 *)
THEOREM ViewStaysUnderWrites == Spec => []ViewIsServerUnderWrites
<1>1. DatabaseInv => ViewIsServerUnderWrites
  <2> SUFFICES ASSUME DatabaseInv PROVE ViewIsServerUnderWrites
    OBVIOUS
  <2>1. view.server.complete => view.server.node = server.log[view.server.at].node
    <3>1. view.server.complete => view.server.at # 0
      BY DEF DatabaseInv, Quiet
    <3> QED BY <3>1 DEF DatabaseInv, Led, NodeAt
  <2>2. observed /\ view.event.complete
          => view.event.node = applyToNode(visibleWrites, view.server.node)
    BY DEF DatabaseInv, Viewed, Layered
  <2> QED BY <2>1, <2>2 DEF ViewIsServerUnderWrites
<1> QED BY <1>1, DatabaseInvariant, PTL

LEMMA SameSeq ==
  \A S : \A s, t \in Seq(S) : Len(s) = Len(t) /\ (\A i \in 1..Len(s) : s[i] = t[i]) => s = t
OBVIOUS

LEMMA IdsAre ==
  ASSUME NEW s, Len(s) \in Nat, \A i \in 1..Len(s) : s[i].id \in Int
  PROVE  /\ Ids(s) \in Seq(Int) /\ Len(Ids(s)) = Len(s)
         /\ \A i \in 1..Len(s) : Ids(s)[i] = s[i].id
BY DEF Ids

LEMMA ConcatIs ==
  ASSUME NEW S, NEW s \in Seq(S), NEW t \in Seq(S), NEW u \in Seq(S),
         Len(u) = Len(s) + Len(t),
         \A i \in 1..Len(s) : u[i] = s[i],
         \A i \in 1..Len(t) : u[Len(s) + i] = t[i]
  PROVE  u = s \o t
<1>1. /\ s \o t \in Seq(S) /\ Len(s \o t) = Len(s) + Len(t) /\ Len(s) \in Nat /\ Len(t) \in Nat
      /\ \A i \in 1..Len(s) : (s \o t)[i] = s[i]
      /\ \A i \in 1..Len(t) : (s \o t)[Len(s) + i] = t[i]
  OBVIOUS
<1> DEFINE both == s \o t
<1> HIDE DEF both
<1>2. ASSUME NEW i \in 1..Len(u) PROVE u[i] = both[i]
  <2>1. CASE i \in 1..Len(s)
    BY <1>1, <2>1 DEF both
  <2>2. CASE i \notin 1..Len(s)
    <3>1. i - Len(s) \in 1..Len(t) /\ Len(s) + (i - Len(s)) = i
      BY <1>1, <2>2
    <3>2. u[Len(s) + (i - Len(s))] = t[i - Len(s)] /\ both[Len(s) + (i - Len(s))] = t[i - Len(s)]
      BY <1>1, <3>1 DEF both
    <3> QED BY <3>1, <3>2
  <2> QED BY <2>1, <2>2
<1>3. u = both
  BY <1>1, <1>2, SameSeq DEF both
<1> QED BY <1>3 DEF both

(* The writes that are pending are those whose answer is held and those    *)
(* without an answer, in the order the app made them.                      *)
THEOREM PendingWritesAreOnTheirWay == Spec => []EveryPendingWriteIsOnItsWay
<1>1. DatabaseInv => EveryPendingWriteIsOnItsWay
  <2> SUFFICES ASSUME DatabaseInv PROVE Ids(allWrites) = Ids(putsToAck) \o Ids(outstandingPuts)
    BY DEF EveryPendingWriteIsOnItsWay
  <2>1. /\ allWrites \in Seq(Write) /\ outstandingPuts \in Seq(Write) /\ putsToAck \in Seq(Held)
        /\ QueueOf(allWrites, putsToAck, outstandingPuts, made.writes)
    BY DEF DatabaseInv, Typed, Queued
  <2>2. /\ Len(allWrites) \in Nat /\ Len(outstandingPuts) \in Nat /\ Len(putsToAck) \in Nat
        /\ \A i \in 1..Len(allWrites) : allWrites[i].id \in Int
        /\ \A i \in 1..Len(outstandingPuts) : outstandingPuts[i].id \in Int
        /\ \A i \in 1..Len(putsToAck) : putsToAck[i].id \in Int
    BY <2>1, WriteIds, HeldIds
  <2> DEFINE u == Ids(allWrites)
             s == Ids(putsToAck)
             t == Ids(outstandingPuts)
  <2>3. /\ u \in Seq(Int) /\ Len(u) = Len(allWrites)
        /\ \A i \in 1..Len(allWrites) : u[i] = allWrites[i].id
    BY <2>2, IdsAre
  <2>4. /\ s \in Seq(Int) /\ Len(s) = Len(putsToAck)
        /\ \A i \in 1..Len(putsToAck) : s[i] = putsToAck[i].id
    BY <2>2, IdsAre
  <2>5. /\ t \in Seq(Int) /\ Len(t) = Len(outstandingPuts)
        /\ \A i \in 1..Len(outstandingPuts) : t[i] = outstandingPuts[i].id
    BY <2>2, IdsAre
  <2> HIDE DEF s, t, u
  <2>6. Len(u) = Len(s) + Len(t)
    BY <2>1, <2>3, <2>4, <2>5 DEF QueueOf
  <2>7. ASSUME NEW i \in 1..Len(s) PROVE u[i] = s[i]
    <3>1. i \in 1..Len(allWrites) /\ i \in 1..Len(putsToAck)
      BY <2>2, <2>3, <2>4, <2>5, <2>6
    <3> QED BY <2>1, <2>3, <2>4, <3>1 DEF QueueOf
  <2>8. ASSUME NEW i \in 1..Len(t) PROVE u[Len(s) + i] = t[i]
    <3>1. Len(s) + i \in 1..Len(allWrites) /\ i \in 1..Len(outstandingPuts)
      BY <2>2, <2>3, <2>4, <2>5, <2>6
    <3>2. allWrites[Len(s) + i] = outstandingPuts[i]
      BY <2>1, <2>4, <3>1 DEF QueueOf
    <3> QED BY <2>3, <2>5, <3>1, <3>2
  <2>9. u = s \o t
    BY <2>3, <2>4, <2>5, <2>6, <2>7, <2>8, ConcatIs
  <2> QED BY <2>9 DEF s, t, u
<1> QED BY <1>1, DatabaseInvariant, PTL

(* Connected, each write without an answer is on the wire exactly once, in *)
(* order, over any number of lost connections; else none is.               *)
THEOREM WireCarriesPuts == Spec => []WireCarriesOutstandingPuts
<1>1. DatabaseInv => WireCarriesOutstandingPuts
  <2> SUFFICES ASSUME DatabaseInv PROVE WireCarriesOutstandingPuts
    OBVIOUS
  <2> DEFINE answers  == OfType("put", toClient)
             requests == OfType("put", toServer)
             asked    == [i \in 1..Len(requests) |-> requests[i].write.id]
  <2>1. /\ answers \in Seq(Answers) /\ requests \in Seq(Requests) /\ outstandingPuts \in Seq(Write)
        /\ \A i \in 1..Len(answers) : answers[i].type = "put"
        /\ \A i \in 1..Len(requests) : requests[i].type = "put"
    BY OfTypeTyped, OfTypeKeeps DEF DatabaseInv, Typed
  <2>2. IF CanSendWrites THEN OnTheWire(answers, requests, outstandingPuts)
        ELSE answers = <<>> /\ requests = <<>>
    BY DEF DatabaseInv, Wired
  <2>3. WireCarriesOutstandingPuts
          <=> Ids(answers) \o asked = IF CanSendWrites THEN Ids(outstandingPuts) ELSE <<>>
    BY DEF WireCarriesOutstandingPuts
  <2> HIDE DEF answers, requests
  <2>4. CASE ~CanSendWrites
    <3>1. Ids(answers) = <<>> /\ asked = <<>>
      BY <2>2, <2>4 DEF Ids
    <3> HIDE DEF asked
    <3> QED BY <2>3, <2>4, <3>1
  <2>5. CASE CanSendWrites
    <3>1. /\ Len(answers) \in Nat /\ Len(requests) \in Nat /\ Len(outstandingPuts) \in Nat
          /\ \A i \in 1..Len(answers) : answers[i].id \in Int
          /\ \A i \in 1..Len(requests) : requests[i].write.id \in Int
          /\ \A i \in 1..Len(outstandingPuts) : outstandingPuts[i].id \in Int
      BY <2>1, AnswerIs, RequestIs, WriteIds
    <3>2. /\ asked \in Seq(Int) /\ Len(asked) = Len(requests)
          /\ \A i \in 1..Len(requests) : asked[i] = requests[i].write.id
      BY <3>1
    <3> DEFINE u == Ids(outstandingPuts)
               s == Ids(answers)
    <3>3. /\ u \in Seq(Int) /\ Len(u) = Len(outstandingPuts)
          /\ \A i \in 1..Len(outstandingPuts) : u[i] = outstandingPuts[i].id
      BY <3>1, IdsAre
    <3>4. /\ s \in Seq(Int) /\ Len(s) = Len(answers)
          /\ \A i \in 1..Len(answers) : s[i] = answers[i].id
      BY <3>1, IdsAre
    <3>5. /\ Len(answers) + Len(requests) = Len(outstandingPuts)
          /\ \A i \in 1..Len(answers) : answers[i].id = outstandingPuts[i].id
          /\ \A i \in 1..Len(requests) : requests[i].write = outstandingPuts[Len(answers) + i]
      BY <2>2, <2>5 DEF OnTheWire
    <3> HIDE DEF asked, s, u
    <3>6. ASSUME NEW i \in 1..Len(s) PROVE u[i] = s[i]
      <4>1. i \in 1..Len(outstandingPuts) /\ i \in 1..Len(answers)
        BY <3>1, <3>4, <3>5
      <4> QED BY <3>3, <3>4, <3>5, <4>1
    <3>7. ASSUME NEW i \in 1..Len(asked) PROVE u[Len(s) + i] = asked[i]
      <4>1. Len(answers) + i \in 1..Len(outstandingPuts) /\ i \in 1..Len(requests)
        BY <3>1, <3>2, <3>5
      <4> QED BY <3>2, <3>3, <3>4, <3>5, <4>1
    <3>8. u = s \o asked
      <4>1. Len(u) = Len(s) + Len(asked)
        BY <3>2, <3>3, <3>4, <3>5
      <4> QED BY <3>2, <3>3, <3>4, <3>6, <3>7, <4>1, ConcatIs
    <3> QED BY <2>3, <2>5, <3>8 DEF s, u
  <2> QED BY <2>4, <2>5
<1> QED BY <1>1, DatabaseInvariant, PTL



-----------------------------------------------------------------------------
(* The client implements ConsistentView.                                   *)

Seen  == IF view.server.complete THEN view.server.at ELSE 0
Shown == IF observed /\ view.event.complete THEN view.event.node ELSE Nothing

LEMMA AppsUnder == \A node, s : App!Under(node, s) = Under(node, s)
BY DEF Under, App!Under, FoldLeft, App!FoldLeft, MapThenFoldSet, App!MapThenFoldSet, Max, App!Max,
       ApplyWrite, App!ApplyWrite, Over, App!Over

LEMMA AppsValues ==
  /\ App!Nothing = Nothing /\ App!EmptyNode = EmptyNode /\ App!Node = Node
  /\ \A id : App!Writes(id) = Writes(id)
  /\ \A node, w : App!ApplyWrite(node, w) = Over(w.value, node)
  /\ \A s : App!Last(s) = Last(s)
BY DEF Nothing, App!Nothing, EmptyNode, App!EmptyNode, Node, App!Node, Values, App!Values,
       Absent, App!Absent, Writes, App!Writes, App!ApplyWrite, Over, App!Over, Last, App!Last

(* What the observers see is where they are in the log.                    *)
LEMMA SeenIs ==
  ASSUME DatabaseInv
  PROVE  Seen = view.server.at /\ Seen \in 0..Len(server.log)
<1>1. view.server.complete <=> view.server.at > 0
  BY DEF DatabaseInv, Quiet
<1>2. view.server.at \in 0..Len(server.log)
  BY RecordsAre, FollowsFrom DEF DatabaseInv, Led, Typed
<1> QED BY <1>1, <1>2 DEF Seen

(* And what they hear is that state under the pending writes.              *)
ShownIsView == Shown = App!View(server.log, allWrites, observed, Seen)

LEMMA ShownIs == DatabaseInv => ShownIsView
<1> SUFFICES ASSUME DatabaseInv PROVE ShownIsView
  OBVIOUS
<1>1. /\ allWrites \in Seq(Write) /\ view.server.node \in Node
      /\ view.server.complete \in BOOLEAN /\ observed \in BOOLEAN
  BY DEF DatabaseInv, Typed, ViewType
<1>2. Seen = view.server.at /\ Seen \in 0..Len(server.log) /\ (view.server.complete <=> Seen > 0)
  BY SeenIs DEF DatabaseInv, Quiet
<1>3. view.server.node = IF Seen > 0 THEN server.log[Seen].node ELSE EmptyNode
  BY <1>2 DEF DatabaseInv, Led, NodeAt
<1> DEFINE whole == \E i \in 1..Len(allWrites) : allWrites[i].kind = "set"
<1>4. visibleWrites = layerTreeFromWrites(allWrites) /\ (visibleWrites.root <=> whole)
  <2>1. visibleWrites = layerTreeFromWrites(allWrites)
    BY DEF DatabaseInv, Viewed
  <2> QED BY <1>1, <2>1, LayerReaches
<1> HIDE DEF whole
<1>5. ASSUME observed
      PROVE  /\ view.event.complete <=> Seen > 0 \/ whole
             /\ view.event.complete => view.event.node = Under(view.server.node, allWrites)
  <2>1. Layered(view, visibleWrites)
    BY <1>5 DEF DatabaseInv, Viewed
  <2>2. view.event.complete <=> view.server.complete \/ visibleWrites.root
    BY <2>1 DEF Layered
  <2>3. Under(view.server.node, allWrites) = applyToNode(visibleWrites, view.server.node)
    BY <1>1, <1>4, UnderIsLayered DEF applyToNode
  <2>4. view.event.complete => view.event.node = Under(view.server.node, allWrites)
    BY <2>1, <2>3 DEF Layered
  <2> QED BY <1>2, <1>4, <2>2, <2>4
<1>6. App!View(server.log, allWrites, observed, Seen)
        = IF observed /\ (Seen > 0 \/ whole) THEN Under(view.server.node, allWrites) ELSE Nothing
  BY <1>3, AppsUnder, AppsValues DEF App!View, whole
<1>7. CASE observed
  BY <1>5, <1>6, <1>7 DEF ShownIsView, Shown
<1>8. CASE ~observed
  BY <1>6, <1>8 DEF ShownIsView, Shown
<1> QED BY <1>7, <1>8

(* A step of the log, the pending writes, the observers and their place.   *)
AppMoves ==
  \/ \E id \in 1..MaxWrites : \E w \in Writes(id) : App!Write(w)
  \/ \E i \in 1..Len(allWrites) : App!Commit(allWrites[i])
  \/ \E node \in Node : App!CommitForeign(node)
  \/ App!Observe
  \/ \E s \in Seen..Len(server.log), n \in 0..Len(allWrites) : App!Sync(s, n)
  \/ App!End

AppStays == UNCHANGED <<server.log, allWrites, observed, Seen>>

(* An answer that is passed on: the observers have seen the write.         *)
LEMMA PutAnsweredSyncs ==
  ASSUME DatabaseInv, PutAnswered, connection.unacked = 0
  PROVE  App!Sync(Seen, 1) /\ 1 \in 0..Len(allWrites)
<1> DEFINE m == Head(toClient)
<1>1. /\ toClient # <<>> /\ m.type = "put" /\ view'.server = view.server
      /\ server' = server /\ observed' = observed
  BY PutAnsweredMoves
<1>2. /\ connection.state = "Connected" /\ outstandingPuts # <<>> /\ m.id = outstandingPuts[1].id
      /\ putsToAck = <<>> /\ allWrites # <<>> /\ allWrites' = Tail(allWrites)
  BY PutAnsweredDoes
<1>3. /\ allWrites \in Seq(Write) /\ outstandingPuts \in Seq(Write) /\ toClient \in Seq(Answers)
      /\ server.log \in Seq(Logged) /\ server.listening \in BOOLEAN
  BY RecordsAre DEF DatabaseInv, Typed
<1>4. 1 \in 1..Len(allWrites) /\ SubSeq(allWrites, 1 + 1, Len(allWrites)) = Tail(allWrites)
  BY <1>2, <1>3
<1>5. allWrites[1].id = m.id
  <2>1. 1 \in 1..Len(outstandingPuts) /\ Len(putsToAck) + 1 = 1
    BY <1>2, <1>3
  <2>2. allWrites[Len(putsToAck) + 1] = outstandingPuts[1]
    BY <2>1 DEF DatabaseInv, Queued, QueueOf
  <2> QED BY <1>2, <2>1, <2>2
<1>6. observed => \A j \in 1..Len(server.log) : server.log[j].by = m.id => j <= view.server.at
  <2>1. HeadTold(server.log, toClient, server.listening, view.server.at)
    <3>1. Follows(server.log, toClient, server.listening, view.server.at)
      BY DEF DatabaseInv, Led
    <3> QED BY <1>1, <1>3, <3>1, FollowsTail DEF HeadFollowed
  <2>2. CountOf("listen", toClient) = 0
    <3>1. /\ CountOf("listen", toServer) \in Nat /\ Len(server.due) \in Nat
          /\ CountOf("listen", toClient) \in Nat
      BY AnswersCounted DEF DatabaseInv
    <3>2. connection.unacked
            = CountOf("listen", toServer) + Len(server.due) + CountOf("listen", toClient)
      BY DEF DatabaseInv, Counted
    <3> QED BY <3>1, <3>2
  <2>3. \A k \in 1..Len(toClient) : toClient[k].type # "listen"
    BY <1>3, <2>2, CountIsZero
  <2>4. observed => server.listening
    BY <1>2 DEF DatabaseInv, Quiet
  <2> HIDE DEF m
  <2> QED BY <1>1, <2>1, <2>3, <2>4 DEF HeadTold, m
<1>7. Seen' = Seen /\ Seen = view.server.at
  BY <1>1, SeenIs DEF Seen
<1>8. observed => \A i \in 1..1, j \in 1..Len(server.log) :
                    server.log[j].by = allWrites[i].id => j <= Seen
  BY <1>5, <1>6, <1>7
<1> HIDE DEF m
<1>9. 1 \in 0..Len(allWrites)
  BY <1>4
<1> QED BY <1>1, <1>2, <1>4, <1>7, <1>8, <1>9 DEF App!Sync, Seen

(* The answer to a listen: the writes of the held answers are in it.       *)
LEMMA ListenAnsweredSyncs ==
  ASSUME DatabaseInv, ListenAnswered
  PROVE  \E s \in Seen..Len(server.log), n \in 0..Len(allWrites) : App!Sync(s, n)
<1> DEFINE m == Head(toClient)
           n == ListenAcks
<1>1. /\ toClient # <<>> /\ m.type = "listen" /\ m.at \in 1..Len(server.log)
      /\ view.server.at <= m.at
      /\ view'.server = [node |-> NodeAt(server.log, m.at), complete |-> TRUE, at |-> m.at]
      /\ server' = server /\ observed' = observed
  BY ListenAnsweredMoves
<1>2. /\ observed /\ n \in 0..Len(allWrites)
      /\ allWrites' = SubSeq(allWrites, n + 1, Len(allWrites))
  BY ListenAnsweredDoes
<1>3. Seen' = m.at
  BY <1>1 DEF Seen
<1>4. m.at \in Seen..Len(server.log)
  <2>1. Seen = view.server.at /\ Seen \in 0..Len(server.log)
    BY SeenIs
  <2> HIDE DEF m
  <2> QED BY <1>1, <2>1
<1>5. ASSUME NEW i \in 1..n, NEW j \in 1..Len(server.log), server.log[j].by = allWrites[i].id
      PROVE  j <= m.at
  <2>1. i \in 1..Len(putsToAck)
    BY <1>5 DEF ListenAcks
  <2>2. allWrites[i].id = putsToAck[i].id
    BY <2>1 DEF DatabaseInv, Queued, QueueOf
  <2>3. 1 \in 1..Len(toClient) /\ toClient[1] = m
    BY <1>1 DEF DatabaseInv, Typed
  <2>4. HeldOf(server.log, toClient, putsToAck)
    BY DEF DatabaseInv, Kept
  <2> HIDE DEF m
  <2> QED BY <1>1, <1>5, <2>1, <2>2, <2>3, <2>4 DEF HeldOf
<1> HIDE DEF m, n
<1>6. App!Sync(m.at, n)
  BY <1>1, <1>2, <1>3, <1>5 DEF App!Sync, Seen
<1> QED BY <1>2, <1>4, <1>6

LEMMA DataPushedSyncs ==
  ASSUME DatabaseInv, DataPushed
  PROVE  \E s \in Seen..Len(server.log), n \in 0..Len(allWrites) : App!Sync(s, n)
<1> DEFINE m == Head(toClient)
<1>1. /\ m.at \in 1..Len(server.log) /\ view.server.at <= m.at
      /\ view'.server = [node |-> NodeAt(server.log, m.at), complete |-> TRUE, at |-> m.at]
      /\ server' = server /\ observed' = observed /\ allWrites' = allWrites
  BY DataPushedMoves DEF tree
<1>2. observed
  BY DataPushedDoes
<1>3. allWrites \in Seq(Write)
  BY DEF DatabaseInv, Typed
<1>4. 0 \in 0..Len(allWrites) /\ SubSeq(allWrites, 0 + 1, Len(allWrites)) = allWrites
  BY <1>3
<1>5. Seen' = m.at
  BY <1>1 DEF Seen
<1>6. Seen = view.server.at /\ Seen \in 0..Len(server.log)
  BY SeenIs
<1> HIDE DEF m
<1>7. m.at \in Seen..Len(server.log)
  BY <1>1, <1>6
<1>8. App!Sync(m.at, 0)
  BY <1>1, <1>2, <1>4, <1>5 DEF App!Sync, Seen
<1> QED BY <1>4, <1>7, <1>8

(* The server's commits are those of the pending writes, or of others.     *)
LEMMA HandlePutCommitsPending ==
  ASSUME DatabaseInv, HandlePut
  PROVE  AppStays \/ \E i \in 1..Len(allWrites) : App!Commit(allWrites[i])
<1> DEFINE w == Head(toServer).write
           n == Len(putsToAck) + Len(PutsAnswered) + 1
<1>1. n \in 1..Len(allWrites) /\ w = allWrites[n]
  BY HandledIsNext
<1>2. UNCHANGED <<tree, observed, view>>
  BY HandlePutDoes DEF DatabaseInv
<1>3. Seen' = Seen
  BY <1>2 DEF Seen
<1>4. CASE server'.log = server.log
  BY <1>2, <1>3, <1>4 DEF AppStays, tree
<1>5. CASE server'.log = Append(server.log, NewState(w.value, w.id))
  <2>1. NewState(w.value, w.id) = [node |-> App!ApplyWrite(App!Last(server.log).node, w), by |-> w.id]
    BY AppsValues DEF NewState, Stored
  <2> HIDE DEF w, n
  <2>2. App!Commit(w)
    BY <1>2, <1>3, <1>5, <2>1 DEF App!Commit, tree, Seen
  <2> QED BY <1>1, <2>2
<1> QED BY <1>4, <1>5, HandlePutCommits DEF DatabaseInv

LEMMA ForeignWriteCommits ==
  ASSUME DatabaseInv, ForeignWrite
  PROVE  \E node \in Node : App!CommitForeign(node)
<1>1. PICK kind, value :
        Change(kind, value) /\ Commits(value, 0) /\ UNCHANGED <<tree, observed, view>>
  BY ForeignWriteDoes DEF DatabaseInv
<1> DEFINE state == NewState(value, 0)
<1>2. state \in Logged
  BY <1>1, CommitTyped DEF DatabaseInv
<1>3. state.node \in Node /\ state = [node |-> state.node, by |-> 0]
  BY <1>2 DEF Logged, NewState
<1>4. server'.log = Append(server.log, state)
  BY <1>1 DEF Commits
<1> HIDE DEF state
<1>5. App!CommitForeign(state.node)
  BY <1>1, <1>3, <1>4 DEF App!CommitForeign, tree, Seen
<1> QED BY <1>3, <1>5

LEMMA StepSimulates ==
  ASSUME DatabaseInv, [Next]_vars
  PROVE  AppMoves \/ AppStays
<1>1. CASE WriteData
  <2>1. PICK w \in Write :
          /\ w \in Writes(w.id) /\ w.id \in 1..MaxWrites /\ allWrites' = Append(allWrites, w)
          /\ server' = server /\ observed' = observed
    BY <1>1, WriteDataDoes DEF DatabaseInv
  <2>2. Seen' = Seen
    BY <1>1, WriteDataMoves DEF Seen
  <2>3. App!Write(w)
    BY <2>1, <2>2 DEF App!Write, Seen
  <2> QED BY <2>1, <2>3 DEF AppMoves
<1>2. CASE Observe
  <2>1. /\ ~observed /\ observed' = TRUE /\ view' = FreshView(visibleWrites)
        /\ server' = server /\ allWrites' = allWrites
    BY <1>2, ObserveDoes DEF DatabaseInv, tree
  <2>2. view.server = [node |-> EmptyNode, complete |-> FALSE, at |-> 0]
    BY <2>1 DEF DatabaseInv, Quiet
  <2>3. Seen' = Seen
    BY <2>1, <2>2 DEF Seen, FreshView
  <2>4. App!Observe
    BY <2>1, <2>3 DEF App!Observe, Seen
  <2> QED BY <2>4 DEF AppMoves
<1>3. CASE EndProcess
  <2>1. /\ server' = [log |-> server.log, listening |-> FALSE, due |-> <<>>]
        /\ allWrites' = <<>> /\ observed' = FALSE /\ view' = FreshView(EmptyWrite)
    BY <1>3, EndProcessDoes DEF DatabaseInv
  <2>2. server'.log = server.log /\ Seen' = 0
    BY <2>1 DEF Seen, FreshView
  <2>3. App!End
    BY <2>1, <2>2 DEF App!End, Seen
  <2> QED BY <2>3 DEF AppMoves
<1>4. CASE PutAnswered
  <2>1. CASE connection.unacked = 0
    <3>1. App!Sync(Seen, 1) /\ 1 \in 0..Len(allWrites)
      BY <1>4, <2>1, PutAnsweredSyncs
    <3>2. Seen \in Seen..Len(server.log)
      <4>1. Seen \in 0..Len(server.log)
        BY SeenIs
      <4> QED BY <4>1
    <3> QED BY <3>1, <3>2 DEF AppMoves
  <2>2. CASE connection.unacked # 0
    <3>1. allWrites' = allWrites /\ view' = view
      BY <1>4, <2>2, PutAnsweredDoes
    <3> QED BY <1>4, <3>1, PutAnsweredMoves DEF AppStays, Seen
  <2> QED BY <2>1, <2>2
<1>5. CASE ListenAnswered \/ DataPushed
  BY <1>5, ListenAnsweredSyncs, DataPushedSyncs DEF AppMoves
<1>6. CASE HandlePut
  BY <1>6, HandlePutCommitsPending DEF AppMoves
<1>7. CASE ForeignWrite
  BY <1>7, ForeignWriteCommits DEF AppMoves
<1>8. ASSUME server'.log = server.log, allWrites' = allWrites, observed' = observed, view' = view
      PROVE  AppStays
  BY <1>8 DEF AppStays, Seen
<1>9. CASE Loses
  <2>1. /\ server' = [log |-> server.log, listening |-> FALSE, due |-> <<>>]
        /\ UNCHANGED <<tree, observed, view>>
    BY <1>9, LosesDoes DEF DatabaseInv
  <2>2. server'.log = server.log
    BY <2>1
  <2> QED BY <1>8, <2>1, <2>2 DEF tree
<1>10. CASE Waits \/ SendsAuth \/ Restores \/ HandleAuth
  <2>1. UNCHANGED <<server, tree, observed, view>>
    BY <1>10, WaitsDoes, SendsAuthDoes, RestoresDoes, HandleAuthDoes DEF DatabaseInv
  <2> QED BY <1>8, <2>1 DEF tree
<1>11. CASE HandleListen
  <2>1. /\ server' = [log |-> server.log, listening |-> server.listening,
                      due |-> Append(server.due, Head(toServer))]
        /\ UNCHANGED <<tree, observed, view>>
    BY <1>11, HandleListenDoes DEF DatabaseInv
  <2>2. server'.log = server.log
    BY <2>1
  <2> QED BY <1>8, <2>1, <2>2 DEF tree
<1>12. CASE AnswerListen
  <2>1. /\ server' = [log |-> server.log, listening |-> TRUE, due |-> Tail(server.due)]
        /\ UNCHANGED <<tree, observed, view>>
    BY <1>12, AnswerListenDoes DEF DatabaseInv
  <2>2. server'.log = server.log
    BY <2>1
  <2> QED BY <1>8, <2>1, <2>2 DEF tree
<1>13. CASE UNCHANGED vars
  BY <1>8, <1>13 DEF vars, tree
<1> QED BY <1>1, <1>2, <1>3, <1>4, <1>5, <1>6, <1>7, <1>9, <1>10, <1>11, <1>12, <1>13, StepsAre

(* What the observers of the app hear, over lost connections, held answers *)
(* and an ended process, is what ConsistentView promises: the server's     *)
(* states in order under the app's own writes.                             *)
THEOREM ClientShowsConsistentView == Spec => ViewIsConsistent
<1>1. Init => App!Init
  <2> SUFFICES ASSUME Init PROVE App!Init
    OBVIOUS
  <2>1. /\ server.log = <<[node |-> EmptyNode, by |-> 0]>> /\ allWrites = <<>> /\ observed = FALSE
        /\ view.server.complete = FALSE
    BY DEF Init, FreshView
  <2> QED BY <2>1, AppsValues DEF App!Init
<1>2. DatabaseInv /\ ShownIsView /\ ShownIsView' /\ [Next]_vars => [App!Next]_(App!vars)
  <2> SUFFICES ASSUME DatabaseInv, ShownIsView, ShownIsView', [Next]_vars
               PROVE  App!Next \/ UNCHANGED App!vars
    OBVIOUS
  <2>1. Shown = App!View(server.log, allWrites, observed, Seen)
    BY DEF ShownIsView
  <2>2. Shown' = App!View(server'.log, allWrites', observed', Seen')
    BY DEF ShownIsView
  <2>3. CASE AppMoves
    BY <2>2, <2>3, AppsValues DEF AppMoves, App!Next, Seen, Shown
  <2>4. CASE AppStays
    <3>1. Shown' = Shown
      BY <2>1, <2>2, <2>4 DEF AppStays
    <3> QED BY <2>4, <3>1 DEF AppStays, App!vars, Seen, Shown
  <2> QED BY <2>3, <2>4, StepSimulates
<1> QED BY <1>1, <1>2, ShownIs, DatabaseInvariant, PTL DEF Spec, ViewIsConsistent, App!Spec
=============================================================================
