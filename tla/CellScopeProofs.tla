---------------------------- MODULE CellScopeProofs ----------------------------
(***************************************************************************)
(* Proofs about CellScope, for any names, any cells and any number of      *)
(* commits and failures: types, one binding per lexical name, and a table  *)
(* of declarations that knows every binding; then, with the scopes the     *)
(* committed cells lead to as a function of those cells, that a replay     *)
(* rebuilds the scope and that names keep their values.                    *)
(***************************************************************************)
EXTENDS CellScope, FiniteSetTheorems, SequenceTheorems, NaturalsInduction,
        WellFoundedInduction, TLAPS

\* The kinds a cell gives to the names of its layer.
KindsOf(c) == [n \in Names |-> KindIn(c, n)]

\* A table of declarations knows the bindings of a layer.
Known(l, table) ==
    \A n \in Names :
       /\ l.kind[n] \in VarKinds => table[n].var # ""
       /\ l.kind[n] \in LexicalKinds => table[n].lex # ""

\* A lexical name is bound by one layer only.
Unique ==
    \A i, j \in 1..Len(chain) : \A n \in Names :
       chain[i].kind[n] \in LexicalKinds /\ Binds(chain[j], n) => i = j

\* The cell may have promoted its layer.
Promoted == phase = "running" /\ loop \notin {"posted", "ended"}

\* On a runtime in use the table knows every layer, but for the one the running
\* cell has promoted.
ChainKnown ==
    ~dirty =>
       \A i \in 1..Len(chain) :
          \/ Known(chain[i], committed)
          \/ Promoted /\ i = Len(chain) /\ chain[i].kind = KindsOf(cell)

\* Where the goroutine and the loop can be.
Control ==
    /\ pending => phase = "running"
    /\ phase = "running" => ~dirty /\ cell \in Cells
    /\ loop # "none" => out = "none"
    /\ phase = "idle" /\ ~dirty => loop = "none"
    /\ bridge # {} => loop = "bridging" /\ chain # <<>>
    /\ loop = "ended" => layer.kind = KindsOf(cell)
    /\ Len(todo) <= Len(history)

Validated == phase = "running" => validateRedeclarations(cell)

ScopeInv == TypeOK /\ Control /\ Validated /\ Unique /\ ChainKnown

-----------------------------------------------------------------------------
(* What the helpers return *)

Decls == [name : Names, kind : Kinds]
AnyCell == Cells \cup {NoCell}

\* Cells have declarations of names, and NoCell has none.
LEMMA CellShape ==
    \A c \in AnyCell : c.decls \in Seq(Decls) /\ c.write \in Names \cup {NoName}
<1>1. \A c \in Cells : c.decls \in Seq(Decls) /\ c.write \in Names \cup {NoName}
  BY ScopeAssumption DEF Decls
<1>2. NoCell.decls \in Seq(Decls) /\ NoCell.write \in Names \cup {NoName}
  BY DEF NoCell
<1> QED
  BY <1>1, <1>2 DEF AnyCell

\* KindIn tells declared names from others, and gives them a kind.
LEMMA KindType ==
    ASSUME NEW c \in AnyCell, NEW n \in Names
    PROVE  /\ n \in Declared(c) => KindIn(c, n) \in Kinds
           /\ n \notin Declared(c) => KindIn(c, n) = ""
<1>1. c.decls \in Seq(Decls)
  BY CellShape
<1>2. ASSUME n \in Declared(c)
      PROVE  Position(c, n) \in DOMAIN c.decls
  BY <1>2 DEF Declared, Position
<1>3. ASSUME n \in Declared(c)
      PROVE  c.decls[Position(c, n)] \in Decls
  BY <1>1, <1>2, <1>3
<1> QED
  BY <1>3 DEF KindIn, Decls

\* The kinds are told apart, and from no kind.
LEMMA KindsDistinct ==
    /\ "" \notin Kinds
    /\ Kinds = VarKinds \cup LexicalKinds
    /\ \A k \in VarKinds : k \notin LexicalKinds
  BY DEF Kinds, VarKinds, LexicalKinds

\* Slots are numbers.
LEMMA SlotType ==
    ASSUME NEW c \in AnyCell, NEW n \in Names
    PROVE  SlotOf(c, n) \in Nat
<1>1. c.decls \in Seq(Decls)
  BY CellShape
<1>2. ASSUME NEW b \in BOOLEAN, NEW m \in Nat
      PROVE  Cardinality(Like(c, b, m)) \in Nat
  <2>1. IsFiniteSet(1..m)
    BY FS_Interval
  <2>2. Like(c, b, m) \subseteq 1..m
    BY DEF Like
  <2>3. IsFiniteSet(Like(c, b, m))
    BY <2>1, <2>2, FS_Subset
  <2> QED
    BY <2>3, FS_CardinalityType
<1>3. Len(c.decls) \in Nat
  BY <1>1
<1>4. ASSUME n \in Declared(c)
      PROVE  Position(c, n) \in Nat
  <2>1. Position(c, n) \in DOMAIN c.decls
    BY <1>4 DEF Declared, Position
  <2> QED
    BY <2>1, <1>1
<1>5. CASE n \in Declared(c)
  <2>1. Cardinality(Like(c, TRUE, Position(c, n))) \in Nat
    BY <1>2, <1>4, <1>5
  <2>2. Cardinality(Like(c, FALSE, Position(c, n))) \in Nat
    BY <1>2, <1>4, <1>5
  <2>3. Cardinality(Like(c, TRUE, Len(c.decls))) \in Nat
    BY <1>2, <1>3
  <2>4. \A a, b \in Nat : a + 1 + b \in Nat
    OBVIOUS
  <2>5. Cardinality(Like(c, TRUE, Len(c.decls))) + 1
          + Cardinality(Like(c, FALSE, Position(c, n))) \in Nat
    BY <2>2, <2>3, <2>4, Zenon
  <2> QED
    BY <1>5, <2>1, <2>5, Zenon DEF SlotOf
<1> QED
  BY <1>5 DEF SlotOf

\* Cells declare names of Names.
LEMMA DeclaredType ==
    ASSUME NEW c \in AnyCell
    PROVE  Declared(c) \subseteq Names
<1>1. \A i \in DOMAIN c.decls : c.decls[i] \in Decls
  BY CellShape
<1>2. \A i \in DOMAIN c.decls : c.decls[i].name \in Names
  BY <1>1 DEF Decls
<1> QED
  BY <1>2, Zenon DEF Declared

\* The scope of a cell's function is a layer that binds what the cell declares.
LEMMA LayerType ==
    ASSUME NEW c \in AnyCell, NEW k \in Nat
    PROVE  LayerOf(c, k) \in Layers /\ LayerOf(c, k).kind = KindsOf(c)
<1>1. c.decls \in Seq(Decls)
  BY CellShape
<1>2. \A i : NameAt(c, i) \in Names \cup {NoName}
  <2>1. Declared(c) \subseteq Names
    BY DeclaredType
  <2> QED
    BY <2>1, Zenon DEF NameAt
<1>3. [i \in 1..(Len(c.decls) + 1) |-> Value(k, NameAt(c, i))] \in Seq(Values)
  <2>1. \A i : Value(k, NameAt(c, i)) \in Values
    BY <1>2 DEF Value, Values
  <2>2. Len(c.decls) + 1 \in Nat
    BY <1>1
  <2> QED
    BY <2>1, <2>2
<1>4. KindsOf(c) \in [Names -> Kinds \cup {""}]
  BY KindType DEF KindsOf
<1>5. [n \in Names |-> SlotOf(c, n)] \in [Names -> Nat]
  BY SlotType
<1> QED
  BY <1>3, <1>4, <1>5 DEF LayerOf, Layers, KindsOf

\* A name is found in a layer of the chain, or nowhere.
LEMMA LookupType ==
    ASSUME NEW ch, NEW i \in Nat, NEW n
    PROVE  /\ Lookup(ch, i, n) \in 0..i
           /\ Lookup(ch, i, n) # 0 =>
                 /\ Binds(ch[Lookup(ch, i, n)], n)
                 /\ \A m \in (Lookup(ch, i, n) + 1)..i : ~Binds(ch[m], n)
           /\ Lookup(ch, i, n) = 0 => \A m \in 1..i : ~Binds(ch[m], n)
<1>1. CASE \E j \in 1..i : Binds(ch[j], n)
  <2> DEFINE T == {k \in Nat : k < i /\ Binds(ch[i - k], n)}
  <2>1. PICK j \in 1..i : Binds(ch[j], n)
    BY <1>1
  <2>2. i - j \in T
    <3>1. i - j \in Nat /\ i - j < i
      OBVIOUS
    <3>2. i - (i - j) = j
      OBVIOUS
    <3> QED
      BY <2>1, <3>1, <3>2
  <2>3. PICK k \in T : \A m \in T : ~(<<m, k>> \in OpToRel(<, Nat))
    <3>1. T \subseteq Nat /\ T # {}
      BY <2>2
    <3> HIDE DEF T
    <3> QED
      BY <3>1, NatLessThanWellFounded, WFMin
  <2>4. \A m \in T : k <= m
    <3> TAKE m \in T
    <3>1. m \in Nat /\ k \in Nat
      OBVIOUS
    <3>2. m < k => <<m, k>> \in OpToRel(<, Nat)
      BY <3>1 DEF OpToRel
    <3>3. ~(m < k)
      BY <2>3, <3>2
    <3> QED
      BY <3>1, <3>3
  <2>5. i - k \in 1..i /\ Binds(ch[i - k], n)
    OBVIOUS
  <2>6. \A m \in ((i - k) + 1)..i : ~Binds(ch[m], n)
    <3> SUFFICES ASSUME NEW m \in ((i - k) + 1)..i, Binds(ch[m], n)
                 PROVE  FALSE
      OBVIOUS
    <3>1. i - m \in Nat /\ i - m < i /\ i - m < k
      OBVIOUS
    <3>2. i - (i - m) = m
      OBVIOUS
    <3>3. i - m \in T
      BY <3>1, <3>2
    <3> QED
      BY <2>4, <3>1, <3>3
  <2>7. \E q \in 1..i : /\ Binds(ch[q], n)
                        /\ \A m \in (q + 1)..i : ~Binds(ch[m], n)
    BY <2>5, <2>6
  <2> QED
    BY <1>1, <2>7 DEF Lookup
<1>2. CASE ~\E j \in 1..i : Binds(ch[j], n)
  BY <1>2 DEF Lookup
<1> QED
  BY <1>1, <1>2

-----------------------------------------------------------------------------
(* Writes change values, never bindings *)

SameBindings(ch) ==
    /\ Len(ch) = Len(chain)
    /\ \A i \in 1..Len(chain) : ch[i].kind = chain[i].kind /\ ch[i].slot = chain[i].slot

\* Writing a slot of a layer keeps the chain and what it binds.
LEMMA WriteSlot ==
    ASSUME chain \in Seq(Layers), NEW j \in 1..Len(chain), NEW x, NEW v \in Values
    PROVE  LET ch == [chain EXCEPT ![j].vals = [@ EXCEPT ![x] = v]]
           IN  ch \in Seq(Layers) /\ SameBindings(ch)
<1> DEFINE l == [chain[j] EXCEPT !.vals = [chain[j].vals EXCEPT ![x] = v]]
           ch == [chain EXCEPT ![j] = l]
<1>1. chain[j] \in Layers
  OBVIOUS
<1>2. [chain[j].vals EXCEPT ![x] = v] \in Seq(Values)
  <2>1. chain[j].vals \in Seq(Values)
    BY <1>1 DEF Layers
  <2>2. /\ Len(chain[j].vals) \in Nat
        /\ chain[j].vals \in [1..Len(chain[j].vals) -> Values]
    BY <2>1, LenProperties
  <2>3. [chain[j].vals EXCEPT ![x] = v] \in [1..Len(chain[j].vals) -> Values]
    BY <2>2
  <2> QED
    BY <2>2, <2>3
<1>3. l \in Layers /\ l.kind = chain[j].kind /\ l.slot = chain[j].slot
  BY <1>1, <1>2 DEF Layers
<1>4. ch \in Seq(Layers) /\ Len(ch) = Len(chain)
  BY <1>3
<1>5. \A i \in 1..Len(chain) : ch[i].kind = chain[i].kind /\ ch[i].slot = chain[i].slot
  BY <1>3
<1> QED
  BY <1>4, <1>5 DEF SameBindings

\* A slot of the newest scope holds a value, or undefined.
LEMMA SlotValueType ==
    ASSUME chain \in Seq(Layers), NEW x
    PROVE  promotedStashSlotValue(chain, x) \in Values
<1>1. Undefined \in Values
  BY DEF Undefined, Values
<1>2. ASSUME chain # <<>>, x \in DOMAIN chain[Len(chain)].vals
      PROVE  chain[Len(chain)].vals[x] \in Values
  <2>1. chain[Len(chain)] \in Layers
    BY <1>2
  <2>2. chain[Len(chain)].vals \in Seq(Values)
    BY <2>1 DEF Layers
  <2> QED
    BY <1>2, <2>2
<1> QED
  BY <1>1, <1>2 DEF promotedStashSlotValue

Effect == /\ chain' \in Seq(Layers) /\ SameBindings(chain')
          /\ gobj' \in [Names -> Properties]

\* Setting a property of the global object changes no binding.
LEMMA GlobalSetKeeps ==
    ASSUME TypeOK, NEW n \in Names, NEW v \in Values, GlobalSet(n, v)
    PROVE  Effect
<1>0. chain \in Seq(Layers) /\ gobj \in [Names -> Properties]
  BY DEF TypeOK
<1>1. CASE gobj[n].is = "accessor"
  <2>1. chain' = setPromotedStashSlotValue(chain, gobj[n].slot, v) /\ gobj' = gobj
    BY <1>1 DEF GlobalSet
  <2>2. CASE chain # <<>> /\ gobj[n].slot \in DOMAIN chain[Len(chain)].vals
    <3>1. Len(chain) \in 1..Len(chain)
      BY <1>0, <2>2, EmptySeq
    <3>2. chain' = [chain EXCEPT ![Len(chain)].vals =
                                    [@ EXCEPT ![gobj[n].slot] = v]]
      BY <2>1, <2>2 DEF setPromotedStashSlotValue
    <3> DEFINE last == Len(chain)
               x == gobj[n].slot
    <3>3. chain' = [chain EXCEPT ![last].vals = [@ EXCEPT ![x] = v]]
      BY <3>2
    <3>4. last \in 1..Len(chain)
      BY <3>1
    <3>5. gobj' \in [Names -> Properties]
      BY <1>0, <2>1
    <3> HIDE DEF last, x
    <3>6. chain' \in Seq(Layers) /\ SameBindings(chain')
      BY <1>0, <3>3, <3>4, WriteSlot
    <3> QED
      BY <3>5, <3>6 DEF Effect
  <2>3. CASE ~(chain # <<>> /\ gobj[n].slot \in DOMAIN chain[Len(chain)].vals)
    BY <1>0, <2>1, <2>3 DEF setPromotedStashSlotValue, Effect, SameBindings
  <2> QED
    BY <2>2, <2>3
<1>2. CASE gobj[n].is # "accessor"
  <2>1. chain' = chain /\ gobj' = [gobj EXCEPT ![n] = Data(v)]
    BY <1>2 DEF GlobalSet
  <2>2. Data(v) \in Properties
    BY DEF Data, Properties
  <2> QED
    BY <1>0, <2>1, <2>2 DEF Effect, SameBindings
<1> QED
  BY <1>1, <1>2

\* Assigning an identifier changes no binding.
LEMMA AssignKeeps ==
    ASSUME TypeOK, NEW n \in Names, NEW v \in Values, Assign(n, v)
    PROVE  Effect
<1> DEFINE j == Lookup(chain, Len(chain), n)
<1>1. chain \in Seq(Layers) /\ gobj \in [Names -> Properties]
  BY DEF TypeOK
<1>2. j \in 0..Len(chain)
  BY <1>1, LookupType
<1>3. CASE j # 0
  <2>1. j \in 1..Len(chain)
    BY <1>1, <1>2, <1>3
  <2>2. chain' = [chain EXCEPT ![j].vals = [@ EXCEPT ![chain[j].slot[n]] = v]]
        /\ gobj' = gobj
    BY <1>3 DEF Assign
  <2> HIDE DEF j
  <2> QED
    BY <1>1, <2>1, <2>2, WriteSlot DEF Effect
<1>4. CASE j = 0
  BY <1>4, GlobalSetKeeps DEF Assign
<1> QED
  BY <1>3, <1>4
-----------------------------------------------------------------------------
(* The table of declarations *)

Tables == [Names -> [lex : LexicalKinds \cup {""}, var : VarKinds \cup {""}]]

\* A cell that passed validateRedeclarations declares as var or function only
\* names that no cell declared lexically, and lexically only names that none
\* declared.
LEMMA Validates ==
    ASSUME NEW c \in AnyCell, validateRedeclarations(c), NEW n \in Names
    PROVE  /\ KindIn(c, n) \in VarKinds => committed[n].lex = ""
           /\ KindIn(c, n) \in LexicalKinds => committed[n] = NoCommit
<1>1. CASE n \in Declared(c)
  <2>1. /\ Position(c, n) \in DOMAIN c.decls
        /\ c.decls[Position(c, n)].name = n
    BY <1>1 DEF Declared, Position
  <2>2. KindIn(c, n) = c.decls[Position(c, n)].kind
    BY <1>1 DEF KindIn
  <2> DEFINE i == Position(c, n)
  <2>3. IF c.decls[i].kind \in VarKinds THEN committed[n].lex = ""
        ELSE committed[n] = NoCommit
    BY <2>1 DEF validateRedeclarations, declarationIsVarLike
  <2> QED
    BY <2>2, <2>3, KindsDistinct
<1>2. CASE n \notin Declared(c)
  BY <1>2, KindType, KindsDistinct
<1> QED
  BY <1>1, <1>2

\* commitDeclarations keeps what the table knows and adds the cell's names.
LEMMA CommitKnows ==
    ASSUME committed \in Tables, NEW c \in AnyCell, NEW l,
           Known(l, committed) \/ l.kind = KindsOf(c)
    PROVE  /\ commitDeclarations(c) \in Tables
           /\ Known(l, commitDeclarations(c))
<1> DEFINE t == commitDeclarations(c)
<1>1. ASSUME NEW n \in Names
      PROVE  /\ t[n] \in [lex : LexicalKinds \cup {""}, var : VarKinds \cup {""}]
             /\ committed[n].var # "" \/ KindIn(c, n) \in VarKinds => t[n].var # ""
             /\ committed[n].lex # "" \/ KindIn(c, n) \in LexicalKinds
                  => t[n].lex # ""
  <2>1. committed[n] \in [lex : LexicalKinds \cup {""}, var : VarKinds \cup {""}]
    BY DEF Tables
  <2>2. CASE n \notin Declared(c)
    <3>1. t[n] = committed[n] /\ KindIn(c, n) = ""
      BY <2>2, KindType DEF commitDeclarations
    <3> QED
      BY <2>1, <3>1, KindsDistinct
  <2>3. CASE n \in Declared(c) /\ KindIn(c, n) \in VarKinds
    <3>1. t[n] = [committed[n] EXCEPT !.var = KindIn(c, n)]
      BY <2>3 DEF commitDeclarations, declarationIsVarLike
    <3> QED
      BY <2>1, <2>3, <3>1, KindsDistinct
  <2>4. CASE n \in Declared(c) /\ KindIn(c, n) \in LexicalKinds
    <3>1. t[n] = [committed[n] EXCEPT !.lex = KindIn(c, n)]
      BY <2>4, KindsDistinct DEF commitDeclarations, declarationIsVarLike
    <3> QED
      BY <2>1, <2>4, <3>1, KindsDistinct
  <2> QED
    BY <2>2, <2>3, <2>4, KindType, KindsDistinct
<1>2. t \in Tables
  BY <1>1 DEF Tables, commitDeclarations
<1>3. ASSUME NEW n \in Names
      PROVE  /\ l.kind[n] \in VarKinds => t[n].var # ""
             /\ l.kind[n] \in LexicalKinds => t[n].lex # ""
  <2>1. CASE Known(l, committed)
    BY <1>1, <2>1 DEF Known
  <2>2. CASE l.kind = KindsOf(c)
    <3>1. l.kind[n] = KindIn(c, n)
      BY <2>2 DEF KindsOf
    <3> QED
      BY <1>1, <3>1
  <2> QED
    BY <2>1, <2>2
<1> HIDE DEF t
<1>4. Known(l, t)
  BY <1>3 DEF Known
<1> QED
  BY <1>2, <1>4 DEF t

-----------------------------------------------------------------------------
(* Steps that only write values *)

\* A step that changes no binding keeps lexical bindings unique.
LEMMA WritesKeepUnique ==
    ASSUME Unique, SameBindings(chain')
    PROVE  Unique'
<1> SUFFICES ASSUME NEW i \in 1..Len(chain'), NEW j \in 1..Len(chain'),
                    NEW n \in Names,
                    chain'[i].kind[n] \in LexicalKinds, Binds(chain'[j], n)
             PROVE  i = j
  BY DEF Unique
<1>1. i \in 1..Len(chain) /\ j \in 1..Len(chain)
  BY DEF SameBindings
<1>2. chain'[i].kind = chain[i].kind /\ chain'[j].kind = chain[j].kind
  BY <1>1 DEF SameBindings
<1>3. chain[i].kind[n] \in LexicalKinds /\ Binds(chain[j], n)
  BY <1>2 DEF Binds
<1> QED
  BY <1>1, <1>3 DEF Unique

\* A step that changes neither bindings nor table keeps layers known.
LEMMA WritesKeepKnown ==
    ASSUME SameBindings(chain'), committed' = committed, NEW i \in 1..Len(chain'),
           Known(chain[i], committed)
    PROVE  Known(chain'[i], committed')
<1>1. chain'[i].kind = chain[i].kind
  BY DEF SameBindings
<1> QED
  BY <1>1 DEF Known

-----------------------------------------------------------------------------
(* One lemma for each kind of step *)

\* A new runtime satisfies the invariant.
LEMMA ScopeInit == Init => ScopeInv
<1> SUFFICES ASSUME Init
             PROVE  ScopeInv
  OBVIOUS
<1>1. chain = <<>> /\ gobj = [n \in Names |-> Absent]
      /\ committed = [n \in Names |-> NoCommit]
  BY DEF Init, Fresh
<1>2. Absent \in Properties
  BY DEF Absent, Properties, Values, Undefined
<1>3. NoLayer \in Layers
  BY DEF NoLayer, Layers
<1>4. committed \in Tables
  BY <1>1 DEF Tables, NoCommit
<1>5. TypeOK
  <2>1. gobj \in [Names -> Properties]
    BY <1>1, <1>2
  <2>2. chain \in Seq(Layers) /\ todo \in Seq(Cells) /\ history \in Seq(Cells)
    BY <1>1 DEF Init
  <2>3. layer \in Layers /\ cell \in Cells \cup {NoCell} /\ fails \in Nat
    BY <1>3 DEF Init
  <2>4. pending \in BOOLEAN /\ dirty \in BOOLEAN /\ misdirected \in BOOLEAN
    BY DEF Init
  <2>5. /\ phase \in {"idle", "running"} /\ out \in {"none", "ok", "err"}
        /\ loop \in {"none", "posted", "ended", "bridging"}
        /\ bridge \in SUBSET Names
    BY DEF Init
  <2> QED
    BY <1>4, <2>1, <2>2, <2>3, <2>4, <2>5 DEF TypeOK, Tables
<1>6. Control /\ Validated
  BY <1>1 DEF Init, Control, Validated
<1>7. Unique /\ ChainKnown
  BY <1>1 DEF Unique, ChainKnown
<1> QED
  BY <1>5, <1>6, <1>7 DEF ScopeInv

\* Between two cells a runtime in use is not promoting, and the table knows all.
LEMMA KnownBetween ==
    ASSUME ScopeInv, ~dirty, phase = "idle" \/ loop \in {"posted", "ended"}
    PROVE  \A i \in 1..Len(chain) : Known(chain[i], committed)
  BY DEF ScopeInv, ChainKnown, Promoted

\* Opening a cell that may be declared.
LEMMA BeginKeeps ==
    ASSUME ScopeInv, NEW c \in Cells, phase = "idle", ~dirty,
           validateRedeclarations(c), Begin(c)
    PROVE  ScopeInv'
<1>1. TypeOK'
  BY DEF ScopeInv, TypeOK, Begin, scope
<1>2. Control'
  BY DEF ScopeInv, Control, Begin, scope
<1>3. Validated'
  BY DEF Validated, Begin, scope, validateRedeclarations
<1>4. Unique'
  BY DEF ScopeInv, Unique, Begin, scope
<1>5. ChainKnown'
  BY KnownBetween DEF ChainKnown, Begin, scope
<1> QED
  BY <1>1, <1>2, <1>3, <1>4, <1>5 DEF ScopeInv

\* The body of a cell writes values and leaves the layer of its function.
LEMMA RunBodyKeeps ==
    ASSUME ScopeInv, RunBody
    PROVE  ScopeInv'
<1>1. TypeOK /\ Control
  BY DEF ScopeInv
<1>2. Number \in Nat
  <2>1. Len(history) \in Nat /\ Len(todo) \in Nat
    BY <1>1, LenProperties DEF TypeOK
  <2>2. Len(todo) <= Len(history)
    BY <1>1 DEF Control
  <2> QED
    BY <2>1, <2>2 DEF Number
<1>3. cell \in AnyCell /\ cell.write \in Names \cup {NoName}
  BY <1>1, CellShape DEF TypeOK, AnyCell
<1>4. layer' \in Layers /\ layer'.kind = KindsOf(cell)
  BY <1>2, <1>3, LayerType DEF RunBody
<1>5. Effect
  <2> DEFINE v == Value(Number, cell.write)
  <2>1. v \in Values
    BY <1>2, <1>3 DEF Value, Values
  <2> HIDE DEF v
  <2>2. CASE UNCHANGED <<chain, gobj>>
    BY <1>1, <2>2 DEF TypeOK, Effect, SameBindings
  <2>3. CASE cell.write # NoName /\ Assign(cell.write, v)
    BY <1>1, <1>3, <2>1, <2>3, AssignKeeps
  <2>4. CASE cell.write # NoName /\ GlobalSet(cell.write, v)
    BY <1>1, <1>3, <2>1, <2>4, GlobalSetKeeps
  <2> QED
    BY <2>2, <2>3, <2>4 DEF RunBody, v
<1>6. /\ loop' \in {"none", "ended"} /\ out' \in {"none", "ok", "err"}
      /\ loop' # "none" => out' = out
  BY <1>1 DEF RunBody, AfterBody, TypeOK
<1>7. misdirected' \in BOOLEAN
  BY <1>1 DEF RunBody, TypeOK
<1>8. /\ loop = "posted"
      /\ UNCHANGED <<committed, pending, cell, phase, bridge, dirty, todo,
                     history, fails>>
  BY DEF RunBody
<1>9. TypeOK'
  BY <1>1, <1>4, <1>5, <1>6, <1>7, <1>8 DEF TypeOK, Effect
<1>10. Control'
  <2>1. layer'.kind = KindsOf(cell') /\ bridge' = {}
    BY <1>1, <1>4, <1>8 DEF Control
  <2>2. phase = "idle" => dirty
    BY <1>1, <1>8 DEF Control
  <2>3. loop' # "none" => out' = "none"
    BY <1>1, <1>6, <1>8 DEF Control
  <2> QED
    BY <1>1, <1>8, <2>1, <2>2, <2>3 DEF Control
<1>11. Validated'
  BY <1>8 DEF ScopeInv, Validated, validateRedeclarations
<1>12. Unique'
  BY <1>5, WritesKeepUnique DEF ScopeInv, Effect
<1>13. ChainKnown'
  <2> SUFFICES ASSUME ~dirty, NEW i \in 1..Len(chain')
               PROVE  Known(chain'[i], committed')
    BY <1>8 DEF ChainKnown
  <2>1. i \in 1..Len(chain)
    BY <1>5 DEF Effect, SameBindings
  <2>2. Known(chain[i], committed)
    BY <1>8, <2>1, KnownBetween
  <2> QED
    BY <1>5, <1>8, <2>2, WritesKeepKnown DEF Effect
<1> QED
  BY <1>9, <1>10, <1>11, <1>12, <1>13 DEF ScopeInv

\* The hook puts the layer of a validated cell in front of layers the table
\* knows: a lexical name on one side is not bound on the other.
LEMMA PromoteKeepsUnique ==
    ASSUME ScopeInv, loop = "ended", pending, chain' = Append(chain, layer)
    PROVE  Unique'
<1>1. /\ phase = "running" /\ ~dirty /\ layer.kind = KindsOf(cell)
  BY DEF ScopeInv, Control
<1>2. /\ chain \in Seq(Layers) /\ layer \in Layers /\ cell \in AnyCell
      /\ validateRedeclarations(cell)
  BY <1>1 DEF ScopeInv, TypeOK, Validated, AnyCell
<1>3. \A i \in 1..Len(chain) : Known(chain[i], committed)
  BY <1>1, KnownBetween
<1>4. ASSUME NEW i \in 1..Len(chain), NEW n \in Names
      PROVE  /\ layer.kind[n] \in LexicalKinds => ~Binds(chain[i], n)
             /\ chain[i].kind[n] \in LexicalKinds => ~Binds(layer, n)
  <2>1. layer.kind[n] = KindIn(cell, n)
    BY <1>1 DEF KindsOf
  <2>2. /\ layer.kind[n] \in VarKinds => committed[n].lex = ""
        /\ layer.kind[n] \in LexicalKinds => committed[n] = NoCommit
    BY <1>2, <2>1, Validates
  <2>3. /\ chain[i].kind[n] \in VarKinds => committed[n].var # ""
        /\ chain[i].kind[n] \in LexicalKinds => committed[n].lex # ""
    BY <1>3 DEF Known
  <2>4. chain[i] \in Layers
    BY <1>2
  <2>5. /\ chain[i].kind[n] \in VarKinds \cup LexicalKinds \cup {""}
        /\ layer.kind[n] \in VarKinds \cup LexicalKinds \cup {""}
    BY <1>2, <2>4 DEF Layers, Kinds
  <2>6. NoCommit.lex = "" /\ NoCommit.var = ""
    BY DEF NoCommit
  <2>7. layer.kind[n] \in LexicalKinds => ~Binds(chain[i], n)
    BY <2>2, <2>3, <2>5, <2>6 DEF Binds
  <2>8. chain[i].kind[n] \in LexicalKinds => ~Binds(layer, n)
    BY <2>2, <2>3, <2>5, <2>6 DEF Binds
  <2> QED
    BY <2>7, <2>8
<1>5. /\ Len(chain') = Len(chain) + 1 /\ chain'[Len(chain) + 1] = layer
      /\ \A i \in 1..Len(chain) : chain'[i] = chain[i]
      /\ Len(chain) \in Nat
  BY <1>2, AppendProperties
<1> SUFFICES ASSUME NEW i \in 1..Len(chain'), NEW j \in 1..Len(chain'),
                    NEW n \in Names,
                    chain'[i].kind[n] \in LexicalKinds, Binds(chain'[j], n)
             PROVE  i = j
  BY DEF Unique
<1>6. CASE i \in 1..Len(chain) /\ j \in 1..Len(chain)
  BY <1>5, <1>6 DEF ScopeInv, Unique
<1>7. CASE i \in 1..Len(chain) /\ j = Len(chain) + 1
  BY <1>4, <1>5, <1>7
<1>8. CASE i = Len(chain) + 1 /\ j \in 1..Len(chain)
  BY <1>4, <1>5, <1>8
<1>9. CASE i = Len(chain) + 1 /\ j = Len(chain) + 1
  BY <1>9
<1> QED
  BY <1>5, <1>6, <1>7, <1>8, <1>9

\* The commit hook keeps the invariant.
LEMMA CommitHookKeeps ==
    ASSUME ScopeInv, CommitHook
    PROVE  ScopeInv'
<1>1. TypeOK /\ Control
  BY DEF ScopeInv
<1>2. /\ loop = "ended" /\ pending /\ loop' = "bridging"
      /\ UNCHANGED <<gobj, committed, pending, cell, layer, phase, out, dirty,
                     todo, history, fails, misdirected>>
  BY DEF CommitHook
<1>3. /\ phase = "running" /\ ~dirty /\ layer.kind = KindsOf(cell) /\ bridge = {}
      /\ out = "none"
  BY <1>1, <1>2 DEF Control
<1>4. \A i \in 1..Len(chain) : Known(chain[i], committed)
  BY <1>2, <1>3, KnownBetween
<1>5. Validated'
  BY <1>2 DEF ScopeInv, Validated, validateRedeclarations
<1>6. CASE cell.decls = <<>>
  <2>1. UNCHANGED <<chain, bridge>>
    BY <1>6 DEF CommitHook
  <2>2. TypeOK'
    BY <1>1, <1>2, <2>1 DEF TypeOK
  <2>3. Control'
    <3>1. layer'.kind = KindsOf(cell') /\ bridge' = {} /\ out' = "none"
      BY <1>2, <1>3, <2>1
    <3>2. /\ phase' = "running" /\ ~dirty' /\ cell' \in Cells
          /\ Len(todo') <= Len(history')
      BY <1>1, <1>2, <1>3 DEF Control
    <3> QED
      BY <3>1, <3>2 DEF Control
  <2>4. Unique'
    BY <2>1 DEF ScopeInv, Unique
  <2>5. ChainKnown'
    BY <1>2, <1>4, <2>1 DEF ChainKnown
  <2> QED
    BY <1>5, <2>2, <2>3, <2>4, <2>5 DEF ScopeInv
<1>7. CASE cell.decls # <<>>
  <2>1. chain' = Append(chain, layer)
    BY <1>7 DEF CommitHook, promoteCurrentWrapperStash
  <2>2. bridge' \in SUBSET Names
    <3>1. bridge' \subseteq Declared(cell)
      BY <1>7 DEF CommitHook
    <3>2. Declared(cell) \subseteq Names
      BY <1>1, DeclaredType DEF TypeOK, AnyCell
    <3> QED
      BY <3>1, <3>2
  <2>3. /\ chain' \in Seq(Layers) /\ chain' # <<>>
        /\ Len(chain') = Len(chain) + 1 /\ chain'[Len(chain) + 1] = layer
        /\ \A i \in 1..Len(chain) : chain'[i] = chain[i]
        /\ Len(chain) \in Nat
    <3>1. chain \in Seq(Layers) /\ layer \in Layers
      BY <1>1 DEF TypeOK
    <3> QED
      BY <2>1, <3>1, AppendProperties
  <2>4. TypeOK'
    BY <1>1, <1>2, <2>2, <2>3 DEF TypeOK
  <2>5. Control'
    BY <1>1, <1>2, <1>3, <2>3 DEF Control
  <2>6. Unique'
    BY <1>2, <2>1, PromoteKeepsUnique
  <2>7. ChainKnown'
    <3> SUFFICES ASSUME NEW i \in 1..Len(chain')
                 PROVE  \/ Known(chain'[i], committed')
                        \/ i = Len(chain') /\ chain'[i].kind = KindsOf(cell')
      BY <1>2, <1>3 DEF ChainKnown, Promoted
    <3>1. CASE i \in 1..Len(chain)
      BY <1>2, <1>4, <2>3, <3>1
    <3>2. CASE i = Len(chain) + 1
      BY <1>2, <1>3, <2>3, <3>2
    <3> QED
      BY <2>3, <3>1, <3>2
  <2> QED
    BY <1>5, <2>4, <2>5, <2>6, <2>7 DEF ScopeInv
<1> QED
  BY <1>6, <1>7

\* Bridging a name writes values and properties of the global object only.
LEMMA BridgeNameKeeps ==
    ASSUME ScopeInv, NEW n \in Names, BridgeName(n)
    PROVE  ScopeInv'
<1>1. TypeOK /\ Control
  BY DEF ScopeInv
<1>2. /\ loop = "bridging" /\ n \in bridge /\ bridge' = bridge \ {n}
      /\ UNCHANGED <<committed, pending, cell, layer, phase, loop, out, dirty,
                     todo, history, fails>>
  BY DEF BridgeName
<1>3. chain # <<>> /\ chain \in Seq(Layers) /\ gobj \in [Names -> Properties]
  BY <1>1, <1>2 DEF Control, TypeOK
<1> DEFINE idx == chain[Len(chain)].slot[n]
<1>4. idx \in Nat
  <2>1. Len(chain) \in 1..Len(chain)
    BY <1>3, EmptySeq
  <2>2. chain[Len(chain)] \in Layers
    BY <1>3, <2>1, ElementOfSeq
  <2> QED
    BY <2>2 DEF Layers
<1>5. Effect /\ misdirected' \in BOOLEAN
  <2>1. CASE gobj[n].is # "absent"
    <3> DEFINE v == promotedStashSlotValue(chain, idx)
    <3>1. GlobalSet(n, v) /\ misdirected' \in BOOLEAN
      BY <2>1 DEF BridgeName
    <3>2. v \in Values
      BY <1>3, SlotValueType
    <3> HIDE DEF v
    <3> QED
      BY <1>1, <3>1, <3>2, GlobalSetKeeps
  <2>2. CASE gobj[n].is = "absent"
    <3>1. /\ gobj' = [gobj EXCEPT ![n] = Accessor(idx)]
          /\ UNCHANGED <<chain, misdirected>>
      BY <2>2 DEF BridgeName
    <3>2. Accessor(idx) \in Properties
      BY <1>4 DEF Accessor, Properties, Values, Undefined
    <3> HIDE DEF idx
    <3>3. gobj' \in [Names -> Properties] /\ chain' \in Seq(Layers)
      BY <1>3, <3>1, <3>2
    <3>4. SameBindings(chain')
      BY <3>1 DEF SameBindings
    <3>5. misdirected' \in BOOLEAN
      BY <1>1, <3>1 DEF TypeOK
    <3> QED
      BY <3>3, <3>4, <3>5 DEF Effect
  <2> QED
    BY <2>1, <2>2
<1>6. TypeOK'
  BY <1>1, <1>2, <1>5 DEF TypeOK, Effect
<1>7. chain' # <<>>
  BY <1>3, <1>5 DEF Effect, SameBindings
<1>8. Control'
  BY <1>1, <1>2, <1>7 DEF Control
<1>9. Validated'
  BY <1>2 DEF ScopeInv, Validated, validateRedeclarations
<1>10. Unique'
  BY <1>5, WritesKeepUnique DEF ScopeInv, Effect
<1>11. ChainKnown'
  <2> SUFFICES ASSUME ~dirty, NEW i \in 1..Len(chain')
               PROVE  \/ Known(chain'[i], committed')
                      \/ Promoted' /\ i = Len(chain')
                                   /\ chain'[i].kind = KindsOf(cell')
    BY <1>2 DEF ChainKnown
  <2>1. /\ i \in 1..Len(chain) /\ Len(chain') = Len(chain)
        /\ chain'[i].kind = chain[i].kind
    BY <1>5 DEF Effect, SameBindings
  <2>2. CASE Known(chain[i], committed)
    BY <1>2, <1>5, <2>2, WritesKeepKnown DEF Effect
  <2>3. CASE Promoted /\ i = Len(chain) /\ chain[i].kind = KindsOf(cell)
    BY <1>2, <2>1, <2>3 DEF Promoted
  <2> QED
    BY <2>1, <2>2, <2>3 DEF ScopeInv, ChainKnown
<1> QED
  BY <1>6, <1>8, <1>9, <1>10, <1>11 DEF ScopeInv

\* Recording the names of the cell, as an outcome is taken, leaves no binding
\* unknown to the table.
LEMMA SucceedKeeps ==
    ASSUME ScopeInv, Succeed
    PROVE  ScopeInv'
<1>1. TypeOK /\ Control
  BY DEF ScopeInv
<1>2. /\ phase = "running" /\ out = "ok" /\ phase' = "idle" /\ pending' = FALSE
      /\ out' = "none" /\ committed' = commitDeclarations(cell)
      /\ UNCHANGED <<chain, gobj, cell, layer, loop, bridge, dirty, fails,
                     misdirected>>
  BY DEF Succeed
<1>3. cell \in AnyCell /\ committed \in Tables
  BY <1>1 DEF TypeOK, AnyCell, Tables
<1>4. committed' \in Tables
  <2>1. Known([kind |-> KindsOf(cell)], committed)
        \/ [kind |-> KindsOf(cell)].kind = KindsOf(cell)
    OBVIOUS
  <2> QED
    BY <1>2, <1>3, <2>1, CommitKnows
<1>5. cell \in Cells
  BY <1>1, <1>2 DEF Control
<1>6. /\ todo' \in Seq(Cells) /\ history' \in Seq(Cells)
      /\ Len(todo') <= Len(history')
  <2>1. /\ todo \in Seq(Cells) /\ history \in Seq(Cells)
        /\ Len(todo) <= Len(history)
    BY <1>1 DEF TypeOK, Control
  <2>2. Len(todo) \in Nat /\ Len(history) \in Nat
    BY <2>1
  <2>3. CASE todo # <<>>
    <3>1. todo' = Tail(todo) /\ history' = history
      BY <2>3 DEF Succeed
    <3>2. Tail(todo) \in Seq(Cells) /\ Len(Tail(todo)) = Len(todo) - 1
      BY <2>1, <2>3, HeadTailProperties
    <3> QED
      BY <2>1, <2>2, <3>1, <3>2
  <2>4. CASE todo = <<>>
    <3>1. todo' = todo /\ history' = Append(history, cell)
      BY <2>4 DEF Succeed
    <3>2. /\ Append(history, cell) \in Seq(Cells)
          /\ Len(Append(history, cell)) = Len(history) + 1
      BY <1>5, <2>1, AppendProperties
    <3> QED
      BY <2>1, <2>2, <3>1, <3>2
  <2> QED
    BY <2>3, <2>4
<1>7. TypeOK'
  BY <1>1, <1>2, <1>4, <1>6 DEF TypeOK, Tables
<1>8. Control'
  <2>1. loop' = "none" /\ bridge' = {}
    BY <1>1, <1>2 DEF Control, TypeOK
  <2> QED
    BY <1>2, <1>6, <2>1 DEF Control
<1>9. Validated' /\ Unique'
  BY <1>2 DEF ScopeInv, Validated, Unique
<1>10. ChainKnown'
  <2> SUFFICES ASSUME ~dirty, NEW i \in 1..Len(chain)
               PROVE  Known(chain[i], committed')
    BY <1>2 DEF ChainKnown
  <2>1. Known(chain[i], committed) \/ chain[i].kind = KindsOf(cell)
    BY DEF ScopeInv, ChainKnown
  <2> QED
    BY <1>2, <1>3, <2>1, CommitKnows
<1> QED
  BY <1>7, <1>8, <1>9, <1>10 DEF ScopeInv

\* A failing cell may leave its names, but the runtime is not used again.
LEMMA FailKeeps ==
    ASSUME ScopeInv, Fail
    PROVE  ScopeInv'
<1>1. TypeOK /\ Control
  BY DEF ScopeInv
<1>2. /\ phase = "running" /\ out # "none" /\ phase' = "idle"
      /\ pending' = FALSE /\ dirty' = TRUE /\ out' = "none" /\ fails' = fails + 1
      /\ UNCHANGED <<chain, gobj, cell, layer, loop, bridge, todo, history,
                     misdirected>>
  BY DEF Fail
<1>3. committed' \in Tables
  <2>1. cell \in AnyCell /\ committed \in Tables
    BY <1>1 DEF TypeOK, AnyCell, Tables
  <2>2. Known([kind |-> KindsOf(cell)], committed)
        \/ [kind |-> KindsOf(cell)].kind = KindsOf(cell)
    OBVIOUS
  <2>3. commitDeclarations(cell) \in Tables
    BY <2>1, <2>2, CommitKnows
  <2> QED
    BY <2>1, <2>3 DEF Fail
<1>4. TypeOK'
  <2>1. fails' \in Nat
    <3>1. fails \in Nat /\ fails' = fails + 1
      BY <1>1, <1>2 DEF TypeOK
    <3> QED
      BY <3>1
  <2> QED
    BY <1>1, <1>2, <1>3, <2>1 DEF TypeOK, Tables
<1>5. Control'
  BY <1>1, <1>2 DEF Control, TypeOK
<1>6. Validated' /\ Unique' /\ ChainKnown'
  BY <1>2 DEF ScopeInv, Validated, Unique, ChainKnown
<1> QED
  BY <1>4, <1>5, <1>6 DEF ScopeInv

\* So does a cell that is given up; what it still does is done to a runtime that
\* is not used again.
LEMMA TimeoutKeeps ==
    ASSUME ScopeInv, Timeout
    PROVE  ScopeInv'
<1>1. TypeOK /\ Control
  BY DEF ScopeInv
<1>2. /\ phase' = "idle" /\ pending' = FALSE /\ dirty' = TRUE
      /\ fails' = fails + 1
      /\ UNCHANGED <<chain, gobj, committed, cell, layer, loop, bridge, out,
                     todo, history, misdirected>>
  BY DEF Timeout, scope
<1>3. TypeOK'
  <2>1. fails' \in Nat
    <3>1. fails \in Nat /\ fails' = fails + 1
      BY <1>1, <1>2 DEF TypeOK
    <3> QED
      BY <3>1
  <2> QED
    BY <1>1, <1>2, <2>1 DEF TypeOK
<1>4. Control'
  BY <1>1, <1>2 DEF Control
<1>5. Validated' /\ Unique' /\ ChainKnown'
  BY <1>2 DEF ScopeInv, Validated, Unique, ChainKnown
<1> QED
  BY <1>3, <1>4, <1>5 DEF ScopeInv

\* A new runtime has no binding and a table without names.
LEMMA RebuildKeeps ==
    ASSUME ScopeInv, Rebuild
    PROVE  ScopeInv'
<1>1. TypeOK
  BY DEF ScopeInv
<1>2. /\ chain' = <<>> /\ gobj' = [n \in Names |-> Absent]
      /\ committed' = [n \in Names |-> NoCommit]
      /\ misdirected' = FALSE /\ pending' = FALSE /\ loop' = "none"
      /\ bridge' = {} /\ out' = "none" /\ dirty' = FALSE /\ todo' = history
      /\ phase = "idle" /\ UNCHANGED <<cell, layer, phase, history, fails>>
  BY DEF Rebuild, Fresh
<1>3. Absent \in Properties
  BY DEF Absent, Properties, Values, Undefined
<1>4. /\ chain' \in Seq(Layers) /\ gobj' \in [Names -> Properties]
      /\ committed' \in Tables
  <2>1. NoCommit \in [lex : LexicalKinds \cup {""}, var : VarKinds \cup {""}]
    BY DEF NoCommit
  <2>2. committed' \in Tables
    BY <1>2, <2>1 DEF Tables
  <2> QED
    BY <1>2, <1>3, <2>2
<1>5. TypeOK'
  BY <1>1, <1>2, <1>4 DEF TypeOK, Tables
<1>6. Control'
  <2>1. Len(history) \in Nat
    <3>1. history \in Seq(Cells)
      BY <1>1 DEF TypeOK
    <3> QED
      BY <3>1, LenProperties
  <2> QED
    BY <1>2, <2>1 DEF Control
<1>7. Validated' /\ Unique' /\ ChainKnown'
  BY <1>2 DEF Validated, Unique, ChainKnown
<1> QED
  BY <1>5, <1>6, <1>7 DEF ScopeInv

\* The steps of the loop that leave the scope alone.
LEMMA LoopKeeps ==
    ASSUME ScopeInv, HookTooLate \/ HookReturns
    PROVE  ScopeInv'
<1>1. TypeOK /\ Control
  BY DEF ScopeInv
<1>2. /\ loop' = "none" /\ out' \in {"ok", "err"} /\ bridge' = {}
      /\ UNCHANGED <<chain, gobj, committed, pending, cell, layer, phase,
                     dirty, todo, history, fails, misdirected>>
  BY <1>1 DEF HookTooLate, HookReturns, Control, scope
<1>3. TypeOK'
  BY <1>1, <1>2 DEF TypeOK
<1>4. Control'
  BY <1>1, <1>2 DEF Control
<1>5. Validated' /\ Unique'
  BY <1>2 DEF ScopeInv, Validated, validateRedeclarations, Unique
<1>6. ChainKnown'
  BY <1>2 DEF ScopeInv, ChainKnown, Promoted, Known
<1> QED
  BY <1>3, <1>4, <1>5, <1>6 DEF ScopeInv

\* A refused cell changes nothing but the mark on the runtime.
LEMMA RefuseKeeps ==
    ASSUME ScopeInv, NEW c \in Cells, Refuse(c)
    PROVE  ScopeInv'
<1>1. TypeOK /\ Control
  BY DEF ScopeInv
<1>2. /\ phase = "idle" /\ dirty' = TRUE /\ fails' = fails + 1
      /\ UNCHANGED <<chain, gobj, committed, pending, cell, layer, phase, loop,
                     bridge, out, todo, history, misdirected>>
  BY DEF Refuse, scope
<1>3. TypeOK'
  <2>1. fails' \in Nat
    <3>1. fails \in Nat /\ fails' = fails + 1
      BY <1>1, <1>2 DEF TypeOK
    <3> QED
      BY <3>1
  <2> QED
    BY <1>1, <1>2, <2>1 DEF TypeOK
<1>4. Control'
  BY <1>1, <1>2 DEF Control
<1>5. Validated' /\ Unique' /\ ChainKnown'
  BY <1>2 DEF ScopeInv, Validated, Unique, ChainKnown
<1> QED
  BY <1>3, <1>4, <1>5 DEF ScopeInv

-----------------------------------------------------------------------------
(* The theorems *)

\* Every step of the session keeps the invariant.
LEMMA ScopeStep == ScopeInv /\ [Next]_vars => ScopeInv'
<1> SUFFICES ASSUME ScopeInv, [Next]_vars
             PROVE  ScopeInv'
  OBVIOUS
<1>1. ASSUME NEW c \in Cells, Submit(c)
      PROVE  ScopeInv'
  BY <1>1, BeginKeeps DEF Submit
<1>2. ASSUME NEW c \in Cells, Refuse(c)
      PROVE  ScopeInv'
  BY <1>2, RefuseKeeps
<1>3. CASE Replay
  <2>1. Head(todo) \in Cells
    <3>1. todo \in Seq(Cells) /\ todo # <<>>
      BY <1>3 DEF ScopeInv, TypeOK, Replay
    <3> QED
      BY <3>1, HeadTailProperties
  <2> QED
    BY <1>3, <2>1, BeginKeeps DEF Replay
<1>4. CASE Rebuild
  BY <1>4, RebuildKeeps
<1>5. CASE RunBody
  BY <1>5, RunBodyKeeps
<1>6. CASE HookTooLate \/ HookReturns
  BY <1>6, LoopKeeps
<1>7. CASE CommitHook
  BY <1>7, CommitHookKeeps
<1>8. ASSUME NEW n \in Names, BridgeName(n)
      PROVE  ScopeInv'
  BY <1>8, BridgeNameKeeps
<1>9. CASE Succeed
  BY <1>9, SucceedKeeps
<1>10. CASE Fail
  BY <1>10, FailKeeps
<1>11. CASE Timeout
  BY <1>11, TimeoutKeeps
<1>12. CASE UNCHANGED vars
  <2>1. UNCHANGED <<chain, gobj, committed, pending, cell, layer, phase, loop,
                    bridge, out, dirty, todo, history, fails, misdirected>>
    BY <1>12 DEF vars
  <2>2. TypeOK'
    BY <2>1 DEF ScopeInv, TypeOK
  <2>3. Control'
    BY <2>1 DEF ScopeInv, Control
  <2>4. Validated' /\ Unique'
    BY <2>1 DEF ScopeInv, Validated, validateRedeclarations, Unique
  <2>5. ChainKnown'
    BY <2>1 DEF ScopeInv, ChainKnown, Promoted
  <2> QED
    BY <2>2, <2>3, <2>4, <2>5 DEF ScopeInv
<1> QED
  BY <1>1, <1>2, <1>3, <1>4, <1>5, <1>6, <1>7, <1>8, <1>9, <1>10, <1>11, <1>12
     DEF Next

\* The scope, the table and the control of runContext and its loop agree in
\* every state of a session, whatever was refused, failed, was given up or was
\* replayed.
THEOREM ScopeInvariant == Spec => []ScopeInv
  BY ScopeInit, ScopeStep, PTL DEF Spec

\* The state of the scope has its types in every behaviour.
THEOREM ScopeType == Spec => []TypeOK
<1>1. ScopeInv => TypeOK
  BY DEF ScopeInv
<1> QED
  BY <1>1, ScopeInvariant, PTL

\* The code of any cell that finds a let, const or class finds the one binding
\* it ever gets: promotion never puts a second binding of such a name, of any
\* kind, in front of the first or behind it.
THEOREM OneBindingInvariant == Spec => []OneBinding
<1>1. ASSUME ScopeInv
      PROVE  OneBinding
  <2> SUFFICES ASSUME NEW i \in 1..Len(chain), NEW n \in Names,
                      chain[i].kind[n] \in LexicalKinds,
                      NEW m \in 1..Len(chain)
               PROVE  Lookup(chain, m, n) \in {0, i}
    BY DEF OneBinding
  <2>1. Len(chain) \in Nat
    <3>1. chain \in Seq(Layers)
      BY <1>1 DEF ScopeInv, TypeOK
    <3> QED
      BY <3>1, LenProperties
  <2>2. m \in Nat
    BY <2>1
  <2>3. Lookup(chain, m, n) \in 0..m
    BY <2>2, LookupType
  <2>4. CASE Lookup(chain, m, n) # 0
    <3>1. Binds(chain[Lookup(chain, m, n)], n)
      BY <2>2, <2>4, LookupType
    <3>2. Lookup(chain, m, n) \in 1..Len(chain)
      BY <2>1, <2>2, <2>3, <2>4
    <3> QED
      BY <1>1, <3>1, <3>2 DEF ScopeInv, Unique
  <2> QED
    BY <2>4
<1> QED
  BY <1>1, ScopeInvariant, PTL

\* When a submit consults the table, no binding of the global scope is missing
\* from it, so no redeclaration is let through.
THEOREM BoundInvariant == Spec => []BoundIsCommitted
<1>1. ASSUME ScopeInv
      PROVE  BoundIsCommitted
  <2>1. ASSUME phase = "idle", ~dirty
        PROVE  \A i \in 1..Len(chain) : Known(chain[i], committed)
    BY <1>1, <2>1, KnownBetween
  <2> QED
    BY <2>1 DEF BoundIsCommitted, Known
<1> QED
  BY <1>1, ScopeInvariant, PTL

-----------------------------------------------------------------------------
(* What running a cell does to a scope.  The order in which names are      *)
(* bridged shows only where a setter writes the slot of another name; a    *)
(* scope that came about like that, or by a write to the global object     *)
(* that went past a binding, is lost.  What it binds and in which slots is *)
(* not: writes never change that.  It is kept beside the scope itself, in  *)
(* layers (binds) and properties (props) whose values do not count.        *)

NewScope ==
    [chain |-> Fresh[1], gobj |-> Fresh[2], known |-> Fresh[3], lost |-> FALSE,
     binds |-> Fresh[1], props |-> Fresh[2]]

Top(s) == s.chain[Len(s.chain)]
Found(s, n) == Lookup(s.chain, Len(s.chain), n)
Stale(s, n) == s.gobj[n].is = "accessor" /\ Top(s).slot[n] # s.gobj[n].slot

\* A write to the global object that does not reach the binding of the name.
Misses(s, n) ==
    IF s.gobj[n].is = "accessor"
    THEN s.chain = <<>> \/ Top(s).slot[n] # s.gobj[n].slot
    ELSE Found(s, n) # 0 /\ s.chain[Found(s, n)].kind[n] \in VarKinds

\* The write a cell makes besides its declarations: none, to the binding of an
\* identifier, or to the global object.
WritesNothing(c) ==
    c.write = NoName \/ (c.how = "identifier" /\ c.write \in Declared(c))
WritesBinding(s, c) ==
    ~WritesNothing(c) /\ c.how = "identifier" /\ Found(s, c.write) # 0
WritesObject(s, c) == ~WritesNothing(c) /\ ~WritesBinding(s, c)

\* The write goes to the global object, told from the bindings alone.
ReachesObject(s, c) ==
    /\ ~WritesNothing(c)
    /\ c.how = "identifier" => Lookup(s.binds, Len(s.binds), c.write) = 0

SetSlot(ch, j, x, v) == [ch EXCEPT ![j].vals = [@ EXCEPT ![x] = v]]

Body(s, c, k) ==
    LET n == c.write
        v == Value(k, n)
        j == Found(s, n)
        accessor == s.gobj[n].is = "accessor"
    IN  [chain |-> IF WritesBinding(s, c) THEN SetSlot(s.chain, j, s.chain[j].slot[n], v)
                   ELSE IF WritesObject(s, c) /\ accessor
                   THEN setPromotedStashSlotValue(s.chain, s.gobj[n].slot, v)
                   ELSE s.chain,
         gobj |-> IF WritesObject(s, c) /\ ~accessor
                  THEN [s.gobj EXCEPT ![n] = Data(v)] ELSE s.gobj,
         known |-> s.known,
         lost |-> s.lost \/ (WritesObject(s, c) /\ c.how = "globalThis" /\ Misses(s, n)),
         binds |-> s.binds,
         props |-> IF ReachesObject(s, c) /\ s.props[n].is # "accessor"
                   THEN [s.props EXCEPT ![n] = Data(Undefined)] ELSE s.props]

Promote(s, c, k) ==
    [chain |-> IF c.decls = <<>> THEN s.chain ELSE Append(s.chain, LayerOf(c, k)),
     gobj |-> s.gobj, known |-> s.known, lost |-> s.lost,
     binds |-> IF c.decls = <<>> THEN s.binds ELSE Append(s.binds, LayerOf(c, k)),
     props |-> s.props]

Property(s, n) ==
    CASE s.gobj[n].is = "absent" -> Accessor(Top(s).slot[n])
      [] s.gobj[n].is = "accessor" -> s.gobj[n]
      [] OTHER -> Data(promotedStashSlotValue(s.chain, Top(s).slot[n]))
Kept(s, n) ==
    CASE s.props[n].is = "absent" -> Accessor(s.binds[Len(s.binds)].slot[n])
      [] s.props[n].is = "accessor" -> s.props[n]
      [] OTHER -> Data(Undefined)
Bridge(s, N) ==
    [chain |-> s.chain,
     gobj |-> [n \in Names |-> IF n \in N THEN Property(s, n) ELSE s.gobj[n]],
     known |-> s.known,
     lost |-> s.lost \/ \E n \in N : Stale(s, n),
     binds |-> s.binds,
     props |-> [n \in Names |-> IF n \in N THEN Kept(s, n) ELSE s.props[n]]]

VarsOf(c) == {n \in Declared(c) : declarationIsVarLike(KindIn(c, n))}

Run(s, c, k) ==
    IF c.ends = "returns" THEN Body(s, c, k)
    ELSE Bridge(Promote(Body(s, c, k), c, k), VarsOf(c))

Recorded(table, c) ==
    [n \in Names |->
       IF n \notin Declared(c) THEN table[n]
       ELSE IF declarationIsVarLike(KindIn(c, n))
       THEN [table[n] EXCEPT !.var = KindIn(c, n)]
       ELSE [table[n] EXCEPT !.lex = KindIn(c, n)]]

After(s, c, k) ==
    LET t == Run(s, c, k)
    IN  [chain |-> t.chain, gobj |-> t.gobj, known |-> Recorded(s.known, c),
         lost |-> t.lost, binds |-> t.binds, props |-> t.props]

\* The scopes between the committed cells, from a new runtime on.
Trail(S) ==
    /\ S[0] = NewScope
    /\ \A k \in 1..Len(history) : S[k] = After(S[k - 1], history[k], k)

\* A scope binds the same names in the same slots.
Alike(ch, g, s) ==
    /\ ch \in Seq(Layers) /\ s.binds \in Seq(Layers) /\ s.props \in [Names -> Properties]
    /\ Len(s.binds) = Len(ch)
    /\ \A i \in 1..Len(ch) :
          s.binds[i].kind = ch[i].kind /\ s.binds[i].slot = ch[i].slot
    /\ \A n \in Names : s.props[n].is = g[n].is /\ s.props[n].slot = g[n].slot

\* The runtime has this scope, unless it is lost; then it knows. It always has the
\* bindings.
Matches(t) ==
    /\ Alike(chain, gobj, t)
    /\ t.lost => misdirected
    /\ ~t.lost => chain = t.chain /\ gobj = t.gobj

\* Where the runtime is on the trail: between two cells, or in one.
StageInv(s) ==
    ~dirty =>
       /\ committed = s.known
       /\ phase = "idle" \/ loop = "posted" => Matches(s)
       /\ phase = "running" /\ loop = "ended" =>
             /\ Matches(Body(s, cell, Number)) /\ layer = LayerOf(cell, Number)
             /\ cell.ends # "returns"
       /\ phase = "running" /\ loop = "bridging" =>
             /\ Matches(Bridge(Promote(Body(s, cell, Number), cell, Number),
                               VarsOf(cell) \ bridge))
             /\ bridge \subseteq VarsOf(cell) /\ cell.ends # "returns"
       /\ phase = "running" /\ loop = "none" /\ out = "ok" => Matches(Run(s, cell, Number))

\* The cells still to be replayed are the last of the history.
PlaceInv ==
    /\ \A i \in 1..Len(todo) : todo[i] = history[Len(history) - Len(todo) + i]
    /\ phase = "running" => pending /\ (todo # <<>> => cell = Head(todo))

LexDeclared(h, n) ==
    \E i \in DOMAIN h : h[i].ends # "returns" /\ KindIn(h[i], n) \in LexicalKinds

IsBoundIn(s, n) == Found(s, n) # 0 \/ s.gobj[n].is # "absent"
ValueIn(s, n) ==
    IF Found(s, n) # 0 THEN s.chain[Found(s, n)].vals[s.chain[Found(s, n)].slot[n]]
    ELSE IF s.gobj[n].is = "accessor" THEN promotedStashSlotValue(s.chain, s.gobj[n].slot)
    ELSE s.gobj[n].val

\* The slots of a layer: one for each name it binds.
Slotted(l) ==
    \A n \in Names :
       IF Binds(l, n)
       THEN /\ l.slot[n] \in 1..Len(l.vals)
            /\ \A m \in Names : Binds(l, m) /\ l.slot[m] = l.slot[n] => m = n
       ELSE l.slot[n] = 0

\* A scope gives a name this value, or does not bind it, and knows what the
\* cells declared it as.
Named(s, n, value, h) ==
    /\ s.gobj[n].is = "accessor" =>
          /\ s.known[n].var # "" /\ Found(s, n) # 0 /\ ~LexDeclared(h, n)
          /\ s.gobj[n].slot # 0
    /\ LexDeclared(h, n) => s.known[n].lex # "" /\ Found(s, n) # 0
    /\ \A i \in 1..Len(s.chain) : s.chain[i].kind[n] \in LexicalKinds => LexDeclared(h, n)
    /\ IF value = Undefined THEN ~IsBoundIn(s, n)
       ELSE IsBoundIn(s, n) /\ ValueIn(s, n) = value

Good(s, w, h) ==
    /\ s.chain \in Seq(Layers) /\ s.gobj \in [Names -> Properties] /\ s.known \in Tables
    /\ \A i \in 1..Len(s.chain) : Slotted(s.chain[i])
    /\ \A n \in Names : Named(s, n, w[n], h)

\* A name is bound if a cell declared or assigned it.
BoundBy(s, n) == Lookup(s.binds, Len(s.binds), n) # 0 \/ s.props[n].is # "absent"
Bound(s, w, h) ==
    /\ s.binds \in Seq(Layers) /\ s.props \in [Names -> Properties]
    /\ \A n \in Names :
          /\ BoundBy(s, n) <=> w[n] # Undefined
          /\ LexDeclared(h, n) => Lookup(s.binds, Len(s.binds), n) # 0

\* The scope saved with the last committed cell is the end of the trail, or binds
\* the same names in the same slots.
SavedInv(t) ==
    /\ Alike(saved[1], saved[2], t) /\ saved[3] = t.known /\ Bound(t, wanted, history)
    /\ ~t.lost => saved = <<t.chain, t.gobj, t.known>> /\ Good(t, wanted, history)

-----------------------------------------------------------------------------
(* Slots *)

\* A declared name has a position, and its own.
LEMMA Positions ==
    ASSUME NEW c \in AnyCell, NEW n \in Declared(c)
    PROVE  /\ c.decls \in Seq(Decls) /\ Len(c.decls) \in Nat /\ n \in Names
           /\ Position(c, n) \in 1..Len(c.decls) /\ c.decls[Position(c, n)].name = n
           /\ KindIn(c, n) = c.decls[Position(c, n)].kind
<1>1. c.decls \in Seq(Decls) /\ n \in Names
  BY CellShape, DeclaredType
<1>2. DOMAIN c.decls = 1..Len(c.decls) /\ Len(c.decls) \in Nat
  BY <1>1
<1>3. Position(c, n) \in DOMAIN c.decls /\ c.decls[Position(c, n)].name = n
  BY DEF Declared, Position
<1> QED BY <1>1, <1>2, <1>3 DEF KindIn

\* The declarations of one sort, counted.
LEMMA LikeCount ==
    ASSUME NEW c, NEW b \in BOOLEAN, NEW p \in Nat, NEW q \in Nat, p <= q
    PROVE  /\ IsFiniteSet(Like(c, b, q)) /\ Cardinality(Like(c, b, q)) \in Nat
           /\ Cardinality(Like(c, b, p)) \in Nat
           /\ Cardinality(Like(c, b, p)) <= Cardinality(Like(c, b, q))
           /\ p < q /\ q \in Like(c, b, q) =>
                 Cardinality(Like(c, b, p)) < Cardinality(Like(c, b, q))
           /\ q \in Like(c, b, q) => 0 < Cardinality(Like(c, b, q))
<1> DEFINE P == Like(c, b, p)
           Q == Like(c, b, q)
<1>1. IsFiniteSet(1..q) /\ Q \in SUBSET (1..q) /\ P \in SUBSET Q
  <2>1. IsFiniteSet(1..q)
    BY FS_Interval
  <2>2. 1..p \subseteq 1..q
    OBVIOUS
  <2> QED BY <2>1, <2>2 DEF Like
<1>2. p < q => q \notin P
  BY DEF Like
<1> HIDE DEF P, Q
<1>3. IsFiniteSet(Q)
  BY <1>1, FS_Subset
<1>4. /\ IsFiniteSet(P) /\ Cardinality(P) <= Cardinality(Q)
      /\ Cardinality(Q) = Cardinality(P) => Q = P
  BY <1>1, <1>3, FS_Subset
<1>5. Cardinality(P) \in Nat /\ Cardinality(Q) \in Nat
  BY <1>3, <1>4, FS_CardinalityType
<1>6. Q # {} => Cardinality(Q) # 0
  BY <1>3, FS_EmptySet
<1>7. p < q /\ q \in Q => Cardinality(P) < Cardinality(Q)
  BY <1>2, <1>4, <1>5
<1>8. q \in Q => 0 < Cardinality(Q)
  BY <1>5, <1>6
<1> QED BY <1>3, <1>4, <1>5, <1>7, <1>8 DEF P, Q

\* Both sorts together are not more than the declarations.
LEMMA LikeTogether ==
    ASSUME NEW c, NEW N \in Nat
    PROVE  Cardinality(Like(c, TRUE, N)) + Cardinality(Like(c, FALSE, N)) <= N
<1> DEFINE P == Like(c, TRUE, N)
           Q == Like(c, FALSE, N)
<1>1. P \cup Q \in SUBSET (1..N) /\ P \cap Q = {}
  BY DEF Like
<1>2. IsFiniteSet(P) /\ IsFiniteSet(Q) /\ Cardinality(P) \in Nat /\ Cardinality(Q) \in Nat
  <2>1. N <= N
    OBVIOUS
  <2>2. \A b \in BOOLEAN : IsFiniteSet(Like(c, b, N)) /\ Cardinality(Like(c, b, N)) \in Nat
    BY <2>1, LikeCount
  <2> QED BY <2>2
<1> HIDE DEF P, Q
<1>3. Cardinality(P \cup Q) = Cardinality(P) + Cardinality(Q) - Cardinality(P \cap Q)
  BY <1>2, FS_Union
<1>4. Cardinality(P \cap Q) = 0
  BY <1>1, FS_EmptySet
<1>5. IsFiniteSet(1..N) /\ Cardinality(1..N) = N
  BY FS_Interval
<1>6. Cardinality(P \cup Q) <= N
  BY <1>1, <1>5, FS_Subset
<1>7. Cardinality(P) + Cardinality(Q) <= N
  BY <1>2, <1>3, <1>4, <1>5, <1>6
<1> QED BY <1>7 DEF P, Q

\* Where the names of one sort are: hoisted names first, then the others.
LEMMA SlotRange ==
    ASSUME NEW c \in AnyCell, NEW n \in Declared(c)
    PROVE  LET b == declarationIsVarLike(KindIn(c, n))
               p == Position(c, n)
               hoisted == Cardinality(Like(c, TRUE, Len(c.decls)))
           IN  /\ b \in BOOLEAN /\ p \in Like(c, b, p) /\ hoisted \in Nat
               /\ b => /\ SlotOf(c, n) = Cardinality(Like(c, b, p))
                       /\ SlotOf(c, n) \in 1..hoisted
               /\ ~b => /\ SlotOf(c, n) = hoisted + 1 + Cardinality(Like(c, b, p))
                        /\ SlotOf(c, n) \in (hoisted + 1)..(Len(c.decls) + 1)
               /\ SlotOf(c, n) \in 1..(Len(c.decls) + 1)
<1> DEFINE b == declarationIsVarLike(KindIn(c, n))
           p == Position(c, n)
           N == Len(c.decls)
           hoisted == Cardinality(Like(c, TRUE, N))
           others == Cardinality(Like(c, FALSE, N))
           own == Cardinality(Like(c, b, p))
<1>1. p \in 1..N /\ N \in Nat /\ p \in Nat /\ p <= N /\ N <= N /\ KindIn(c, n) = c.decls[p].kind
  BY Positions
<1>2. b \in BOOLEAN /\ b = declarationIsVarLike(c.decls[p].kind)
  BY <1>1 DEF declarationIsVarLike
<1>3. p \in Like(c, b, p)
  BY <1>1, <1>2 DEF Like
<1>4. (b => SlotOf(c, n) = own) /\ (~b => SlotOf(c, n) = hoisted + 1 + own)
  <2>1. ASSUME b PROVE SlotOf(c, n) = own
    BY <1>2, <2>1, Zenon DEF SlotOf
  <2>2. ASSUME ~b PROVE SlotOf(c, n) = hoisted + 1 + own
    <3>1. b = FALSE
      BY <1>2, <2>2
    <3> QED BY <3>1, Zenon DEF SlotOf
  <2> QED BY <2>1, <2>2
<1>5. own \in Nat /\ 0 < own /\ (b => own <= hoisted) /\ (~b => own <= others)
  <2>1. own \in Nat /\ 0 < own
    <3>1. p <= p
      BY <1>1
    <3> QED BY <1>1, <1>2, <1>3, <3>1, LikeCount
  <2>2. own <= Cardinality(Like(c, b, N))
    BY <1>1, <1>2, LikeCount
  <2>3. (b => b = TRUE) /\ (~b => b = FALSE)
    BY <1>2
  <2> QED BY <2>1, <2>2, <2>3
<1>6. hoisted \in Nat /\ others \in Nat /\ hoisted + others <= N
  BY <1>1, LikeCount, LikeTogether
<1> HIDE DEF b, p, N, hoisted, others, own
<1>7. /\ b => SlotOf(c, n) \in 1..hoisted
      /\ ~b => SlotOf(c, n) \in (hoisted + 1)..(N + 1)
      /\ SlotOf(c, n) \in 1..(N + 1)
  BY <1>1, <1>2, <1>4, <1>5, <1>6
<1> QED BY <1>2, <1>3, <1>4, <1>6, <1>7 DEF b, p, N, hoisted, own

\* A name does not share its slot with a name declared after it.
LEMMA SlotsOrdered ==
    ASSUME NEW c \in AnyCell, NEW n \in Declared(c), NEW m \in Declared(c),
           SlotOf(c, n) = SlotOf(c, m)
    PROVE  ~(Position(c, n) < Position(c, m))
<1> DEFINE hoisted == Cardinality(Like(c, TRUE, Len(c.decls)))
           b == declarationIsVarLike(KindIn(c, n))
           d == declarationIsVarLike(KindIn(c, m))
           p == Position(c, n)
           q == Position(c, m)
           P == Cardinality(Like(c, b, p))
           Q == Cardinality(Like(c, d, q))
           N == Len(c.decls) + 1
<1>1. /\ b \in BOOLEAN /\ hoisted \in Nat
      /\ b => SlotOf(c, n) = P /\ SlotOf(c, n) \in 1..hoisted
      /\ ~b => SlotOf(c, n) = hoisted + 1 + P /\ SlotOf(c, n) \in (hoisted + 1)..N
  BY SlotRange
<1>2. /\ d \in BOOLEAN /\ q \in Like(c, d, q)
      /\ d => SlotOf(c, m) = Q /\ SlotOf(c, m) \in 1..hoisted
      /\ ~d => SlotOf(c, m) = hoisted + 1 + Q /\ SlotOf(c, m) \in (hoisted + 1)..N
  BY SlotRange
<1>3. p \in Nat /\ q \in Nat /\ N \in Nat
  BY Positions
<1> SUFFICES ASSUME p < q PROVE FALSE
  OBVIOUS
<1>4. P \in Nat /\ Q \in Nat
  <2>1. p <= p /\ q <= q
    BY <1>3
  <2> QED BY <1>1, <1>2, <1>3, <2>1, LikeCount
<1>5. b = d => P < Q
  <2>1. p <= q
    BY <1>3
  <2> QED BY <1>1, <1>2, <1>3, <2>1, LikeCount
<1> HIDE DEF hoisted, b, d, p, q, P, Q, N
<1>6. b = d
  BY <1>1, <1>2, <1>3
<1>7. P = Q
  BY <1>1, <1>2, <1>4, <1>6
<1> QED BY <1>4, <1>5, <1>6, <1>7

\* No two declared names share a slot, so that a slot has the value of its name.
LEMMA SlotValues ==
    ASSUME NEW c \in AnyCell, NEW n \in Declared(c)
    PROVE  /\ \A m \in Declared(c) : SlotOf(c, m) = SlotOf(c, n) => m = n
           /\ NameAt(c, SlotOf(c, n)) = n
<1>1. \A m \in Declared(c) : SlotOf(c, m) = SlotOf(c, n) => m = n
  <2> SUFFICES ASSUME NEW m \in Declared(c), SlotOf(c, m) = SlotOf(c, n) PROVE m = n
    OBVIOUS
  <2>1. ~(Position(c, n) < Position(c, m)) /\ ~(Position(c, m) < Position(c, n))
    BY SlotsOrdered
  <2>2. /\ Position(c, n) \in Nat /\ Position(c, m) \in Nat
        /\ c.decls[Position(c, n)].name = n /\ c.decls[Position(c, m)].name = m
    BY Positions
  <2>3. Position(c, n) = Position(c, m)
    BY <2>1, <2>2
  <2> QED BY <2>2, <2>3
<1> QED BY <1>1, Zenon DEF NameAt

\* The scope of a cell has a slot for each name it declares, with its value.
LEMMA LayerSlots ==
    ASSUME NEW c \in AnyCell, NEW k \in Nat
    PROVE  LET l == LayerOf(c, k)
           IN  /\ l \in Layers /\ Slotted(l)
               /\ \A n \in Names :
                     /\ l.kind[n] = KindIn(c, n) /\ (Binds(l, n) <=> n \in Declared(c))
                     /\ n \in Declared(c) =>
                           l.slot[n] \in 1..Len(l.vals) /\ l.vals[l.slot[n]] = Value(k, n)
<1> DEFINE l == LayerOf(c, k)
           N == Len(c.decls) + 1
           vals == [i \in 1..N |-> Value(k, NameAt(c, i))]
<1>1. /\ l.kind = [n \in Names |-> KindIn(c, n)] /\ l.slot = [n \in Names |-> SlotOf(c, n)]
      /\ l.vals = vals
  BY DEF LayerOf
<1>2. l \in Layers
  BY LayerType
<1>3. N \in Nat /\ vals \in Seq(Values)
  <2>1. c.decls \in Seq(Decls)
    BY CellShape
  <2>2. l.vals \in Seq(Values)
    BY <1>2 DEF Layers
  <2> QED BY <1>1, <2>1, <2>2
<1>4. Len(vals) = N
  BY <1>3, LenProperties
<1> HIDE DEF l
<1>5. ASSUME NEW n \in Names
      PROVE  /\ l.kind[n] = KindIn(c, n) /\ (Binds(l, n) <=> n \in Declared(c))
             /\ l.slot[n] = SlotOf(c, n)
  <2>1. l.kind[n] = KindIn(c, n) /\ l.slot[n] = SlotOf(c, n)
    BY <1>1
  <2> QED BY <2>1, KindType, KindsDistinct DEF Binds
<1>6. ASSUME NEW n \in Declared(c)
      PROVE  /\ n \in Names /\ l.slot[n] \in 1..Len(l.vals) /\ l.vals[l.slot[n]] = Value(k, n)
             /\ \A m \in Declared(c) : l.slot[m] = l.slot[n] => m = n
  <2>1. n \in Names /\ Declared(c) \subseteq Names
    BY DeclaredType
  <2>2. SlotOf(c, n) \in 1..N
    BY SlotRange
  <2>3. vals[SlotOf(c, n)] = Value(k, n)
    BY <2>2, SlotValues
  <2>4. \A m \in Declared(c) : SlotOf(c, m) = SlotOf(c, n) => m = n
    BY SlotValues
  <2> HIDE DEF vals
  <2> QED BY <1>1, <1>4, <1>5, <2>1, <2>2, <2>3, <2>4
<1>7. \A n \in Names : n \notin Declared(c) => l.slot[n] = 0
  BY <1>5 DEF SlotOf
<1>8. Slotted(l)
  BY <1>5, <1>6, <1>7 DEF Slotted
<1> QED BY <1>2, <1>5, <1>6, <1>8 DEF l

-----------------------------------------------------------------------------
(* Where names are found *)

\* Chains that bind the same names find them in the same layers.
LEMMA LookupSame ==
    ASSUME NEW ch, NEW d, NEW i \in Nat, NEW n,
           \A j \in 1..i : Binds(d[j], n) <=> Binds(ch[j], n)
    PROVE  Lookup(d, i, n) = Lookup(ch, i, n)
<1> DEFINE a == Lookup(ch, i, n)
           b == Lookup(d, i, n)
<1>1. /\ a \in 0..i /\ (a = 0 => \A m \in 1..i : ~Binds(ch[m], n))
      /\ a # 0 => Binds(ch[a], n) /\ \A m \in (a + 1)..i : ~Binds(ch[m], n)
  BY LookupType
<1>2. /\ b \in 0..i /\ (b = 0 => \A m \in 1..i : ~Binds(d[m], n))
      /\ b # 0 => Binds(d[b], n) /\ \A m \in (b + 1)..i : ~Binds(d[m], n)
  BY LookupType
<1> HIDE DEF a, b
<1>3. a # 0 => Binds(d[a], n) /\ \A m \in (a + 1)..i : ~Binds(d[m], n)
  BY <1>1
<1>4. a = 0 => \A m \in 1..i : ~Binds(d[m], n)
  BY <1>1
<1> QED BY <1>1, <1>2, <1>3, <1>4 DEF a, b

\* A layer more.
LEMMA LookupMore ==
    ASSUME NEW ch \in Seq(Layers), NEW l \in Layers, NEW n
    PROVE  Lookup(Append(ch, l), Len(ch) + 1, n) =
              IF Binds(l, n) THEN Len(ch) + 1 ELSE Lookup(ch, Len(ch), n)
<1> DEFINE N == Len(ch)
           d == Append(ch, l)
           a == Lookup(ch, N, n)
           b == Lookup(d, N + 1, n)
<1>1. N \in Nat /\ d[N + 1] = l /\ \A j \in 1..N : d[j] = ch[j]
  BY AppendProperties
<1>2. /\ a \in 0..N /\ (a = 0 => \A m \in 1..N : ~Binds(ch[m], n))
      /\ a # 0 => Binds(ch[a], n) /\ \A m \in (a + 1)..N : ~Binds(ch[m], n)
  BY <1>1, LookupType
<1>3. /\ b \in 0..(N + 1) /\ (b = 0 => \A m \in 1..(N + 1) : ~Binds(d[m], n))
      /\ b # 0 => Binds(d[b], n) /\ \A m \in (b + 1)..(N + 1) : ~Binds(d[m], n)
  <2>1. N + 1 \in Nat
    BY <1>1
  <2> QED BY <2>1, LookupType
<1> HIDE DEF N, d, a, b
<1>4. CASE Binds(l, n)
  BY <1>1, <1>3, <1>4 DEF a, b, d, N
<1>5. CASE ~Binds(l, n)
  <2>1. b # N + 1
    BY <1>1, <1>3, <1>5
  <2>2. \A m \in 1..N : Binds(d[m], n) <=> Binds(ch[m], n)
    BY <1>1
  <2>3. a = b
    BY <1>1, <1>2, <1>3, <1>5, <2>1, <2>2
  <2> QED BY <1>5, <2>3 DEF a, b, d, N
<1> QED BY <1>4, <1>5

\* A chain with the bindings and slots of another.
Layout(ch, d) ==
    /\ d \in Seq(Layers) /\ Len(d) = Len(ch)
    /\ \A i \in 1..Len(ch) : /\ d[i].kind = ch[i].kind /\ d[i].slot = ch[i].slot
                             /\ Len(d[i].vals) = Len(ch[i].vals)

\* Writing a slot changes its value only.
LEMMA SlotWritten ==
    ASSUME NEW ch \in Seq(Layers), NEW j \in 1..Len(ch), NEW x \in 1..Len(ch[j].vals),
           NEW v \in Values
    PROVE  LET d == SetSlot(ch, j, x, v)
           IN  /\ Layout(ch, d) /\ d[j].vals[x] = v
               /\ \A i \in 1..Len(ch) : \A y \in 1..Len(ch[i].vals) :
                     <<i, y>> # <<j, x>> => d[i].vals[y] = ch[i].vals[y]
<1> DEFINE vals == ch[j].vals
           new == [vals EXCEPT ![x] = v]
           l == [ch[j] EXCEPT !.vals = new]
           d == SetSlot(ch, j, x, v)
<1>1. ch[j] \in Layers /\ vals \in Seq(Values)
  <2>1. ch[j] \in Layers
    OBVIOUS
  <2>2. \A m \in Layers : m.vals \in Seq(Values)
    BY DEF Layers
  <2> QED BY <2>1, <2>2
<1>2. new \in Seq(Values) /\ Len(new) = Len(vals) /\ new[x] = v
      /\ \A y \in 1..Len(vals) : y # x => new[y] = vals[y]
  BY <1>1
<1>3. d = [ch EXCEPT ![j] = l]
  BY DEF SetSlot
<1> HIDE DEF new, d
<1>4. l \in Layers /\ l.kind = ch[j].kind /\ l.slot = ch[j].slot /\ l.vals = new
  BY <1>1, <1>2 DEF Layers
<1> HIDE DEF vals, l
<1>5. d \in Seq(Layers) /\ Len(d) = Len(ch)
      /\ \A i \in 1..Len(ch) : d[i] = IF i = j THEN l ELSE ch[i]
  BY <1>3, <1>4
<1>6. d[j].vals[x] = v
  BY <1>2, <1>4, <1>5
<1>7. ASSUME NEW i \in 1..Len(ch)
      PROVE  /\ d[i].kind = ch[i].kind /\ d[i].slot = ch[i].slot
             /\ Len(d[i].vals) = Len(ch[i].vals)
             /\ \A y \in 1..Len(ch[i].vals) :
                   <<i, y>> # <<j, x>> => d[i].vals[y] = ch[i].vals[y]
  <2>1. CASE i = j
    BY <1>2, <1>4, <1>5, <2>1 DEF vals
  <2>2. CASE i # j
    BY <1>5, <2>2
  <2> QED BY <2>1, <2>2
<1> QED BY <1>5, <1>6, <1>7 DEF Layout, d

\* With the same bindings and slots, names are found as before.
LEMMA LayoutFinds ==
    ASSUME NEW ch \in Seq(Layers), NEW d, Layout(ch, d)
    PROVE  /\ \A n : Lookup(d, Len(d), n) = Lookup(ch, Len(ch), n)
           /\ \A i \in 1..Len(ch) : Slotted(ch[i]) => Slotted(d[i])
<1>1. Len(ch) \in Nat /\ Len(d) = Len(ch)
  BY DEF Layout
<1>2. \A i \in 1..Len(ch) : \A n : Binds(d[i], n) <=> Binds(ch[i], n)
  BY DEF Layout, Binds
<1>3. \A n : Lookup(d, Len(ch), n) = Lookup(ch, Len(ch), n)
  <2> TAKE n
  <2>1. \A j \in 1..Len(ch) : Binds(d[j], n) <=> Binds(ch[j], n)
    BY <1>2
  <2> QED BY <1>1, <2>1, LookupSame
<1>4. ASSUME NEW i \in 1..Len(ch), Slotted(ch[i]) PROVE Slotted(d[i])
  <2>1. /\ d[i].slot = ch[i].slot /\ Len(d[i].vals) = Len(ch[i].vals)
        /\ \A n : Binds(d[i], n) <=> Binds(ch[i], n)
    BY <1>2 DEF Layout
  <2> QED BY <1>4, <2>1 DEF Slotted
<1> QED BY <1>1, <1>3, <1>4

-----------------------------------------------------------------------------
(* A write reaches its name, and no other. *)

\* Where a name is found, it has a slot.
LEMMA FoundSlot ==
    ASSUME NEW s, NEW w, NEW h, Good(s, w, h), NEW n \in Names
    PROVE  LET N == Len(s.chain)
               j == Found(s, n)
           IN  /\ N \in Nat /\ j \in 0..N
               /\ j # 0 => /\ j \in 1..N /\ s.chain[j] \in Layers /\ Binds(s.chain[j], n)
                           /\ Slotted(s.chain[j])
                           /\ s.chain[j].slot[n] \in 1..Len(s.chain[j].vals)
               /\ \A m \in (j + 1)..N : ~Binds(s.chain[m], n)
<1> DEFINE N == Len(s.chain)
           j == Found(s, n)
<1>1. s.chain \in Seq(Layers) /\ \A i \in 1..N : Slotted(s.chain[i])
  BY DEF Good
<1>2. N \in Nat
  BY <1>1
<1>3. /\ j \in 0..N /\ (j = 0 => \A m \in 1..N : ~Binds(s.chain[m], n))
      /\ j # 0 => Binds(s.chain[j], n) /\ \A m \in (j + 1)..N : ~Binds(s.chain[m], n)
  BY <1>2, LookupType DEF Found
<1> HIDE DEF j
<1>4. ASSUME j # 0
      PROVE  /\ j \in 1..N /\ s.chain[j] \in Layers
             /\ s.chain[j].slot[n] \in 1..Len(s.chain[j].vals) /\ Slotted(s.chain[j])
  <2>1. j \in 1..N
    BY <1>2, <1>3, <1>4
  <2>2. s.chain[j] \in Layers /\ Slotted(s.chain[j])
    BY <1>1, <2>1
  <2>3. s.chain[j].slot[n] \in 1..Len(s.chain[j].vals)
    BY <1>3, <1>4, <2>2 DEF Slotted
  <2> QED BY <2>1, <2>2, <2>3
<1>5. \A m \in (j + 1)..N : ~Binds(s.chain[m], n)
  BY <1>2, <1>3
<1> QED BY <1>2, <1>3, <1>4, <1>5 DEF j

\* Only the chain, the object and the table matter.
LEMMA GoodFields ==
    ASSUME NEW s, NEW w, NEW h, Good(s, w, h), NEW t, NEW x, NEW g,
           t.chain = s.chain, t.gobj = s.gobj, t.known = s.known,
           \A n \in Names : x[n] = w[n] /\ (LexDeclared(g, n) <=> LexDeclared(h, n))
    PROVE  Good(t, x, g)
<1>1. \A n : Found(t, n) = Found(s, n)
  BY DEF Found
<1>2. \A n : (IsBoundIn(t, n) <=> IsBoundIn(s, n)) /\ ValueIn(t, n) = ValueIn(s, n)
  BY <1>1 DEF IsBoundIn, ValueIn
<1>3. ASSUME NEW n \in Names PROVE Named(t, n, x[n], g)
  <2>1. Named(s, n, w[n], h)
    BY DEF Good
  <2> QED BY <1>1, <1>2, <2>1 DEF Named
<1> QED BY <1>3 DEF Good

\* A write to the slot where a name is found.
LEMMA WriteFound ==
    ASSUME NEW s, NEW w, NEW h, Good(s, w, h), NEW n \in Names, NEW v \in Values,
           v # Undefined, Found(s, n) # 0,
           NEW t, t.chain = SetSlot(s.chain, Found(s, n), s.chain[Found(s, n)].slot[n], v),
           t.gobj = s.gobj, t.known = s.known,
           NEW x, \A m \in Names : x[m] = IF m = n THEN v ELSE w[m]
    PROVE  Good(t, x, h)
<1> DEFINE j == Found(s, n)
           N == Len(s.chain)
           p == s.chain[j].slot[n]
<1>1. /\ s.chain \in Seq(Layers) /\ s.gobj \in [Names -> Properties] /\ s.known \in Tables
      /\ \A i \in 1..N : Slotted(s.chain[i])
      /\ \A m \in Names : Named(s, m, w[m], h)
  BY DEF Good
<1>2. N \in Nat /\ j \in 1..N /\ Binds(s.chain[j], n) /\ Slotted(s.chain[j])
      /\ p \in 1..Len(s.chain[j].vals)
  BY FoundSlot
<1>3. t.chain = SetSlot(s.chain, j, p, v)
  OBVIOUS
<1> HIDE DEF j, p
<1>4. /\ Layout(s.chain, t.chain) /\ t.chain[j].vals[p] = v
      /\ \A i \in 1..N : \A y \in 1..Len(s.chain[i].vals) :
            <<i, y>> # <<j, p>> => t.chain[i].vals[y] = s.chain[i].vals[y]
  BY <1>1, <1>2, <1>3, SlotWritten
<1>5. /\ \A m : Found(t, m) = Found(s, m)
      /\ \A i \in 1..N : Slotted(t.chain[i])
  BY <1>1, <1>4, LayoutFinds DEF Found
<1>6. t.chain \in Seq(Layers) /\ Len(t.chain) = N
      /\ \A i \in 1..N : t.chain[i].kind = s.chain[i].kind /\ t.chain[i].slot = s.chain[i].slot
  BY <1>4 DEF Layout
<1>7. ASSUME NEW m \in Names PROVE Named(t, m, x[m], h)
  <2> DEFINE i == Found(s, m)
  <2>1. Named(s, m, w[m], h) /\ (IsBoundIn(t, m) <=> IsBoundIn(s, m))
    BY <1>1, <1>5 DEF IsBoundIn
  <2>2. i # 0 => i \in 1..N /\ Binds(s.chain[i], m)
                 /\ s.chain[i].slot[m] \in 1..Len(s.chain[i].vals)
    BY FoundSlot
  <2>3. CASE m = n
    <3>1. i = j /\ i # 0 /\ x[m] = v
      BY <2>3 DEF j
    <3>2. ValueIn(t, m) = v /\ IsBoundIn(t, m)
      <4>1. Found(t, m) = j /\ j # 0
        BY <1>5, <3>1
      <4>2. t.chain[j].slot[m] = p
        <5>1. t.chain[j].slot = s.chain[j].slot
          BY <1>2, <1>6
        <5> QED BY <2>3, <5>1 DEF p
      <4>3. ValueIn(t, m) = t.chain[j].vals[p]
        BY <4>1, <4>2 DEF ValueIn
      <4>4. t.chain[j].vals[p] = v
        BY <1>4
      <4> QED BY <4>1, <4>3, <4>4 DEF IsBoundIn
    <3> QED BY <1>5, <1>6, <2>1, <3>1, <3>2 DEF Named
  <2>4. CASE m # n
    <3>1. x[m] = w[m]
      BY <2>4
    <3>2. ValueIn(t, m) = ValueIn(s, m)
      <4>1. CASE i # 0
        <5>1. <<i, s.chain[i].slot[m]>> # <<j, p>>
          BY <1>2, <2>2, <2>4, <4>1 DEF Slotted, p
        <5>2. t.chain[i].vals[s.chain[i].slot[m]] = s.chain[i].vals[s.chain[i].slot[m]]
          BY <1>4, <2>2, <4>1, <5>1
        <5> QED BY <1>5, <1>6, <2>2, <4>1, <5>2 DEF ValueIn
      <4>2. CASE i = 0
        <5>1. s.gobj[m].is # "accessor"
          BY <2>1, <4>2 DEF Named
        <5> QED BY <1>5, <4>2, <5>1 DEF ValueIn
      <4> QED BY <4>1, <4>2
    <3> QED BY <1>5, <1>6, <2>1, <3>1, <3>2 DEF Named
  <2> QED BY <2>3, <2>4
<1> QED BY <1>1, <1>5, <1>6, <1>7 DEF Good

\* A write to a property of the global object that is no accessor.
LEMMA WriteData ==
    ASSUME NEW s, NEW w, NEW h, Good(s, w, h), NEW n \in Names, NEW v \in Values,
           v # Undefined, s.gobj[n].is # "accessor",
           NEW t, t.chain = s.chain, t.gobj = [s.gobj EXCEPT ![n] = Data(v)],
           t.known = s.known,
           NEW x, \A m \in Names : x[m] = IF m = n /\ Found(s, n) = 0 THEN v ELSE w[m]
    PROVE  Good(t, x, h)
<1>1. /\ s.gobj \in [Names -> Properties] /\ \A m \in Names : Named(s, m, w[m], h)
  BY DEF Good
<1>2. Data(v) \in Properties /\ Data(v).is = "data" /\ Data(v).val = v
  BY DEF Data, Properties
<1>3. \A m : Found(t, m) = Found(s, m)
  BY DEF Found
<1> DEFINE d == Data(v)
<1>4. t.gobj \in [Names -> Properties]
      /\ \A m \in Names : t.gobj[m] = IF m = n THEN d ELSE s.gobj[m]
  <2>1. d \in Properties /\ t.gobj = [s.gobj EXCEPT ![n] = d]
    BY <1>2
  <2> HIDE DEF d
  <2> QED BY <1>1, <2>1
<1>5. d.is = "data" /\ d.val = v
  BY <1>2
<1> HIDE DEF d
<1>6. ASSUME NEW m \in Names PROVE Named(t, m, x[m], h)
  <2>1. Named(s, m, w[m], h)
    BY <1>1
  <2>2. CASE m # n
    <3>1. t.gobj[m] = s.gobj[m] /\ x[m] = w[m]
      BY <1>4, <2>2
    <3>2. (IsBoundIn(t, m) <=> IsBoundIn(s, m)) /\ ValueIn(t, m) = ValueIn(s, m)
      BY <1>3, <3>1 DEF IsBoundIn, ValueIn
    <3> QED BY <1>3, <2>1, <3>1, <3>2 DEF Named
  <2>3. CASE m = n
    <3>1. t.gobj[m] = d /\ x[m] = IF Found(s, n) = 0 THEN v ELSE w[n]
      BY <1>4, <2>3
    <3>2. IsBoundIn(t, m) /\ (Found(s, n) = 0 => ValueIn(t, m) = v)
          /\ (Found(s, n) # 0 => ValueIn(t, m) = ValueIn(s, m) /\ IsBoundIn(s, m))
      BY <1>3, <1>5, <2>3, <3>1 DEF IsBoundIn, ValueIn
    <3> QED BY <1>3, <1>5, <2>1, <2>3, <3>1, <3>2 DEF Named
  <2> QED BY <2>2, <2>3
<1> QED BY <1>4, <1>6 DEF Good

\* Does the write of a cell give a name a value?
Writes(h, c, n) ==
    /\ n = c.write
    /\ IF c.how = "identifier" THEN n \notin Declared(c) ELSE ~LexDeclared(h, n)

\* The body of a cell gives its name the value written, unless the write is lost.
LEMMA BodyGood ==
    ASSUME NEW s, NEW w, NEW h, Good(s, w, h), NEW c \in Cells, NEW k \in Nat, k # 0,
           ~Body(s, c, k).lost,
           NEW x, \A n \in Names : x[n] = IF Writes(h, c, n) THEN Value(k, n) ELSE w[n]
    PROVE  Good(Body(s, c, k), x, h)
<1> DEFINE n == c.write
           v == Value(k, n)
           j == Found(s, n)
           accessor == s.gobj[n].is = "accessor"
           t == Body(s, c, k)
<1>1. /\ c.write \in Names \cup {NoName} /\ c.how \in {"identifier", "globalThis"}
      /\ NoName \notin Names
  BY ScopeAssumption
<1>2. /\ t.chain = IF WritesBinding(s, c) THEN SetSlot(s.chain, j, s.chain[j].slot[n], v)
                   ELSE IF WritesObject(s, c) /\ accessor
                   THEN setPromotedStashSlotValue(s.chain, s.gobj[n].slot, v)
                   ELSE s.chain
      /\ t.gobj = IF WritesObject(s, c) /\ ~accessor
                  THEN [s.gobj EXCEPT ![n] = Data(v)] ELSE s.gobj
      /\ t.known = s.known
      /\ ~(WritesObject(s, c) /\ c.how = "globalThis" /\ Misses(s, n))
  BY DEF Body
<1>3. v \in Values /\ v # Undefined
  <2>1. v = <<k, n>> /\ Undefined = <<0, NoName>>
    BY DEF Value, Undefined
  <2>2. v \in Values
    BY <1>1, <2>1 DEF Values
  <2> QED BY <2>1, <2>2
<1> HIDE DEF t
<1>4. CASE WritesNothing(c)
  <2>1. ~WritesBinding(s, c) /\ ~WritesObject(s, c)
    BY <1>4 DEF WritesBinding, WritesObject
  <2>2. t.chain = s.chain /\ t.gobj = s.gobj
    BY <1>2, <2>1
  <2>3. \A m \in Names : ~Writes(h, c, m)
    BY <1>1, <1>4 DEF Writes, WritesNothing
  <2>4. \A m \in Names : x[m] = w[m]
    BY <2>3
  <2> QED BY <1>2, <2>2, <2>4, GoodFields DEF t
<1>5. CASE ~WritesNothing(c)
  <2>1. n \in Names /\ (c.how = "identifier" => n \notin Declared(c))
    BY <1>1, <1>5 DEF WritesNothing
  <2>2. Named(s, n, w[n], h)
    BY <2>1 DEF Good
  <2>3. CASE WritesBinding(s, c)
    <3>1. j # 0 /\ ~WritesObject(s, c) /\ c.how = "identifier"
      BY <2>3 DEF WritesBinding, WritesObject
    <3>2. t.chain = SetSlot(s.chain, j, s.chain[j].slot[n], v) /\ t.gobj = s.gobj
      BY <1>2, <2>3, <3>1
    <3>3. \A m \in Names : x[m] = IF m = n THEN v ELSE w[m]
      BY <2>1, <3>1 DEF Writes
    <3> HIDE DEF n, v
    <3>4. Good(t, x, h)
      BY <1>2, <1>3, <2>1, <3>1, <3>2, <3>3, WriteFound
    <3> QED BY <3>4 DEF t
  <2>4. CASE WritesObject(s, c) /\ accessor
    <3>1. j # 0 /\ ~LexDeclared(h, n) /\ s.gobj[n].slot # 0
      BY <2>2, <2>4 DEF Named
    <3>2. c.how = "globalThis" /\ ~WritesBinding(s, c)
      BY <1>1, <1>5, <2>4, <3>1 DEF WritesObject, WritesBinding
    <3>3. s.chain # <<>> /\ Top(s).slot[n] = s.gobj[n].slot
      BY <1>2, <2>4, <3>2 DEF Misses
    <3>4. j = Len(s.chain)
      <4>1. s.chain \in Seq(Layers) /\ Slotted(s.chain[Len(s.chain)])
        <5>1. s.chain \in Seq(Layers) /\ \A i \in 1..Len(s.chain) : Slotted(s.chain[i])
          BY DEF Good
        <5>2. Len(s.chain) \in 1..Len(s.chain)
          BY <3>3, <5>1, EmptySeq
        <5> QED BY <5>1, <5>2
      <4>2. Binds(s.chain[Len(s.chain)], n)
        BY <2>1, <3>1, <3>3, <4>1 DEF Slotted, Top
      <4>3. /\ Len(s.chain) \in Nat /\ j \in 0..Len(s.chain)
            /\ \A m \in (j + 1)..Len(s.chain) : ~Binds(s.chain[m], n)
        BY <2>1, FoundSlot
      <4> QED BY <4>2, <4>3
    <3>5. s.gobj[n].slot = s.chain[j].slot[n] /\ s.gobj[n].slot \in DOMAIN s.chain[j].vals
      <4>1. s.chain[j] \in Layers /\ s.chain[j].slot[n] \in 1..Len(s.chain[j].vals)
        BY <2>1, <3>1, FoundSlot
      <4>2. s.chain[j].vals \in Seq(Values)
        BY <4>1 DEF Layers
      <4>3. DOMAIN s.chain[j].vals = 1..Len(s.chain[j].vals)
        BY <4>2
      <4> QED BY <3>3, <3>4, <4>1, <4>3 DEF Top
    <3>6. t.chain = SetSlot(s.chain, j, s.chain[j].slot[n], v) /\ t.gobj = s.gobj
      <4>1. t.chain = setPromotedStashSlotValue(s.chain, s.gobj[n].slot, v)
        BY <1>2, <2>4, <3>2
      <4>2. t.chain = SetSlot(s.chain, Len(s.chain), s.gobj[n].slot, v)
        BY <3>3, <3>4, <3>5, <4>1 DEF setPromotedStashSlotValue, SetSlot
      <4> QED BY <1>2, <2>4, <3>4, <3>5, <4>2
    <3>7. \A m \in Names : x[m] = IF m = n THEN v ELSE w[m]
      BY <2>1, <3>1, <3>2 DEF Writes
    <3> HIDE DEF n, v
    <3>8. Good(t, x, h)
      BY <1>2, <1>3, <2>1, <3>1, <3>6, <3>7, WriteFound
    <3> QED BY <3>8 DEF t
  <2>5. CASE WritesObject(s, c) /\ ~accessor
    <3>1. ~WritesBinding(s, c)
      BY <2>5 DEF WritesObject
    <3>2. t.chain = s.chain /\ t.gobj = [s.gobj EXCEPT ![n] = Data(v)]
      BY <1>2, <2>5, <3>1
    <3>3. j # 0 => c.how = "globalThis" /\ LexDeclared(h, n)
      <4> SUFFICES ASSUME j # 0 PROVE c.how = "globalThis" /\ LexDeclared(h, n)
        OBVIOUS
      <4>1. c.how = "globalThis"
        BY <1>1, <1>5, <3>1 DEF WritesBinding
      <4>2. s.chain[j].kind[n] \notin VarKinds
        BY <1>2, <2>5, <4>1 DEF Misses
      <4>3. j \in 1..Len(s.chain) /\ s.chain[j] \in Layers /\ Binds(s.chain[j], n)
        BY <2>1, FoundSlot
      <4>4. s.chain[j].kind[n] \in Kinds
        <5>1. s.chain[j].kind \in [Names -> Kinds \cup {""}]
          BY <4>3 DEF Layers
        <5> QED BY <2>1, <4>3, <5>1 DEF Binds
      <4> QED BY <2>2, <4>1, <4>2, <4>3, <4>4, KindsDistinct DEF Named
    <3>4. \A m \in Names : x[m] = IF m = n /\ j = 0 THEN v ELSE w[m]
      <4>1. j = 0 => ~LexDeclared(h, n)
        BY <2>2 DEF Named
      <4>2. \A m \in Names : Writes(h, c, m) <=> m = n /\ j = 0
        BY <2>1, <3>3, <4>1 DEF Writes
      <4> QED BY <4>2
    <3> HIDE DEF n, v
    <3>5. Good(t, x, h)
      BY <1>2, <1>3, <2>1, <2>5, <3>2, <3>4, WriteData
    <3> QED BY <3>5 DEF t
  <2> QED BY <1>5, <2>3, <2>4, <2>5 DEF WritesObject
<1> QED BY <1>4, <1>5

-----------------------------------------------------------------------------
(* Promotion puts the values of the declared names in front. *)

\* The table, name by name, when the names of a cell are recorded.
LEMMA RecordedType ==
    ASSUME NEW table \in Tables, NEW c \in AnyCell
    PROVE  /\ Recorded(table, c) \in Tables
           /\ \A n \in Names :
                 LET r == Recorded(table, c)[n]
                     k == KindIn(c, n)
                 IN  /\ n \notin Declared(c) => r = table[n]
                     /\ k \in VarKinds => r.var = k /\ r.lex = table[n].lex
                     /\ k \in LexicalKinds => r.lex = k /\ r.var = table[n].var
<1> DEFINE R == [lex : LexicalKinds \cup {""}, var : VarKinds \cup {""}]
           new == Recorded(table, c)
<1>1. ASSUME NEW n \in Names
      PROVE  LET r == new[n]
                 k == KindIn(c, n)
             IN  /\ r \in R /\ (n \notin Declared(c) => r = table[n])
                 /\ k \in VarKinds => r.var = k /\ r.lex = table[n].lex
                 /\ k \in LexicalKinds => r.lex = k /\ r.var = table[n].var
  <2> DEFINE k == KindIn(c, n)
             r == new[n]
             old == table[n]
  <2>1. old \in R
    BY DEF Tables
  <2>2. r = IF n \notin Declared(c) THEN old
            ELSE IF k \in VarKinds THEN [old EXCEPT !.var = k] ELSE [old EXCEPT !.lex = k]
    BY DEF Recorded, declarationIsVarLike
  <2>3. /\ n \in Declared(c) => k \in VarKinds \/ k \in LexicalKinds
        /\ n \notin Declared(c) => k \notin VarKinds /\ k \notin LexicalKinds
        /\ k \in VarKinds => k \notin LexicalKinds
    BY KindType, KindsDistinct
  <2> HIDE DEF old, r, k
  <2>4. CASE n \notin Declared(c)
    BY <2>1, <2>2, <2>3, <2>4 DEF r, k, old
  <2>5. CASE n \in Declared(c) /\ k \in VarKinds
    <3>1. r = [old EXCEPT !.var = k]
      BY <2>2, <2>5
    <3>2. r \in R /\ r.var = k /\ r.lex = old.lex
      BY <2>1, <2>5, <3>1
    <3> QED BY <2>3, <2>5, <3>2 DEF r, k, old
  <2>6. CASE n \in Declared(c) /\ k \in LexicalKinds
    <3>1. r = [old EXCEPT !.lex = k]
      BY <2>2, <2>3, <2>6
    <3>2. r \in R /\ r.lex = k /\ r.var = old.var
      BY <2>1, <2>6, <3>1
    <3> QED BY <2>3, <2>6, <3>2 DEF r, k, old
  <2> QED BY <2>3, <2>4, <2>5, <2>6
<1>2. new = [n \in Names |-> new[n]]
  BY DEF Recorded
<1> HIDE DEF new
<1>3. new \in [Names -> R]
  BY <1>1, <1>2
<1> QED BY <1>1, <1>3 DEF Tables, new

\* A cell more may have declared the name.
LEMMA LexMore ==
    ASSUME NEW h \in Seq(Cells), NEW c \in Cells, NEW n
    PROVE  LexDeclared(Append(h, c), n) <=>
              LexDeclared(h, n) \/ (c.ends # "returns" /\ KindIn(c, n) \in LexicalKinds)
<1> DEFINE g == Append(h, c)
           N == Len(h)
           P(d) == d.ends # "returns" /\ KindIn(d, n) \in LexicalKinds
<1>1. /\ N \in Nat /\ DOMAIN g = 1..(N + 1) /\ DOMAIN h = 1..N /\ g[N + 1] = c
      /\ \A i \in 1..N : g[i] = h[i]
  BY AppendProperties
<1>2. /\ LexDeclared(g, n) <=> \E i \in DOMAIN g : P(g[i])
      /\ LexDeclared(h, n) <=> \E i \in DOMAIN h : P(h[i])
  BY DEF LexDeclared
<1> HIDE DEF P, g, N
<1>3. (\E i \in DOMAIN g : P(g[i])) <=> (\E i \in DOMAIN h : P(h[i])) \/ P(c)
  <2>1. \A i \in DOMAIN g : i \in DOMAIN h \/ i = N + 1
    BY <1>1
  <2>2. N + 1 \in DOMAIN g /\ \A i \in DOMAIN h : i \in DOMAIN g
    BY <1>1
  <2> QED BY <1>1, <2>1, <2>2
<1> QED BY <1>2, <1>3 DEF P, g

\* The cell may declare its names: validateRedeclarations, of any table.
Allowed(table, c) ==
    \A n \in Names : /\ KindIn(c, n) \in VarKinds => table[n].lex = ""
                     /\ KindIn(c, n) \in LexicalKinds => table[n] = NoCommit

\* A cell that declares nothing promotes nothing.
LEMMA NothingDeclared ==
    ASSUME NEW c \in Cells
    PROVE  /\ c.decls = <<>> => Declared(c) = {} /\ VarsOf(c) = {}
           /\ c.decls # <<>> => Declared(c) # {}
           /\ VarsOf(c) \subseteq Declared(c)
<1>1. c.decls \in Seq(Decls)
  BY CellShape DEF AnyCell
<1>2. c.decls = <<>> => DOMAIN c.decls = {}
  OBVIOUS
<1>3. c.decls # <<>> => 1 \in DOMAIN c.decls
  BY <1>1
<1> QED BY <1>2, <1>3 DEF Declared, VarsOf

\* The layer of a cell in front, and the global object bridged to it.
LEMMA PromoteGood ==
    ASSUME NEW s, NEW w, NEW h \in Seq(Cells), Good(s, w, h),
           NEW c \in Cells, NEW k \in Nat, k # 0, c.ends # "returns", Allowed(s.known, c),
           NEW t, LET b == Bridge(Promote(s, c, k), VarsOf(c))
                  IN  t.chain = b.chain /\ t.gobj = b.gobj,
           t.known = Recorded(s.known, c),
           NEW x, \A n \in Names : x[n] = IF n \in Declared(c) THEN Value(k, n) ELSE w[n]
    PROVE  Good(t, x, Append(h, c))
<1> DEFINE g == Append(h, c)
           l == LayerOf(c, k)
           N == Len(s.chain)
           p == Promote(s, c, k)
<1>1. /\ s.chain \in Seq(Layers) /\ s.gobj \in [Names -> Properties] /\ s.known \in Tables
      /\ \A i \in 1..N : Slotted(s.chain[i])
      /\ \A n \in Names : Named(s, n, w[n], h)
  BY DEF Good
<1>2. c \in AnyCell /\ c.decls \in Seq(Decls) /\ Declared(c) \subseteq Names
  BY CellShape, DeclaredType DEF AnyCell
<1>3. /\ p.chain = (IF c.decls = <<>> THEN s.chain ELSE Append(s.chain, l))
      /\ p.gobj = s.gobj
      /\ t.chain = p.chain
      /\ t.gobj = [n \in Names |-> IF n \in VarsOf(c) THEN Property(p, n) ELSE p.gobj[n]]
  BY DEF Promote, Bridge
<1>4. \A n \in Names : LexDeclared(g, n) <=> LexDeclared(h, n) \/ KindIn(c, n) \in LexicalKinds
  BY LexMore
<1>5. /\ t.known \in Tables
      /\ \A n \in Names :
            LET q == KindIn(c, n)
            IN  /\ n \notin Declared(c) => t.known[n] = s.known[n] /\ q = ""
                /\ n \in Declared(c) => q \in VarKinds \/ q \in LexicalKinds
                /\ q \in VarKinds => t.known[n].var = q /\ t.known[n].lex = s.known[n].lex
                /\ q \in LexicalKinds => t.known[n].lex = q /\ t.known[n].var = s.known[n].var
  <2>1. Recorded(s.known, c) \in Tables
    BY <1>1, <1>2, RecordedType
  <2>2. ASSUME NEW n \in Names
        PROVE  LET q == KindIn(c, n)
                   r == Recorded(s.known, c)[n]
               IN  /\ n \notin Declared(c) => r = s.known[n] /\ q = ""
                   /\ n \in Declared(c) => q \in VarKinds \/ q \in LexicalKinds
                   /\ q \in VarKinds => r.var = q /\ r.lex = s.known[n].lex
                   /\ q \in LexicalKinds => r.lex = q /\ r.var = s.known[n].var
    <3> DEFINE q == KindIn(c, n)
               r == Recorded(s.known, c)[n]
    <3>1. /\ n \notin Declared(c) => r = s.known[n]
          /\ q \in VarKinds => r.var = q /\ r.lex = s.known[n].lex
          /\ q \in LexicalKinds => r.lex = q /\ r.var = s.known[n].var
      BY <1>1, <1>2, RecordedType
    <3>2. /\ n \in Declared(c) => q \in Kinds
          /\ n \notin Declared(c) => q = ""
      BY <1>2, KindType
    <3>3. q \in Kinds => q \in VarKinds \/ q \in LexicalKinds
      BY KindsDistinct
    <3> HIDE DEF q, r
    <3>4. /\ n \notin Declared(c) => r = s.known[n] /\ q = ""
          /\ n \in Declared(c) => q \in VarKinds \/ q \in LexicalKinds
      BY <3>1, <3>2, <3>3
    <3> QED BY <3>1, <3>4 DEF q, r
  <2> QED BY <2>1, <2>2
<1> HIDE DEF g, p
<1>6. CASE c.decls = <<>>
  <2>1. Declared(c) = {} /\ VarsOf(c) = {}
    BY <1>6, NothingDeclared
  <2>2. t.chain = s.chain /\ t.gobj = s.gobj
    BY <1>1, <1>3, <1>6, <2>1
  <2>3. t.known = s.known
    <3>1. t.known = [n \in Names |-> s.known[n]]
      BY <2>1 DEF Recorded
    <3> QED BY <1>1, <3>1 DEF Tables
  <2>4. \A n \in Names : x[n] = w[n] /\ (LexDeclared(g, n) <=> LexDeclared(h, n))
    BY <1>4, <1>5, <2>1, KindsDistinct
  <2>5. Good(t, x, g)
    BY <2>2, <2>3, <2>4, GoodFields
  <2> QED BY <2>5 DEF g
<1>7. CASE c.decls # <<>>
  <2>1. /\ l \in Layers /\ Slotted(l)
        /\ \A n \in Names :
              /\ l.kind[n] = KindIn(c, n) /\ (Binds(l, n) <=> n \in Declared(c))
              /\ n \in Declared(c) =>
                    l.slot[n] \in 1..Len(l.vals) /\ l.vals[l.slot[n]] = Value(k, n)
    BY <1>2, LayerSlots
  <2> HIDE DEF l
  <2>2. /\ N \in Nat /\ t.chain = Append(s.chain, l) /\ t.chain \in Seq(Layers)
        /\ Len(t.chain) = N + 1 /\ t.chain[N + 1] = l
        /\ \A i \in 1..N : t.chain[i] = s.chain[i]
    BY <1>1, <1>3, <1>7, <2>1, AppendProperties
  <2>3. \A i \in 1..Len(t.chain) : Slotted(t.chain[i])
    <3> TAKE i \in 1..Len(t.chain)
    <3>1. i \in 1..N \/ i = N + 1
      BY <2>2
    <3> QED BY <1>1, <2>1, <2>2, <3>1
  <2>4. ASSUME NEW n \in Names
        PROVE  Found(t, n) = IF n \in Declared(c) THEN N + 1 ELSE Found(s, n)
    <3>1. Lookup(Append(s.chain, l), N + 1, n) = IF Binds(l, n) THEN N + 1 ELSE Lookup(s.chain, N, n)
      BY <1>1, <2>1, LookupMore
    <3> QED BY <2>1, <2>2, <3>1 DEF Found
  <2>5. ASSUME NEW n \in Declared(c)
        PROVE  /\ n \in Names /\ l.slot[n] \in 1..Len(l.vals) /\ l.vals[l.slot[n]] = Value(k, n)
               /\ Value(k, n) \in Values /\ Value(k, n) # Undefined
               /\ Top(p) = l /\ promotedStashSlotValue(p.chain, l.slot[n]) = Value(k, n)
    <3>1. n \in Names
      BY <1>2
    <3>2. Value(k, n) \in Values /\ Value(k, n) # Undefined
      BY <3>1 DEF Value, Values, Undefined
    <3>3. p.chain = t.chain /\ Top(p) = l
      BY <1>3, <2>2 DEF Top
    <3>4. l.slot[n] \in DOMAIN l.vals
      <4>1. l.vals \in Seq(Values)
        BY <2>1 DEF Layers
      <4> QED BY <2>1, <3>1, <4>1
    <3>5. p.chain # <<>>
      <4>1. Append(s.chain, l) # <<>>
        BY <1>1, <2>1, AppendProperties
      <4> QED BY <2>2, <3>3, <4>1
    <3>6. p.chain[Len(p.chain)] = l
      BY <2>2, <3>3
    <3>7. promotedStashSlotValue(p.chain, l.slot[n]) = l.vals[l.slot[n]]
      BY <3>4, <3>5, <3>6 DEF promotedStashSlotValue
    <3> QED BY <2>1, <3>1, <3>2, <3>3, <3>7
  <2>6. ASSUME NEW n \in Names
        PROVE  /\ t.gobj[n] \in Properties
               /\ n \notin VarsOf(c) => t.gobj[n] = s.gobj[n]
               /\ n \in VarsOf(c) /\ t.gobj[n].is = "accessor" /\ s.gobj[n].is # "accessor" =>
                     t.gobj[n].slot = l.slot[n]
               /\ n \in VarsOf(c) /\ s.gobj[n].is = "accessor" => t.gobj[n] = s.gobj[n]
    <3>1. CASE n \notin VarsOf(c)
      BY <1>1, <1>3, <3>1
    <3>2. CASE n \in VarsOf(c)
      <4>1. t.gobj[n] = Property(p, n) /\ n \in Declared(c)
        BY <1>3, <3>2, NothingDeclared
      <4>2. /\ p.gobj[n] = s.gobj[n] /\ s.gobj[n] \in Properties
            /\ l.slot[n] \in Nat /\ Value(k, n) \in Values /\ Top(p) = l
            /\ promotedStashSlotValue(p.chain, l.slot[n]) = Value(k, n)
        BY <1>1, <1>3, <2>5, <4>1
      <4>3. CASE s.gobj[n].is = "absent"
        <5>1. t.gobj[n] = Accessor(l.slot[n])
          BY <4>1, <4>2, <4>3 DEF Property
        <5>2. Accessor(l.slot[n]) \in Properties /\ Accessor(l.slot[n]).slot = l.slot[n]
          BY <4>2 DEF Accessor, Properties, Undefined, Values
        <5> QED BY <3>2, <4>3, <5>1, <5>2
      <4>4. CASE s.gobj[n].is = "accessor"
        <5>1. t.gobj[n] = s.gobj[n]
          BY <4>1, <4>2, <4>4 DEF Property
        <5> QED BY <3>2, <4>2, <4>4, <5>1
      <4>5. CASE s.gobj[n].is \notin {"absent", "accessor"}
        <5>1. t.gobj[n] = Data(Value(k, n))
          BY <4>1, <4>2, <4>5 DEF Property
        <5>2. Data(Value(k, n)) \in Properties /\ Data(Value(k, n)).is = "data"
          BY <4>2 DEF Data, Properties
        <5> QED BY <3>2, <4>5, <5>1, <5>2
      <4> QED BY <4>3, <4>4, <4>5
    <3> QED BY <3>1, <3>2
  <2>7. t.gobj \in [Names -> Properties]
    BY <1>3, <2>6
  <2>8. ASSUME NEW n \in Names PROVE Named(t, n, x[n], g)
    <3> DEFINE q == KindIn(c, n)
    <3>1. Named(s, n, w[n], h)
      BY <1>1
    <3>2. /\ q \in VarKinds => s.known[n].lex = "" /\ q \notin LexicalKinds /\ q # ""
          /\ q \in LexicalKinds => s.known[n].var = "" /\ q \notin VarKinds /\ q # ""
      <4>1. /\ q \in VarKinds => s.known[n].lex = ""
            /\ q \in LexicalKinds => s.known[n] = NoCommit
        BY DEF Allowed
      <4>2. NoCommit.var = ""
        BY DEF NoCommit
      <4> QED BY <4>1, <4>2, KindsDistinct
    <3>3. n \in VarsOf(c) <=> n \in Declared(c) /\ q \in VarKinds
      BY DEF VarsOf, declarationIsVarLike
    <3> HIDE DEF q
    <3>4. t.gobj[n].is = "accessor" =>
             /\ t.known[n].var # "" /\ Found(t, n) # 0 /\ ~LexDeclared(g, n)
             /\ t.gobj[n].slot # 0
      <4> SUFFICES ASSUME t.gobj[n].is = "accessor"
                   PROVE  /\ t.known[n].var # "" /\ Found(t, n) # 0 /\ ~LexDeclared(g, n)
                          /\ t.gobj[n].slot # 0
        OBVIOUS
      <4>1. CASE n \notin Declared(c)
        <5>1. t.gobj[n] = s.gobj[n] /\ t.known[n] = s.known[n] /\ q = ""
          BY <1>5, <2>6, <3>3, <4>1 DEF q
        <5>2. Found(t, n) = Found(s, n) /\ (LexDeclared(g, n) <=> LexDeclared(h, n))
          BY <1>4, <2>4, <4>1, <5>1, KindsDistinct DEF q
        <5> QED BY <3>1, <5>1, <5>2 DEF Named
      <4>2. CASE n \in Declared(c) /\ q \in LexicalKinds
        <5>1. t.gobj[n] = s.gobj[n] /\ s.known[n].var = ""
          BY <2>6, <3>2, <3>3, <4>2
        <5> QED BY <3>1, <5>1 DEF Named
      <4>3. CASE n \in Declared(c) /\ q \in VarKinds
        <5>1. t.known[n].var # "" /\ Found(t, n) # 0
          <6>1. t.known[n].var = q /\ q # ""
            BY <1>5, <3>2, <4>3 DEF q
          <6>2. Found(t, n) = N + 1
            BY <2>4, <4>3
          <6>3. N + 1 # 0
            BY <2>2
          <6>4. Found(t, n) # 0
            BY <6>2, <6>3
          <6>5. t.known[n].var # ""
            BY <6>1
          <6> QED BY <6>4, <6>5
        <5>2. ~LexDeclared(g, n)
          BY <1>4, <3>1, <3>2, <4>3 DEF Named, q
        <5>3. t.gobj[n].slot # 0
          <6>1. CASE s.gobj[n].is = "accessor"
            BY <2>6, <3>1, <3>3, <4>3, <6>1 DEF Named
          <6>2. CASE s.gobj[n].is # "accessor"
            <7>1. t.gobj[n].slot = l.slot[n]
              BY <2>6, <3>3, <4>3, <6>2
            <7>2. l.slot[n] \in 1..Len(l.vals)
              BY <2>5, <4>3
            <7> QED BY <7>1, <7>2
          <6> QED BY <6>1, <6>2
        <5> QED BY <5>1, <5>2, <5>3
      <4> QED BY <1>5, <4>1, <4>2, <4>3 DEF q
    <3>5. LexDeclared(g, n) => t.known[n].lex # "" /\ Found(t, n) # 0
      <4> SUFFICES ASSUME LexDeclared(g, n) PROVE t.known[n].lex # "" /\ Found(t, n) # 0
        OBVIOUS
      <4>1. CASE n \notin Declared(c)
        <5>1. t.known[n] = s.known[n] /\ Found(t, n) = Found(s, n) /\ LexDeclared(h, n)
          BY <1>4, <1>5, <2>4, <4>1, KindsDistinct
        <5> QED BY <3>1, <5>1 DEF Named
      <4>2. CASE n \in Declared(c)
        <5>1. Found(t, n) # 0
          BY <2>2, <2>4, <4>2
        <5>2. LexDeclared(h, n) => s.known[n].lex # ""
          BY <3>1 DEF Named
        <5>3. q \in LexicalKinds
          BY <1>4, <1>5, <3>2, <4>2, <5>2 DEF q
        <5>4. t.known[n].lex # ""
          BY <1>5, <3>2, <5>3 DEF q
        <5> QED BY <5>1, <5>4
      <4> QED BY <4>1, <4>2
    <3>6. \A i \in 1..Len(t.chain) : t.chain[i].kind[n] \in LexicalKinds => LexDeclared(g, n)
      <4> TAKE i \in 1..Len(t.chain)
      <4>1. CASE i = N + 1
        BY <1>4, <2>1, <2>2, <4>1
      <4>2. CASE i \in 1..N
        <5>1. t.chain[i] = s.chain[i]
          BY <2>2, <4>2
        <5> QED BY <1>4, <3>1, <4>2, <5>1 DEF Named
      <4> QED BY <2>2, <4>1, <4>2
    <3>7. IF x[n] = Undefined THEN ~IsBoundIn(t, n)
          ELSE IsBoundIn(t, n) /\ ValueIn(t, n) = x[n]
      <4>1. CASE n \in Declared(c)
        <5>1. x[n] = Value(k, n) /\ x[n] # Undefined
          BY <2>5, <4>1
        <5>2. Found(t, n) = N + 1 /\ N + 1 # 0
          BY <2>2, <2>4, <4>1
        <5>3. ValueIn(t, n) = l.vals[l.slot[n]]
          BY <2>2, <5>2 DEF ValueIn
        <5> QED BY <2>5, <4>1, <5>1, <5>2, <5>3 DEF IsBoundIn
      <4>2. CASE n \notin Declared(c)
        <5>1. x[n] = w[n] /\ t.gobj[n] = s.gobj[n] /\ Found(t, n) = Found(s, n)
          BY <2>4, <2>6, <3>3, <4>2
        <5>2. Found(s, n) # 0 => t.chain[Found(s, n)] = s.chain[Found(s, n)]
          BY <2>2, FoundSlot
        <5>3. Found(s, n) = 0 => s.gobj[n].is # "accessor"
          BY <3>1 DEF Named
        <5>4. (IsBoundIn(t, n) <=> IsBoundIn(s, n)) /\ ValueIn(t, n) = ValueIn(s, n)
          BY <5>1, <5>2, <5>3 DEF IsBoundIn, ValueIn
        <5> QED BY <3>1, <5>1, <5>4 DEF Named
      <4> QED BY <4>1, <4>2
    <3> QED BY <3>4, <3>5, <3>6, <3>7 DEF Named
  <2>9. Good(t, x, g)
    BY <1>5, <2>2, <2>3, <2>7, <2>8 DEF Good
  <2> QED BY <2>9 DEF g
<1> QED BY <1>6, <1>7

-----------------------------------------------------------------------------
(* A cell more. *)

\* A cell with a return of its own promotes nothing, but its names are recorded.
LEMMA ReturnGood ==
    ASSUME NEW s, NEW w, NEW h \in Seq(Cells), Good(s, w, h),
           NEW c \in Cells, c.ends = "returns",
           NEW t, t.chain = s.chain, t.gobj = s.gobj, t.known = Recorded(s.known, c),
           NEW x, \A n \in Names : x[n] = w[n]
    PROVE  Good(t, x, Append(h, c))
<1> DEFINE g == Append(h, c)
<1>1. s.known \in Tables /\ \A n \in Names : Named(s, n, w[n], h)
  BY DEF Good
<1>2. c \in AnyCell
  BY DEF AnyCell
<1>3. \A n : LexDeclared(g, n) <=> LexDeclared(h, n)
  BY LexMore
<1> HIDE DEF g
<1>4. t.known \in Tables
  BY <1>1, <1>2, RecordedType
<1>5. ASSUME NEW n \in Names
      PROVE  /\ s.known[n].var # "" => t.known[n].var # ""
             /\ s.known[n].lex # "" => t.known[n].lex # ""
  <2> DEFINE q == KindIn(c, n)
             r == Recorded(s.known, c)[n]
  <2>1. /\ n \notin Declared(c) => r = s.known[n]
        /\ q \in VarKinds => r.var = q /\ r.lex = s.known[n].lex
        /\ q \in LexicalKinds => r.lex = q /\ r.var = s.known[n].var
    BY <1>1, <1>2, RecordedType
  <2>2. n \in Declared(c) => (q \in VarKinds \/ q \in LexicalKinds) /\ q # ""
    BY <1>2, KindType, KindsDistinct
  <2>3. t.known[n] = r
    OBVIOUS
  <2> HIDE DEF q, r
  <2> QED BY <2>1, <2>2, <2>3
<1>6. \A n : Found(t, n) = Found(s, n)
  BY DEF Found
<1>7. \A n : (IsBoundIn(t, n) <=> IsBoundIn(s, n)) /\ ValueIn(t, n) = ValueIn(s, n)
  BY <1>6 DEF IsBoundIn, ValueIn
<1>8. ASSUME NEW n \in Names PROVE Named(t, n, x[n], g)
  <2>1. Named(s, n, w[n], h) /\ x[n] = w[n]
    BY <1>1
  <2> QED BY <1>3, <1>5, <1>6, <1>7, <2>1 DEF Named
<1>9. Good(t, x, g)
  BY <1>4, <1>8 DEF Good
<1> QED BY <1>9 DEF g

\* A cell that keeps its writes gives the names it writes, and declares unless it
\* returns, its values.
LEMMA GoodStep ==
    ASSUME NEW s, NEW w, NEW h \in Seq(Cells), Good(s, w, h),
           NEW c \in Cells, NEW k \in Nat, k # 0, Allowed(s.known, c),
           ~After(s, c, k).lost,
           NEW x, \A n \in Names :
                     x[n] = IF (n \in Declared(c) /\ c.ends # "returns") \/ Writes(h, c, n)
                            THEN Value(k, n) ELSE w[n]
    PROVE  Good(After(s, c, k), x, Append(h, c))
<1> DEFINE b == Body(s, c, k)
           y == [n \in Names |-> IF Writes(h, c, n) THEN Value(k, n) ELSE w[n]]
           t == After(s, c, k)
<1>1. /\ t.known = Recorded(s.known, c) /\ b.known = s.known
      /\ c.ends = "returns" => t.chain = b.chain /\ t.gobj = b.gobj /\ t.lost = b.lost
      /\ c.ends # "returns" =>
            LET r == Bridge(Promote(b, c, k), VarsOf(c))
            IN  t.chain = r.chain /\ t.gobj = r.gobj /\ (b.lost => t.lost)
  <2>1. t.known = Recorded(s.known, c) /\ b.known = s.known
    BY DEF After, Body
  <2>2. t.chain = Run(s, c, k).chain /\ t.gobj = Run(s, c, k).gobj /\ t.lost = Run(s, c, k).lost
    BY DEF After
  <2>3. Run(s, c, k) = IF c.ends = "returns" THEN b ELSE Bridge(Promote(b, c, k), VarsOf(c))
    BY DEF Run
  <2> HIDE DEF b
  <2>4. b.lost => Bridge(Promote(b, c, k), VarsOf(c)).lost
    BY DEF Bridge, Promote
  <2> QED BY <2>1, <2>2, <2>3, <2>4
<1>2. ~b.lost
  BY <1>1
<1>3. \A n \in Names : y[n] = IF Writes(h, c, n) THEN Value(k, n) ELSE w[n]
  OBVIOUS
<1> HIDE DEF y, t
<1>4. Good(b, y, h)
  BY <1>2, <1>3, BodyGood
<1> HIDE DEF b
<1>5. CASE c.ends = "returns"
  <2>1. \A n \in Names : x[n] = y[n]
    BY <1>3, <1>5
  <2>2. t.chain = b.chain /\ t.gobj = b.gobj /\ t.known = Recorded(b.known, c)
    BY <1>1, <1>5
  <2>3. Good(t, x, Append(h, c))
    BY <1>4, <1>5, <2>1, <2>2, ReturnGood
  <2> QED BY <2>3 DEF t
<1>6. CASE c.ends # "returns"
  <2>1. \A n \in Names : x[n] = IF n \in Declared(c) THEN Value(k, n) ELSE y[n]
    BY <1>3, <1>6
  <2>2. LET r == Bridge(Promote(b, c, k), VarsOf(c)) IN t.chain = r.chain /\ t.gobj = r.gobj
    BY <1>1, <1>6
  <2>3. t.known = Recorded(b.known, c) /\ Allowed(b.known, c)
    BY <1>1
  <2>4. Good(t, x, Append(h, c))
    BY <1>4, <1>6, <2>1, <2>2, <2>3, PromoteGood
  <2> QED BY <2>4 DEF t
<1> QED BY <1>5, <1>6

\* A new runtime has no names.
LEMMA GoodInit ==
    ASSUME NEW w, \A n \in Names : w[n] = Undefined
    PROVE  Good(NewScope, w, <<>>)
<1> DEFINE s == NewScope
<1>1. /\ s.chain = <<>> /\ s.gobj = [n \in Names |-> Absent]
      /\ s.known = [n \in Names |-> NoCommit]
  BY DEF NewScope, Fresh
<1>2. Absent \in Properties /\ Absent.is = "absent"
  BY DEF Absent, Properties, Undefined, Values
<1>3. NoCommit \in [lex : LexicalKinds \cup {""}, var : VarKinds \cup {""}]
  BY DEF NoCommit
<1> DEFINE a == Absent
           e == NoCommit
<1>4. s.gobj = [n \in Names |-> a] /\ a \in Properties /\ a.is = "absent"
  BY <1>1, <1>2
<1>5. s.known \in Tables
  BY <1>1, <1>3 DEF Tables
<1> HIDE DEF s, a
<1>6. s.gobj \in [Names -> Properties] /\ \A n \in Names : s.gobj[n].is = "absent"
  BY <1>4
<1>7. Len(s.chain) = 0 /\ s.chain \in Seq(Layers)
  BY <1>1
<1>8. \A n : Found(s, n) = 0
  <2> TAKE n
  <2>1. Lookup(s.chain, 0, n) \in 0..0
    BY LookupType
  <2> QED BY <1>7, <2>1 DEF Found
<1>9. ASSUME NEW n \in Names PROVE Named(s, n, w[n], <<>>)
  <2>1. ~LexDeclared(<<>>, n)
    BY DEF LexDeclared
  <2>2. ~IsBoundIn(s, n)
    BY <1>6, <1>8 DEF IsBoundIn
  <2>3. \A i \in 1..Len(s.chain) : FALSE
    BY <1>7
  <2> QED BY <1>6, <2>1, <2>2, <2>3 DEF Named
<1>10. Good(s, w, <<>>)
  BY <1>5, <1>6, <1>7, <1>9 DEF Good
<1> QED BY <1>10 DEF s

-----------------------------------------------------------------------------
(* Bindings, whatever the values. *)

\* Scopes that bind alike find names in the same layers.
LEMMA AlikeFinds ==
    ASSUME NEW ch, NEW g, NEW s, Alike(ch, g, s), NEW n
    PROVE  Lookup(s.binds, Len(s.binds), n) = Lookup(ch, Len(ch), n)
<1>1. Len(ch) \in Nat /\ Len(s.binds) = Len(ch)
  BY DEF Alike
<1>2. \A i \in 1..Len(ch) : Binds(s.binds[i], n) <=> Binds(ch[i], n)
  BY DEF Alike, Binds
<1> QED BY <1>1, <1>2, LookupSame

\* Writes keep the bindings of a layer.
LEMMA SameAlike ==
    ASSUME NEW s, Alike(chain, gobj, s), chain' \in Seq(Layers), SameBindings(chain'),
           NEW t, t.binds = s.binds, t.props \in [Names -> Properties],
           \A n \in Names : t.props[n].is = gobj'[n].is /\ t.props[n].slot = gobj'[n].slot
    PROVE  Alike(chain', gobj', t)
  BY DEF Alike, SameBindings

\* A data property, whatever its value.
LEMMA DataType ==
    /\ Data(Undefined) \in Properties
    /\ \A v : Data(v).is = "data" /\ Data(v).slot = 0
<1>1. Undefined \in Values
  BY DEF Undefined, Values
<1> QED BY <1>1 DEF Data, Properties

\* Setting a property keeps it an accessor, or makes it data.
LEMMA GlobalSetAlike ==
    ASSUME TypeOK, NEW s, Alike(chain, gobj, s), NEW n \in Names, NEW v \in Values,
           GlobalSet(n, v),
           NEW t, t.binds = s.binds,
           t.props = IF s.props[n].is # "accessor"
                     THEN [s.props EXCEPT ![n] = Data(Undefined)] ELSE s.props
    PROVE  Alike(chain', gobj', t)
<1>1. chain' \in Seq(Layers) /\ SameBindings(chain')
  BY GlobalSetKeeps DEF Effect
<1>2. /\ s.props \in [Names -> Properties] /\ gobj \in [Names -> Properties]
      /\ \A m \in Names : s.props[m].is = gobj[m].is /\ s.props[m].slot = gobj[m].slot
  BY DEF Alike, TypeOK
<1>3. CASE gobj[n].is = "accessor"
  <2>1. gobj' = gobj /\ t.props = s.props
    BY <1>2, <1>3 DEF GlobalSet
  <2> QED BY <1>1, <1>2, <2>1, SameAlike
<1>4. CASE gobj[n].is # "accessor"
  <2> DEFINE d == Data(v)
             e == Data(Undefined)
  <2>1. gobj' = [gobj EXCEPT ![n] = d] /\ t.props = [s.props EXCEPT ![n] = e]
    BY <1>2, <1>4 DEF GlobalSet
  <2>2. d.is = e.is /\ d.slot = e.slot /\ e \in Properties
    BY DataType
  <2> HIDE DEF d, e
  <2>3. t.props \in [Names -> Properties]
    BY <1>2, <2>1, <2>2
  <2>4. \A m \in Names : t.props[m].is = gobj'[m].is /\ t.props[m].slot = gobj'[m].slot
    BY <1>2, <2>1, <2>2
  <2> QED BY <1>1, <2>3, <2>4, SameAlike
<1> QED BY <1>3, <1>4

\* The body of a cell writes.
LEMMA BodyAlike ==
    ASSUME TypeOK, NEW s, Alike(chain, gobj, s), NEW c \in Cells, NEW k \in Nat,
           \/ WritesNothing(c) /\ UNCHANGED <<chain, gobj>>
           \/ /\ ~WritesNothing(c) /\ c.how = "identifier"
              /\ Assign(c.write, Value(k, c.write))
           \/ /\ ~WritesNothing(c) /\ c.how = "globalThis"
              /\ GlobalSet(c.write, Value(k, c.write))
    PROVE  Alike(chain', gobj', Body(s, c, k))
<1> DEFINE n == c.write
           v == Value(k, n)
           t == Body(s, c, k)
<1>1. /\ t.binds = s.binds
      /\ t.props = IF ReachesObject(s, c) /\ s.props[n].is # "accessor"
                   THEN [s.props EXCEPT ![n] = Data(Undefined)] ELSE s.props
  BY DEF Body
<1>2. v \in Values /\ n \in Names \cup {NoName}
  BY ScopeAssumption DEF Value, Values
<1>3. /\ s.props \in [Names -> Properties]
      /\ \A m \in Names : s.props[m].is = gobj[m].is /\ s.props[m].slot = gobj[m].slot
  BY DEF Alike
<1>4. Lookup(s.binds, Len(s.binds), n) = Lookup(chain, Len(chain), n)
  BY AlikeFinds
<1>5. c.how = "globalThis" => c.how # "identifier"
  OBVIOUS
<1>6. ~WritesNothing(c) => n \in Names
  BY <1>2 DEF WritesNothing
<1> HIDE DEF t, v, n
<1>7. CASE WritesNothing(c)
  <2>1. ~ReachesObject(s, c)
    BY <1>7 DEF ReachesObject
  <2>2. chain' = chain /\ gobj' = gobj
    BY <1>7
  <2> QED BY <1>1, <1>3, <2>1, <2>2 DEF Alike, t
<1>8. CASE ~WritesNothing(c) /\ c.how = "globalThis"
  <2>1. ReachesObject(s, c) /\ GlobalSet(n, v)
    BY <1>5, <1>8 DEF ReachesObject, n, v
  <2> QED BY <1>1, <1>2, <1>6, <1>8, <2>1, GlobalSetAlike DEF t
<1>9. CASE ~WritesNothing(c) /\ c.how = "identifier"
  <2>1. Assign(n, v)
    BY <1>5, <1>9 DEF n, v
  <2>2. CASE Lookup(chain, Len(chain), n) = 0
    <3>1. ReachesObject(s, c)
      BY <1>4, <1>9, <2>2 DEF ReachesObject, n
    <3>2. GlobalSet(n, v)
      BY <2>1, <2>2 DEF Assign
    <3> QED BY <1>1, <1>2, <1>6, <1>9, <3>1, <3>2, GlobalSetAlike DEF t
  <2>3. CASE Lookup(chain, Len(chain), n) # 0
    <3>1. ~ReachesObject(s, c)
      BY <1>4, <1>9, <2>3 DEF ReachesObject, n
    <3>2. gobj' = gobj
      BY <2>1, <2>3 DEF Assign
    <3>3. chain' \in Seq(Layers) /\ SameBindings(chain')
      BY <1>2, <1>6, <1>9, <2>1, AssignKeeps DEF Effect
    <3> QED BY <1>1, <1>3, <3>1, <3>2, <3>3, SameAlike DEF t
  <2> QED BY <2>2, <2>3
<1> QED BY <1>7, <1>8, <1>9 DEF n, v

\* A cell more: the names it writes are bound, and those it declares unless it
\* returns.
LEMMA BoundStep ==
    ASSUME NEW s, NEW w, NEW h \in Seq(Cells), Bound(s, w, h),
           NEW c \in Cells, NEW k \in Nat, k # 0,
           NEW x, \A n \in Names :
                     x[n] = IF (n \in Declared(c) /\ c.ends # "returns") \/ Writes(h, c, n)
                            THEN Value(k, n) ELSE w[n]
    PROVE  Bound(After(s, c, k), x, Append(h, c))
<1> DEFINE b == Body(s, c, k)
           t == After(s, c, k)
           m == c.write
           L == Len(s.binds)
           kept == c.ends # "returns"
           promoted == kept /\ c.decls # <<>>
<1>1. /\ s.binds \in Seq(Layers) /\ s.props \in [Names -> Properties] /\ L \in Nat
      /\ \A n \in Names : /\ BoundBy(s, n) <=> w[n] # Undefined
                          /\ LexDeclared(h, n) => Lookup(s.binds, L, n) # 0
  BY DEF Bound
<1>2. c \in AnyCell /\ m \in Names \cup {NoName} /\ NoName \notin Names
      /\ c.how \in {"identifier", "globalThis"}
  BY ScopeAssumption DEF AnyCell
<1>3. \A n \in Names : Value(k, n) # Undefined
  BY <1>2 DEF Value, Undefined
<1>4. /\ b.binds = s.binds
      /\ b.props = IF ReachesObject(s, c) /\ s.props[m].is # "accessor"
                   THEN [s.props EXCEPT ![m] = Data(Undefined)] ELSE s.props
  BY DEF Body
<1>5. b.props \in [Names -> Properties]
      /\ \A n \in Names : b.props[n].is # "absent" <=>
            s.props[n].is # "absent" \/ (ReachesObject(s, c) /\ n = m)
  <2> DEFINE d == Data(Undefined)
  <2>1. d \in Properties /\ d.is = "data"
    BY DataType
  <2>2. b.props = IF ReachesObject(s, c) /\ s.props[m].is # "accessor"
                  THEN [s.props EXCEPT ![m] = d] ELSE s.props
    BY <1>4
  <2> HIDE DEF d, b
  <2>3. CASE ReachesObject(s, c) /\ s.props[m].is # "accessor"
    <3>1. m \in Names
      BY <1>2, <2>3 DEF ReachesObject, WritesNothing
    <3>2. b.props = [s.props EXCEPT ![m] = d]
      BY <2>2, <2>3
    <3> HIDE DEF m
    <3> QED BY <1>1, <2>1, <2>3, <3>1, <3>2
  <2>4. CASE ~(ReachesObject(s, c) /\ s.props[m].is # "accessor")
    BY <1>1, <2>2, <2>4
  <2> QED BY <2>3, <2>4
<1>6. ASSUME NEW n \in Names
      PROVE  BoundBy(b, n) <=> w[n] # Undefined \/ Writes(h, c, n)
  <2>1. BoundBy(b, n) <=> BoundBy(s, n) \/ (ReachesObject(s, c) /\ n = m)
    BY <1>4, <1>5 DEF BoundBy
  <2>2. CASE n # m
    BY <1>1, <2>1, <2>2 DEF Writes
  <2>3. CASE n = m /\ c.how = "identifier"
    <3>1. WritesNothing(c) <=> n \in Declared(c)
      BY <1>2, <2>3 DEF WritesNothing
    <3>2. Writes(h, c, n) <=> n \notin Declared(c)
      BY <2>3 DEF Writes
    <3>3. ReachesObject(s, c) <=> n \notin Declared(c) /\ Lookup(s.binds, L, n) = 0
      BY <2>3, <3>1 DEF ReachesObject
    <3>4. Lookup(s.binds, L, n) # 0 => BoundBy(s, n)
      BY DEF BoundBy
    <3> QED BY <1>1, <2>1, <2>3, <3>2, <3>3, <3>4
  <2>4. CASE n = m /\ c.how # "identifier"
    <3>1. ReachesObject(s, c)
      BY <1>2, <2>4 DEF ReachesObject, WritesNothing
    <3>2. Writes(h, c, n) <=> ~LexDeclared(h, n)
      BY <2>4 DEF Writes
    <3>3. LexDeclared(h, n) => w[n] # Undefined
      BY <1>1 DEF BoundBy
    <3> QED BY <2>1, <2>4, <3>1, <3>2, <3>3
  <2> QED BY <2>2, <2>3, <2>4
<1>7. /\ t.binds = IF promoted THEN Append(s.binds, LayerOf(c, k)) ELSE s.binds
      /\ t.props = IF kept THEN [n \in Names |-> IF n \in VarsOf(c)
                                                 THEN Kept(Promote(b, c, k), n)
                                                 ELSE b.props[n]]
                   ELSE b.props
  <2> DEFINE p == Promote(b, c, k)
             r == Run(s, c, k)
  <2>1. t.binds = r.binds /\ t.props = r.props
    BY DEF After
  <2>2. r = IF kept THEN Bridge(p, VarsOf(c)) ELSE b
    BY DEF Run
  <2>3. /\ p.binds = IF c.decls = <<>> THEN b.binds ELSE Append(b.binds, LayerOf(c, k))
        /\ p.props = b.props
    BY DEF Promote
  <2> HIDE DEF p, r, b, t
  <2>4. /\ Bridge(p, VarsOf(c)).binds = p.binds
        /\ Bridge(p, VarsOf(c)).props =
              [n \in Names |-> IF n \in VarsOf(c) THEN Kept(p, n) ELSE p.props[n]]
    BY DEF Bridge
  <2> QED BY <1>4, <2>1, <2>2, <2>3, <2>4 DEF p
<1>8. LayerOf(c, k) \in Layers
      /\ \A n \in Names : Binds(LayerOf(c, k), n) <=> n \in Declared(c)
  BY <1>2, LayerSlots
<1>9. t.binds \in Seq(Layers)
  BY <1>1, <1>7, <1>8
<1>10. ASSUME NEW n \in Names
       PROVE  Lookup(t.binds, Len(t.binds), n) # 0 <=>
                 (promoted /\ n \in Declared(c)) \/ Lookup(s.binds, L, n) # 0
  <2>1. CASE promoted
    <3>1. t.binds = Append(s.binds, LayerOf(c, k))
      BY <1>7, <2>1
    <3>2. Len(t.binds) = L + 1
      BY <1>1, <1>8, <3>1
    <3>3. Lookup(t.binds, Len(t.binds), n) =
             IF Binds(LayerOf(c, k), n) THEN L + 1 ELSE Lookup(s.binds, L, n)
      BY <1>1, <1>8, <3>1, <3>2, LookupMore
    <3> QED BY <1>1, <1>8, <2>1, <3>3
  <2>2. CASE ~promoted
    BY <1>7, <2>2
  <2> QED BY <2>1, <2>2
<1>11. /\ c.decls = <<>> => Declared(c) = {} /\ VarsOf(c) = {}
       /\ VarsOf(c) \subseteq Declared(c)
  BY NothingDeclared
<1> HIDE DEF t, b, L
<1>12. t.props \in [Names -> Properties]
  <2>1. CASE kept /\ VarsOf(c) # {}
    <3> DEFINE p == Promote(b, c, k)
    <3>1. promoted
      BY <1>11, <2>1
    <3>2. p.binds = t.binds /\ p.props = b.props
      BY <1>4, <1>7, <3>1 DEF Promote
    <3>3. Len(t.binds) \in 1..Len(t.binds)
      BY <1>1, <1>7, <1>8, <3>1, AppendProperties DEF L
    <3> HIDE DEF p
    <3>4. t.binds[Len(t.binds)] \in Layers
      BY <1>9, <3>3
    <3>5. \A n \in Names : t.binds[Len(t.binds)].slot[n] \in Nat
      BY <3>4 DEF Layers
    <3>6. \A i \in Nat : Accessor(i) \in Properties
      BY DEF Accessor, Properties, Undefined, Values
    <3>7. ASSUME NEW n \in Names PROVE Kept(p, n) \in Properties
      <4>1. Accessor(p.binds[Len(p.binds)].slot[n]) \in Properties
        BY <3>2, <3>5, <3>6
      <4>2. p.props[n] \in Properties /\ Data(Undefined) \in Properties
        BY <1>5, <3>2, DataType
      <4> QED BY <4>1, <4>2 DEF Kept
    <3>8. t.props = [n \in Names |-> IF n \in VarsOf(c) THEN Kept(p, n) ELSE b.props[n]]
      BY <1>7, <2>1 DEF p
    <3> QED BY <1>5, <3>7, <3>8
  <2>2. CASE kept /\ VarsOf(c) = {}
    BY <1>5, <1>7, <2>2
  <2>3. CASE ~kept
    BY <1>5, <1>7, <2>3
  <2> QED BY <2>1, <2>2, <2>3
<1>13. ASSUME NEW n \in Names
       PROVE  /\ BoundBy(t, n) <=> (kept /\ n \in Declared(c)) \/ BoundBy(b, n)
              /\ LexDeclared(Append(h, c), n) => Lookup(t.binds, Len(t.binds), n) # 0
  <2>1. n \notin VarsOf(c) \/ ~kept => t.props[n] = b.props[n]
    BY <1>5, <1>7
  <2>2. kept /\ n \in Declared(c) <=> promoted /\ n \in Declared(c)
    BY <1>11
  <2>3. BoundBy(b, n) <=> Lookup(s.binds, L, n) # 0 \/ b.props[n].is # "absent"
    BY <1>4 DEF BoundBy, L
  <2>4. BoundBy(t, n) <=> Lookup(t.binds, Len(t.binds), n) # 0 \/ t.props[n].is # "absent"
    BY DEF BoundBy
  <2>5. BoundBy(t, n) <=> (kept /\ n \in Declared(c)) \/ BoundBy(b, n)
    BY <1>10, <1>11, <2>1, <2>2, <2>3, <2>4
  <2>6. KindIn(c, n) \in LexicalKinds => n \in Declared(c)
    BY <1>2, KindType, KindsDistinct
  <2>7. LexDeclared(Append(h, c), n) => LexDeclared(h, n) \/ (kept /\ n \in Declared(c))
    BY <2>6, LexMore
  <2>8. LexDeclared(h, n) => Lookup(s.binds, L, n) # 0
    BY <1>1 DEF L
  <2> QED BY <1>10, <2>2, <2>5, <2>7, <2>8
<1>14. ASSUME NEW n \in Names PROVE BoundBy(t, n) <=> x[n] # Undefined
  <2>1. x[n] # Undefined <=>
           (n \in Declared(c) /\ kept) \/ Writes(h, c, n) \/ w[n] # Undefined
    BY <1>3
  <2> QED BY <1>6, <1>13, <2>1
<1> HIDE DEF kept, promoted
<1>15. Bound(t, x, Append(h, c))
  BY <1>9, <1>12, <1>13, <1>14 DEF Bound
<1> QED BY <1>15 DEF t

\* A new runtime binds nothing.
LEMMA BoundInit ==
    ASSUME NEW w, \A n \in Names : w[n] = Undefined
    PROVE  /\ Alike(NewScope.chain, NewScope.gobj, NewScope)
           /\ Bound(NewScope, w, <<>>)
<1> DEFINE s == NewScope
           a == Absent
<1>1. /\ s.binds = <<>> /\ s.chain = <<>>
      /\ s.props = [n \in Names |-> a] /\ s.gobj = [n \in Names |-> a]
  BY DEF NewScope, Fresh
<1>2. a \in Properties /\ a.is = "absent"
  BY DEF Absent, Properties, Undefined, Values
<1> HIDE DEF s, a
<1>3. s.props \in [Names -> Properties] /\ \A n \in Names : s.props[n].is = "absent"
  BY <1>1, <1>2
<1>4. Len(s.binds) = 0 /\ s.binds \in Seq(Layers)
  BY <1>1
<1>5. \A n : Lookup(s.binds, Len(s.binds), n) = 0
  <2> TAKE n
  <2>1. Lookup(s.binds, 0, n) \in 0..0
    BY LookupType
  <2> QED BY <1>4, <2>1
<1>6. \A n : ~LexDeclared(<<>>, n)
  BY DEF LexDeclared
<1>7. Bound(s, w, <<>>)
  BY <1>3, <1>4, <1>5, <1>6 DEF Bound, BoundBy
<1>8. Alike(s.chain, s.gobj, s)
  BY <1>1, <1>3, <1>4 DEF Alike
<1> QED BY <1>7, <1>8 DEF s

-----------------------------------------------------------------------------
(* The runtime is on the trail of the committed cells. *)

\* The scopes between the committed cells exist, the runtime is at its place
\* among them, and the last of them is the one that was saved.
ReplayInv ==
    /\ PlaceInv
    /\ \E S : Trail(S) /\ StageInv(S[Number - 1]) /\ SavedInv(S[Len(history)])

\* While no cell is added, the trail remains.
LEMMA TrailKept ==
    ASSUME ReplayInv, UNCHANGED <<todo, history, saved, wanted>>, PlaceInv',
           \A s : StageInv(s) => StageInv(s)'
    PROVE  ReplayInv'
<1>1. PICK S : Trail(S) /\ StageInv(S[Number - 1]) /\ SavedInv(S[Len(history)])
  BY DEF ReplayInv
<1>2. PICK s : s = S[Number - 1]
  OBVIOUS
<1>3. PICK e : e = S[Len(history)]
  OBVIOUS
<1>4. StageInv(s)'
  <2>1. StageInv(s)
    BY <1>1, <1>2
  <2> QED BY <2>1
<1>5. Trail(S)'
  BY <1>1 DEF Trail
<1>6. SavedInv(e)'
  <2>1. SavedInv(e)
    BY <1>1, <1>3
  <2> QED BY <2>1 DEF SavedInv
<1>7. S[Number - 1]' = s /\ S[Len(history)]' = e
  BY <1>2, <1>3 DEF Number
<1>8. StageInv(S[Number - 1])' /\ SavedInv(S[Len(history)])'
  BY <1>4, <1>6, <1>7
<1> QED BY <1>5, <1>8 DEF ReplayInv

\* At first no cell is committed.
LEMMA ReplayInit == Init => ReplayInv
<1> SUFFICES ASSUME Init PROVE ReplayInv
  OBVIOUS
<1>1. /\ todo = <<>> /\ history = <<>> /\ ~dirty /\ phase = "idle" /\ loop = "none"
      /\ chain = NewScope.chain /\ gobj = NewScope.gobj /\ committed = NewScope.known
      /\ ~NewScope.lost /\ ~misdirected
      /\ saved = <<NewScope.chain, NewScope.gobj, NewScope.known>>
      /\ \A n \in Names : wanted[n] = Undefined
  BY DEF Init, NewScope, Fresh
<1> DEFINE S == [k \in {0} |-> NewScope]
<1>2. Len(history) = 0 /\ Number - 1 = 0 /\ S[0] = NewScope
  BY <1>1 DEF Number
<1>3. PlaceInv
  <2>1. \A i \in 1..Len(todo) : FALSE
    BY <1>1
  <2> QED BY <1>1, <2>1 DEF PlaceInv
<1>4. Trail(S)
  <2>1. \A k \in 1..Len(history) : FALSE
    BY <1>2
  <2> QED BY <1>2, <2>1 DEF Trail
<1>5. StageInv(NewScope)
  BY <1>1, BoundInit DEF StageInv, Matches
<1>6. SavedInv(NewScope)
  BY <1>1, BoundInit, GoodInit DEF SavedInv
<1>7. StageInv(S[Number - 1]) /\ SavedInv(S[Len(history)])
  BY <1>2, <1>5, <1>6
<1> HIDE DEF S
<1> QED BY <1>3, <1>4, <1>7 DEF ReplayInv

\* A submit begins, or the next step of a replay: the scope is as it was.
LEMMA BeginReplays ==
    ASSUME ScopeInv, ReplayInv, phase = "idle", NEW c, Begin(c),
           todo # <<>> => c = Head(todo)
    PROVE  ReplayInv'
<1>1. PlaceInv'
  BY DEF ReplayInv, PlaceInv, Begin
<1>2. \A s : StageInv(s) => StageInv(s)'
  BY DEF StageInv, Matches, Begin, scope
<1> QED BY <1>1, <1>2, TrailKept DEF Begin

\* A runtime that is given up need not be on the trail.
LEMMA DirtyReplays ==
    ASSUME ScopeInv, ReplayInv, Fail \/ Timeout \/ (\E c \in Cells : Refuse(c))
    PROVE  ReplayInv'
<1>1. /\ UNCHANGED <<todo, history, saved, wanted>> /\ dirty' = TRUE /\ phase' = "idle"
  BY DEF Fail, Timeout, Refuse
<1>2. PlaceInv'
  BY <1>1 DEF ReplayInv, PlaceInv
<1>3. \A s : StageInv(s) => StageInv(s)'
  BY <1>1 DEF StageInv
<1> QED BY <1>1, <1>2, <1>3, TrailKept

\* A hook is too late only on a runtime that is given up.
LEMMA LateReplays ==
    ASSUME ScopeInv, ReplayInv, HookTooLate
    PROVE  ReplayInv'
<1>1. /\ UNCHANGED <<todo, history, saved, wanted, phase, pending, cell, dirty>>
      /\ loop = "ended" /\ ~pending
  BY DEF HookTooLate
<1>2. dirty
  BY <1>1 DEF ScopeInv, Control, ReplayInv, PlaceInv, TypeOK
<1>3. PlaceInv'
  BY <1>1 DEF ReplayInv, PlaceInv
<1>4. \A s : StageInv(s) => StageInv(s)'
  BY <1>1, <1>2 DEF StageInv
<1> QED BY <1>1, <1>3, <1>4, TrailKept

\* A new runtime is at the start of the trail.
LEMMA RebuildReplays ==
    ASSUME ScopeInv, ReplayInv, Rebuild
    PROVE  ReplayInv'
<1>1. PICK S : Trail(S) /\ SavedInv(S[Len(history)])
  BY DEF ReplayInv
<1>2. /\ todo' = history /\ ~dirty' /\ phase' = "idle" /\ loop' = "none"
      /\ chain' = NewScope.chain /\ gobj' = NewScope.gobj /\ committed' = NewScope.known
      /\ ~NewScope.lost /\ UNCHANGED <<history, saved, wanted>>
  BY DEF Rebuild, NewScope, Fresh
<1>3. Len(history) \in Nat
  <2>1. history \in Seq(Cells)
    BY DEF ScopeInv, TypeOK
  <2> QED BY <2>1
<1>4. PlaceInv'
  BY <1>2, <1>3 DEF PlaceInv
<1>5. (Number - 1)' = 0
  BY <1>2, <1>3 DEF Number
<1>6. PICK e : e = S[Len(history)]
  OBVIOUS
<1>7. Trail(S)'
  BY <1>1, <1>2 DEF Trail
<1>8. SavedInv(e)'
  <2>1. SavedInv(e)
    BY <1>1, <1>6
  <2> QED BY <1>2, <2>1 DEF SavedInv
<1>9. S[Len(history)]' = e
  BY <1>2, <1>6
<1>10. PICK b : b = NewScope
  OBVIOUS
<1>11. StageInv(b)'
  <2>1. Alike(b.chain, b.gobj, b)
    <3>1. Alike(NewScope.chain, NewScope.gobj, NewScope)
      <4> DEFINE w == [n \in Names |-> Undefined]
      <4>1. \A n \in Names : w[n] = Undefined
        OBVIOUS
      <4> HIDE DEF w
      <4> QED BY <4>1, BoundInit
    <3> QED BY <1>10, <3>1
  <2> QED BY <1>2, <1>10, <2>1 DEF StageInv, Matches
<1>12. S[Number - 1]' = b
  BY <1>1, <1>5, <1>10 DEF Trail
<1>13. StageInv(S[Number - 1])' /\ SavedInv(S[Len(history)])'
  BY <1>8, <1>9, <1>11, <1>12
<1> QED BY <1>4, <1>7, <1>13 DEF ReplayInv

-----------------------------------------------------------------------------
(* The steps of the cell on the loop do what After says. *)

\* On a runtime in use the loop works for the running cell.
LEMMA InUse ==
    ASSUME ScopeInv, ~dirty, loop # "none" \/ phase = "running"
    PROVE  /\ phase = "running" /\ cell \in Cells /\ Number \in Nat /\ Number # 0
           /\ chain \in Seq(Layers) /\ gobj \in [Names -> Properties]
<1>1. TypeOK /\ Control
  BY DEF ScopeInv
<1>2. phase = "running" /\ cell \in Cells
  BY <1>1 DEF Control, TypeOK
<1>3. todo \in Seq(Cells) /\ history \in Seq(Cells) /\ Len(todo) <= Len(history)
  BY <1>1 DEF TypeOK, Control
<1>4. Len(todo) \in Nat /\ Len(history) \in Nat
  BY <1>3
<1>5. Number \in Nat /\ Number # 0
  BY <1>3, <1>4 DEF Number
<1> QED BY <1>1, <1>2, <1>5 DEF TypeOK

\* The body of the cell.
LEMMA RunBodyReplays ==
    ASSUME ScopeInv, ReplayInv, RunBody
    PROVE  ReplayInv'
<1>1. /\ UNCHANGED <<todo, history, saved, wanted, phase, pending, cell, dirty, committed>>
      /\ loop = "posted" /\ layer' = LayerOf(cell, Number)
      /\ AfterBody(cell)
  BY DEF RunBody
<1>2. PlaceInv'
  BY <1>1 DEF ReplayInv, PlaceInv
<1> DEFINE c == cell
           n == cell.write
           k == Number
           v == Value(k, n)
<1>3. \/ WritesNothing(c) /\ UNCHANGED <<chain, gobj, misdirected>>
      \/ ~WritesNothing(c) /\ c.how = "identifier" /\ Assign(n, v) /\ UNCHANGED misdirected
      \/ ~WritesNothing(c) /\ c.how = "globalThis" /\ GlobalSet(n, v)
           /\ misdirected' = (misdirected \/ StaleAccessor(n) \/ Split(n))
  <2>1. c.how = "globalThis" => c.how # "identifier"
    OBVIOUS
  <2> QED BY <2>1 DEF RunBody, WritesNothing
<1>4. ASSUME NEW s, ~dirty, Matches(s), c \in Cells
      PROVE  Matches(Body(s, c, k))'
  <2> DEFINE t == Body(s, c, k)
             j == Found(s, n)
             accessor == s.gobj[n].is = "accessor"
  <2>1. /\ t.chain = IF WritesBinding(s, c) THEN SetSlot(s.chain, j, s.chain[j].slot[n], v)
                     ELSE IF WritesObject(s, c) /\ accessor
                     THEN setPromotedStashSlotValue(s.chain, s.gobj[n].slot, v)
                     ELSE s.chain
        /\ t.gobj = IF WritesObject(s, c) /\ ~accessor
                    THEN [s.gobj EXCEPT ![n] = Data(v)] ELSE s.gobj
        /\ t.lost <=> s.lost \/ (WritesObject(s, c) /\ c.how = "globalThis" /\ Misses(s, n))
    BY DEF Body
  <2> HIDE DEF t
  <2>2. c.how \in {"identifier", "globalThis"}
    BY <1>4, ScopeAssumption
  <2>3. misdirected => misdirected'
    BY <1>3
  <2>4. (s.lost => misdirected) /\ (~s.lost => chain = s.chain /\ gobj = s.gobj)
    BY <1>4 DEF Matches
  <2>5. ASSUME t.lost PROVE misdirected'
    <3>1. CASE s.lost
      BY <2>3, <2>4, <3>1
    <3>2. CASE ~s.lost
      <4>1. WritesObject(s, c) /\ c.how = "globalThis" /\ Misses(s, n)
        BY <2>1, <2>5, <3>2
      <4>2. ~WritesNothing(c) /\ c.how # "identifier"
        BY <4>1 DEF WritesObject
      <4>3. misdirected' = (misdirected \/ StaleAccessor(n) \/ Split(n))
        BY <1>3, <4>2
      <4>4. chain = s.chain /\ gobj = s.gobj
        BY <2>4, <3>2
      <4>5. StaleAccessor(n) \/ Split(n)
        BY <4>1, <4>4 DEF Misses, StaleAccessor, Split, Found, Top
      <4> QED BY <4>3, <4>5
    <3> QED BY <3>1, <3>2
  <2>6. ASSUME ~t.lost PROVE chain' = t.chain /\ gobj' = t.gobj
    <3>1. chain = s.chain /\ gobj = s.gobj
      BY <2>1, <2>4, <2>6
    <3>2. CASE WritesNothing(c)
      <4>1. ~WritesBinding(s, c) /\ ~WritesObject(s, c)
        BY <3>2 DEF WritesBinding, WritesObject
      <4>2. chain' = chain /\ gobj' = gobj
        BY <1>3, <3>2
      <4> QED BY <2>1, <3>1, <4>1, <4>2
    <3>3. CASE WritesBinding(s, c)
      <4>1. ~WritesNothing(c) /\ c.how = "identifier" /\ j # 0 /\ ~WritesObject(s, c)
        BY <3>3 DEF WritesBinding, WritesObject
      <4>2. Assign(n, v)
        BY <1>3, <4>1
      <4>3. Lookup(chain, Len(chain), n) = j
        BY <3>1 DEF Found
      <4> HIDE DEF j, v, n
      <4>4. chain' = SetSlot(chain, j, chain[j].slot[n], v) /\ gobj' = gobj
        BY <4>1, <4>2, <4>3 DEF Assign, SetSlot
      <4> QED BY <2>1, <3>1, <3>3, <4>1, <4>4
    <3>4. CASE WritesObject(s, c)
      <4>1. ~WritesNothing(c) /\ ~WritesBinding(s, c)
        BY <3>4 DEF WritesObject
      <4>2. Lookup(chain, Len(chain), n) = j
        BY <3>1 DEF Found
      <4>3. GlobalSet(n, v)
        <5>1. CASE c.how = "globalThis"
          <6>1. c.how # "identifier"
            BY <5>1
          <6> QED BY <1>3, <4>1, <6>1
        <5>2. CASE c.how = "identifier"
          <6>1. j = 0
            BY <4>1, <5>2 DEF WritesBinding
          <6>2. Assign(n, v)
            BY <1>3, <4>1, <5>2
          <6> QED BY <4>2, <6>1, <6>2 DEF Assign
        <5> QED BY <2>2, <5>1, <5>2
      <4> QED BY <2>1, <3>1, <3>4, <4>1, <4>3 DEF GlobalSet
    <3> QED BY <3>2, <3>3, <3>4 DEF WritesObject
  <2>7. PICK b : b = t
    OBVIOUS
  <2>8. Matches(b)'
    <3>1. TypeOK /\ Alike(chain, gobj, s) /\ k \in Nat
      BY <1>1, <1>4, InUse DEF ScopeInv, Matches
    <3> HIDE DEF k
    <3>2. Alike(chain', gobj', Body(s, c, k))
      BY <1>3, <1>4, <3>1, BodyAlike
    <3>3. Alike(chain', gobj', b)
      BY <2>7, <3>2 DEF t
    <3> QED BY <2>5, <2>6, <2>7, <3>3 DEF Matches
  <2>9. t' = b
    <3>1. cell' = cell /\ Number' = Number
      BY <1>1 DEF Number
    <3> QED BY <2>7, <3>1 DEF t
  <2>10. Matches(t)'
    BY <2>8, <2>9
  <2> QED BY <2>10 DEF t
<1>5. ASSUME NEW s, StageInv(s) PROVE StageInv(s)'
  <2>1. CASE dirty
    BY <1>1, <2>1 DEF StageInv
  <2>2. CASE ~dirty
    <3>1. Matches(s) /\ committed = s.known
      BY <1>1, <1>5, <2>2 DEF StageInv
    <3>2. c \in Cells /\ phase = "running" /\ out = "none"
      BY <1>1, <2>2, InUse DEF ScopeInv, Control
    <3>3. PICK b : b = Body(s, c, k)
      OBVIOUS
    <3>4. Body(s, c, k)' = b /\ Number' = Number /\ cell' = cell
      <4>1. cell' = cell /\ Number' = Number
        BY <1>1 DEF Number
      <4> QED BY <3>3, <4>1
    <3>5. Matches(Body(s, c, k))'
      BY <1>4, <2>2, <3>1, <3>2
    <3>6. Matches(b)'
      BY <3>4, <3>5
    <3>7. \/ loop' = "none" /\ out' # "ok"
          \/ loop' = "none" /\ cell.ends = "returns"
          \/ loop' = "ended" /\ cell.ends # "returns"
      BY <1>1, <3>2 DEF AfterBody
    <3>8. cell.ends = "returns" => Run(s, cell, Number)' = b
      BY <3>3, <3>4 DEF Run
    <3>9. (committed = s.known)' /\ ~(loop = "posted")' /\ ~(loop = "bridging")'
          /\ (phase = "running")' /\ ~(phase = "idle")'
      BY <1>1, <3>1, <3>2, <3>7
    <3>10. (layer = LayerOf(cell, Number))'
      BY <1>1, <3>4
    <3>11. (loop = "ended" => Matches(Body(s, cell, Number)) /\ cell.ends # "returns")'
      BY <3>4, <3>5, <3>7
    <3>12. (loop = "none" /\ out = "ok" => Matches(Run(s, cell, Number)))'
      <4> SUFFICES ASSUME (loop = "none" /\ out = "ok")' PROVE Matches(Run(s, cell, Number))'
        OBVIOUS
      <4>1. Run(s, cell, Number)' = b
        BY <3>7, <3>8
      <4> QED BY <3>6, <4>1
    <3> QED BY <3>9, <3>10, <3>11, <3>12 DEF StageInv
  <2> QED BY <2>1, <2>2
<1> HIDE DEF c, n, k, v
<1> QED BY <1>1, <1>2, <1>5, TrailKept

-----------------------------------------------------------------------------
(* The hook. *)

\* The scope of the cell is promoted, and no name is bridged yet.
LEMMA CommitHookReplays ==
    ASSUME ScopeInv, ReplayInv, CommitHook
    PROVE  ReplayInv'
<1>1. /\ UNCHANGED <<todo, history, saved, wanted, phase, pending, cell, dirty, committed,
                     gobj, misdirected>>
      /\ loop = "ended" /\ loop' = "bridging"
  BY DEF CommitHook
<1>2. PlaceInv'
  BY <1>1 DEF ReplayInv, PlaceInv
<1>3. ASSUME NEW s, StageInv(s) PROVE StageInv(s)'
  <2>1. CASE dirty
    BY <1>1, <2>1 DEF StageInv
  <2>2. CASE ~dirty
    <3>1. /\ phase = "running" /\ cell \in Cells
          /\ chain \in Seq(Layers) /\ gobj \in [Names -> Properties]
      BY <1>1, <2>2, InUse
    <3>2. /\ Matches(Body(s, cell, Number)) /\ layer = LayerOf(cell, Number)
          /\ cell.ends # "returns" /\ committed = s.known
      BY <1>1, <1>3, <2>2, <3>1 DEF StageInv
    <3>3. PICK b : b = Body(s, cell, Number)
      OBVIOUS
    <3>4. PICK t : t = Bridge(Promote(b, cell, Number), {})
      OBVIOUS
    <3>5. VarsOf(cell) \ bridge' = {} /\ bridge' \subseteq VarsOf(cell)
      <4>1. CASE cell.decls = <<>>
        <5>1. bridge' = {}
          BY <1>1, <4>1 DEF CommitHook, ScopeInv, Control
        <5> QED BY <3>1, <4>1, <5>1, NothingDeclared
      <4>2. CASE cell.decls # <<>>
        BY <4>2 DEF CommitHook, VarsOf
      <4> QED BY <4>1, <4>2
    <3>6. /\ t.chain = (IF cell.decls = <<>> THEN b.chain ELSE Append(b.chain, layer))
          /\ t.gobj = [n \in Names |-> b.gobj[n]]
          /\ t.lost <=> b.lost
          /\ t.binds = (IF cell.decls = <<>> THEN b.binds ELSE Append(b.binds, layer))
          /\ t.props = [n \in Names |-> b.props[n]]
      <4> DEFINE p == Promote(b, cell, Number)
      <4>1. /\ p.chain = (IF cell.decls = <<>> THEN b.chain ELSE Append(b.chain, layer))
            /\ p.gobj = b.gobj /\ p.lost = b.lost
            /\ p.binds = (IF cell.decls = <<>> THEN b.binds ELSE Append(b.binds, layer))
            /\ p.props = b.props
        BY <3>2 DEF Promote
      <4> HIDE DEF p
      <4>2. t = Bridge(p, {})
        BY <3>4 DEF p
      <4> QED BY <4>1, <4>2 DEF Bridge
    <3>7. (b.lost => misdirected) /\ (~b.lost => chain = b.chain /\ gobj = b.gobj)
      BY <3>2, <3>3 DEF Matches
    <3>8. ~b.lost => chain' = t.chain /\ gobj' = t.gobj
      <4> SUFFICES ASSUME ~b.lost PROVE chain' = t.chain /\ gobj' = t.gobj
        OBVIOUS
      <4>1. chain' = t.chain
        BY <3>6, <3>7 DEF CommitHook, promoteCurrentWrapperStash
      <4>2. gobj' = [n \in Names |-> b.gobj[n]]
        BY <1>1, <3>1, <3>7
      <4> QED BY <3>6, <4>1, <4>2
    <3>9. Matches(t)'
      <4>1. Alike(chain, gobj, b) /\ layer \in Layers
        BY <3>2, <3>3 DEF Matches, ScopeInv, TypeOK
      <4>2. gobj' = gobj
            /\ chain' = IF cell.decls = <<>> THEN chain ELSE Append(chain, layer)
        BY <1>1 DEF CommitHook, promoteCurrentWrapperStash
      <4>3. t.props = b.props
        BY <3>6, <4>1 DEF Alike
      <4>4. Alike(chain', gobj', t)
        BY <3>6, <4>1, <4>2, <4>3 DEF Alike
      <4> QED BY <1>1, <3>6, <3>7, <3>8, <4>4 DEF Matches
    <3>10. Bridge(Promote(Body(s, cell, Number), cell, Number), VarsOf(cell) \ bridge)' = t
      <4>1. cell' = cell /\ Number' = Number
        BY <1>1 DEF Number
      <4> QED BY <3>3, <3>4, <3>5, <4>1
    <3>11. Matches(Bridge(Promote(Body(s, cell, Number), cell, Number),
                          VarsOf(cell) \ bridge))'
      BY <3>9, <3>10
    <3>12. (committed = s.known)' /\ (loop = "bridging")' /\ (phase = "running")'
      BY <1>1, <3>1, <3>2
    <3>13. (bridge \subseteq VarsOf(cell) /\ cell.ends # "returns")'
      BY <1>1, <3>2, <3>5
    <3> QED BY <3>11, <3>12, <3>13 DEF StageInv
  <2> QED BY <2>1, <2>2
<1> QED BY <1>1, <1>2, <1>3, TrailKept

\* Writing the value a layer has changes nothing.
LEMMA WriteSame ==
    ASSUME NEW ch \in Seq(Layers), NEW i, i \in DOMAIN ch[Len(ch)].vals, ch # <<>>
    PROVE  setPromotedStashSlotValue(ch, i, promotedStashSlotValue(ch, i)) = ch
<1> DEFINE N == Len(ch)
           l == ch[N]
           v == l.vals[i]
<1>1. N \in 1..N
  BY EmptySeq
<1>2. l \in Layers
  BY <1>1
<1>3. l.vals \in Seq(Values) /\ l = [kind |-> l.kind, slot |-> l.slot, vals |-> l.vals]
  BY <1>2 DEF Layers
<1>4. [l.vals EXCEPT ![i] = v] = l.vals
  BY <1>3
<1>5. promotedStashSlotValue(ch, i) = v
  BY DEF promotedStashSlotValue
<1>6. setPromotedStashSlotValue(ch, i, v) = [ch EXCEPT ![N].vals = [@ EXCEPT ![i] = v]]
  BY DEF setPromotedStashSlotValue
<1>7. [ch EXCEPT ![N].vals = [@ EXCEPT ![i] = v]] = [ch EXCEPT ![N] = [l EXCEPT !.vals = l.vals]]
  BY <1>4
<1>8. [l EXCEPT !.vals = l.vals] = l
  BY <1>3
<1>9. [ch EXCEPT ![N] = l] = ch
  BY <1>1
<1> QED BY <1>5, <1>6, <1>7, <1>8, <1>9

\* A name that is bridged keeps its property, or gets an accessor to its slot.
LEMMA BridgeAlike ==
    ASSUME TypeOK, chain # <<>>, NEW u, Alike(chain, gobj, u), NEW n \in Names,
           LET idx == chain[Len(chain)].slot[n]
           IN  \/ /\ gobj[n].is # "absent"
                  /\ GlobalSet(n, promotedStashSlotValue(chain, idx))
               \/ /\ gobj[n].is = "absent" /\ gobj' = [gobj EXCEPT ![n] = Accessor(idx)]
                  /\ UNCHANGED chain,
           NEW p, p.binds = u.binds, p.props[n] = u.props[n],
           NEW t, t.binds = u.binds, t.props = [u.props EXCEPT ![n] = Kept(p, n)]
    PROVE  Alike(chain', gobj', t)
<1> DEFINE N == Len(chain)
           idx == chain[N].slot[n]
           v == promotedStashSlotValue(chain, idx)
<1>1. /\ u.binds \in Seq(Layers) /\ Len(u.binds) = N /\ u.binds[N].slot = chain[N].slot
      /\ u.props \in [Names -> Properties] /\ gobj \in [Names -> Properties]
      /\ \A m \in Names : u.props[m].is = gobj[m].is /\ u.props[m].slot = gobj[m].slot
      /\ chain \in Seq(Layers)
  <2>1. chain \in Seq(Layers)
    BY DEF TypeOK
  <2>2. N \in 1..N
    BY <2>1, EmptySeq
  <2> QED BY <2>1, <2>2 DEF Alike, TypeOK
<1>2. v \in Values
  BY <1>1, SlotValueType
<1>3. CASE gobj[n].is # "absent"
  <2>1. GlobalSet(n, v)
    BY <1>3
  <2>2. Kept(p, n) = IF u.props[n].is # "accessor" THEN Data(Undefined) ELSE u.props[n]
    BY <1>1, <1>3 DEF Kept
  <2>3. [u.props EXCEPT ![n] = u.props[n]] = u.props
    BY <1>1
  <2>4. t.props = IF u.props[n].is # "accessor"
                  THEN [u.props EXCEPT ![n] = Data(Undefined)] ELSE u.props
    BY <2>2, <2>3
  <2> HIDE DEF v
  <2> QED BY <1>2, <2>1, <2>4, GlobalSetAlike
<1>4. CASE gobj[n].is = "absent"
  <2> DEFINE a == Accessor(idx)
  <2>1. gobj' = [gobj EXCEPT ![n] = a] /\ chain' = chain
    BY <1>4
  <2>2. Kept(p, n) = a
    BY <1>1, <1>4 DEF Kept
  <2>3. a \in Properties
    <3>1. chain[N] \in Layers
      BY <1>1, EmptySeq
    <3>2. idx \in Nat
      BY <3>1 DEF Layers
    <3> QED BY <3>2 DEF Accessor, Properties, Undefined, Values
  <2> HIDE DEF a
  <2>4. t.props \in [Names -> Properties]
        /\ \A m \in Names : t.props[m].is = gobj'[m].is /\ t.props[m].slot = gobj'[m].slot
    BY <1>1, <2>1, <2>2, <2>3
  <2> QED BY <1>1, <2>1, <2>4, SameAlike DEF SameBindings
<1> QED BY <1>3, <1>4

\* One name is bridged.
LEMMA BridgeNameReplays ==
    ASSUME ScopeInv, ReplayInv, NEW n \in Names, BridgeName(n)
    PROVE  ReplayInv'
<1>1. /\ UNCHANGED <<todo, history, saved, wanted, phase, pending, cell, dirty, committed,
                     loop>>
      /\ loop = "bridging" /\ n \in bridge /\ bridge' = bridge \ {n}
  BY DEF BridgeName
<1>2. PlaceInv'
  BY <1>1 DEF ReplayInv, PlaceInv
<1> DEFINE idx == chain[Len(chain)].slot[n]
           v == promotedStashSlotValue(chain, idx)
<1>3. \/ /\ gobj[n].is # "absent" /\ GlobalSet(n, v)
         /\ misdirected' = (misdirected \/ StaleAccessor(n))
      \/ /\ gobj[n].is = "absent" /\ gobj' = [gobj EXCEPT ![n] = Accessor(idx)]
         /\ UNCHANGED <<chain, misdirected>>
  BY DEF BridgeName
<1>4. chain # <<>>
  BY <1>1 DEF ScopeInv, Control
<1>5. ASSUME NEW p, NEW N, n \notin N, ~dirty, Matches(Bridge(p, N)), NEW t,
             t = Bridge(p, N \cup {n})
      PROVE  Matches(t)'
  <2>1. PICK u : u = Bridge(p, N)
    OBVIOUS
  <2>2. /\ u.chain = p.chain /\ t.chain = p.chain
        /\ u.gobj = [m \in Names |-> IF m \in N THEN Property(p, m) ELSE p.gobj[m]]
        /\ t.gobj = [m \in Names |-> IF m \in N \/ m = n THEN Property(p, m) ELSE p.gobj[m]]
        /\ t.lost <=> u.lost \/ Stale(p, n)
    BY <1>5, <2>1 DEF Bridge
  <2>3. (u.lost => misdirected) /\ (~u.lost => chain = u.chain /\ gobj = u.gobj)
    BY <1>5, <2>1 DEF Matches
  <2>4. misdirected => misdirected'
    BY <1>3
  <2>5. ~u.lost => gobj[n] = p.gobj[n] /\ chain = p.chain /\ idx = Top(p).slot[n]
    BY <1>5, <2>2, <2>3 DEF Top
  <2>6. ASSUME ~u.lost, Stale(p, n) PROVE misdirected'
    <3>1. gobj[n].is = "accessor" /\ StaleAccessor(n)
      BY <2>5, <2>6 DEF Stale, StaleAccessor, Top
    <3> QED BY <1>3, <3>1
  <2>7. ASSUME ~u.lost, ~Stale(p, n) PROVE chain' = t.chain /\ gobj' = t.gobj
    <3>1. /\ chain \in Seq(Layers) /\ gobj \in [Names -> Properties]
          /\ gobj[n] = p.gobj[n] /\ chain = p.chain /\ idx = Top(p).slot[n] /\ gobj = u.gobj
      BY <1>1, <1>5, <2>3, <2>5, <2>7, InUse
    <3>2. t.gobj = [gobj EXCEPT ![n] = Property(p, n)]
      BY <2>2, <3>1
    <3>3. CASE gobj[n].is = "absent"
      BY <1>3, <2>2, <3>1, <3>2, <3>3 DEF Property
    <3>4. CASE gobj[n].is = "accessor"
      <4>1. chain' = setPromotedStashSlotValue(chain, gobj[n].slot, v) /\ gobj' = gobj
        BY <1>3, <3>4 DEF GlobalSet
      <4>2. gobj[n].slot = idx
        BY <2>7, <3>1, <3>4 DEF Stale
      <4>3. chain' = chain
        <5>1. CASE idx \in DOMAIN chain[Len(chain)].vals
          <6> HIDE DEF idx
          <6> QED BY <1>4, <3>1, <4>1, <4>2, <5>1, WriteSame DEF v
        <5>2. CASE idx \notin DOMAIN chain[Len(chain)].vals
          BY <4>1, <4>2, <5>2 DEF setPromotedStashSlotValue
        <5> QED BY <5>1, <5>2
      <4>4. Property(p, n) = gobj[n]
        BY <3>1, <3>4 DEF Property
      <4>5. [gobj EXCEPT ![n] = gobj[n]] = gobj
        BY <3>1
      <4> QED BY <2>2, <3>1, <3>2, <4>1, <4>3, <4>4, <4>5
    <3>5. CASE gobj[n].is \notin {"absent", "accessor"}
      <4>1. chain' = chain /\ gobj' = [gobj EXCEPT ![n] = Data(v)]
        BY <1>3, <3>5 DEF GlobalSet
      <4>2. Property(p, n) = Data(v)
        BY <3>1, <3>5 DEF Property
      <4> QED BY <2>2, <3>1, <3>2, <4>1, <4>2
    <3> QED BY <3>3, <3>4, <3>5
  <2>8. Alike(chain', gobj', t)
    <3>1. Alike(chain, gobj, u)
      BY <1>5, <2>1 DEF Matches
    <3>2. t.binds = u.binds /\ p.binds = u.binds /\ p.props[n] = u.props[n]
          /\ t.props = [u.props EXCEPT ![n] = Kept(p, n)]
      <4>1. /\ u.binds = p.binds /\ t.binds = p.binds
            /\ u.props = [m \in Names |-> IF m \in N THEN Kept(p, m) ELSE p.props[m]]
            /\ t.props = [m \in Names |-> IF m \in N \/ m = n THEN Kept(p, m)
                                          ELSE p.props[m]]
        BY <1>5, <2>1 DEF Bridge
      <4> QED BY <1>5, <4>1
    <3> QED BY <1>1, <1>3, <1>4, <1>5, <3>1, <3>2, BridgeAlike, InUse DEF ScopeInv
  <2> QED BY <2>2, <2>3, <2>4, <2>6, <2>7, <2>8 DEF Matches
<1>6. ASSUME NEW s, StageInv(s) PROVE StageInv(s)'
  <2>1. CASE dirty
    BY <1>1, <2>1 DEF StageInv
  <2>2. CASE ~dirty
    <3>1. phase = "running" /\ cell \in Cells
      BY <1>1, <2>2, InUse
    <3>2. /\ Matches(Bridge(Promote(Body(s, cell, Number), cell, Number),
                            VarsOf(cell) \ bridge))
          /\ bridge \subseteq VarsOf(cell) /\ cell.ends # "returns" /\ committed = s.known
      BY <1>1, <1>6, <2>2, <3>1 DEF StageInv
    <3>3. PICK p : p = Promote(Body(s, cell, Number), cell, Number)
      OBVIOUS
    <3>4. PICK N : N = VarsOf(cell) \ bridge
      OBVIOUS
    <3>5. n \notin N /\ VarsOf(cell) \ bridge' = N \cup {n}
      BY <1>1, <3>2, <3>4
    <3>6. PICK t : t = Bridge(p, N \cup {n})
      OBVIOUS
    <3>7. Matches(Bridge(p, N))
      BY <3>2, <3>3, <3>4
    <3>8. Matches(t)'
      BY <1>5, <2>2, <3>5, <3>6, <3>7
    <3>9. Bridge(Promote(Body(s, cell, Number), cell, Number), VarsOf(cell) \ bridge)' = t
      <4>1. cell' = cell /\ Number' = Number
        BY <1>1 DEF Number
      <4> QED BY <3>3, <3>5, <3>6, <4>1
    <3>10. Matches(Bridge(Promote(Body(s, cell, Number), cell, Number),
                          VarsOf(cell) \ bridge))'
      BY <3>8, <3>9
    <3>11. (committed = s.known)' /\ (loop = "bridging")' /\ (phase = "running")'
      BY <1>1, <3>1, <3>2
    <3>12. (bridge \subseteq VarsOf(cell) /\ cell.ends # "returns")'
      BY <1>1, <3>2
    <3> QED BY <3>10, <3>11, <3>12 DEF StageInv
  <2> QED BY <2>1, <2>2
<1> HIDE DEF idx, v
<1> QED BY <1>1, <1>2, <1>6, TrailKept

\* All names are bridged: the cell has run.
LEMMA HookReturnsReplays ==
    ASSUME ScopeInv, ReplayInv, HookReturns
    PROVE  ReplayInv'
<1>1. /\ UNCHANGED <<chain, gobj, committed, todo, history, saved, wanted, phase, pending,
                     cell, dirty, misdirected>>
      /\ loop = "bridging" /\ bridge = {} /\ loop' = "none"
  BY DEF HookReturns, scope
<1>2. PlaceInv'
  BY <1>1 DEF ReplayInv, PlaceInv
<1>3. ASSUME NEW s, StageInv(s) PROVE StageInv(s)'
  <2>1. CASE dirty
    BY <1>1, <2>1 DEF StageInv
  <2>2. CASE ~dirty
    <3>1. phase = "running"
      BY <1>1, <2>2, InUse
    <3>2. /\ Matches(Bridge(Promote(Body(s, cell, Number), cell, Number),
                            VarsOf(cell) \ bridge))
          /\ cell.ends # "returns" /\ committed = s.known
      BY <1>1, <1>3, <2>2, <3>1 DEF StageInv
    <3>3. PICK t : t = Run(s, cell, Number)
      OBVIOUS
    <3>4. VarsOf(cell) \ bridge = VarsOf(cell)
      BY <1>1
    <3>5. Matches(t)
      BY <3>2, <3>3, <3>4 DEF Run
    <3>6. Matches(t)'
      BY <1>1, <3>5 DEF Matches
    <3>7. Run(s, cell, Number)' = t
      <4>1. cell' = cell /\ Number' = Number
        BY <1>1 DEF Number
      <4> QED BY <3>3, <4>1
    <3>8. Matches(Run(s, cell, Number))'
      BY <3>6, <3>7
    <3>9. (committed = s.known)' /\ (loop = "none")' /\ (phase = "running")'
      BY <1>1, <3>1, <3>2
    <3> QED BY <3>8, <3>9 DEF StageInv
  <2> QED BY <2>1, <2>2
<1> QED BY <1>1, <1>2, <1>3, TrailKept

-----------------------------------------------------------------------------
(* The cell has run. *)

\* The outcome is taken: the runtime is one cell further on the trail, or the
\* trail is one cell longer.
LEMMA SucceedReplays ==
    ASSUME ScopeInv, ReplayInv, Succeed
    PROVE  ReplayInv'
<1> DEFINE N == Len(history)
           k == Number
<1>1. /\ phase = "running" /\ out = "ok" /\ phase' = "idle" /\ ~dirty
      /\ committed' = commitDeclarations(cell)
      /\ UNCHANGED <<chain, gobj, cell, loop, dirty, misdirected>>
      /\ loop = "none"
  BY DEF Succeed, ScopeInv, Control
<1>2. /\ cell \in Cells /\ k \in Nat /\ k # 0
      /\ chain \in Seq(Layers) /\ gobj \in [Names -> Properties]
  BY <1>1, InUse
<1>3. todo \in Seq(Cells) /\ history \in Seq(Cells)
  BY DEF ScopeInv, TypeOK
<1>4. N \in Nat /\ Len(todo) \in Nat /\ Len(todo) <= N
  BY <1>3 DEF ScopeInv, Control
<1>5. PICK S : Trail(S) /\ StageInv(S[k - 1]) /\ SavedInv(S[N])
  BY DEF ReplayInv
<1>6. PICK s : s = S[k - 1]
  OBVIOUS
<1>7. PICK t : t = After(s, cell, k)
  OBVIOUS
<1>8. Matches(Run(s, cell, k)) /\ committed = s.known
  <2>1. StageInv(s)
    BY <1>5, <1>6
  <2> QED BY <1>1, <2>1 DEF StageInv
<1>9. /\ t.chain = Run(s, cell, k).chain /\ t.gobj = Run(s, cell, k).gobj
      /\ t.lost = Run(s, cell, k).lost /\ t.known = Recorded(s.known, cell)
      /\ t.binds = Run(s, cell, k).binds /\ t.props = Run(s, cell, k).props
  BY <1>7 DEF After
<1>10. committed' = t.known
  BY <1>1, <1>8, <1>9 DEF commitDeclarations, Recorded
<1>11. (t.lost => misdirected) /\ (~t.lost => chain = t.chain /\ gobj = t.gobj)
  BY <1>8, <1>9 DEF Matches
<1>12. Alike(chain, gobj, t) /\ StageInv(t)'
  <2>1. Alike(chain, gobj, t)
    BY <1>8, <1>9 DEF Matches, Alike
  <2> QED BY <1>1, <1>10, <1>11, <2>1 DEF StageInv, Matches
<1>13. CASE todo # <<>>
  <2>1. todo' = Tail(todo) /\ UNCHANGED <<history, saved, wanted>>
    BY <1>13 DEF Succeed
  <2>2. /\ Len(Tail(todo)) = Len(todo) - 1 /\ Len(todo) >= 1 /\ Head(todo) = todo[1]
        /\ \A i \in 1..Len(Tail(todo)) : Tail(todo)[i] = todo[i + 1]
    BY <1>3, <1>13, HeadTailProperties, EmptySeq
  <2>3. \A i \in 1..Len(todo) : todo[i] = history[N - Len(todo) + i]
    BY DEF ReplayInv, PlaceInv
  <2>4. k \in 1..N /\ Number' = k + 1
    <3> DEFINE L == Len(todo)
    <3>1. /\ k = N - L + 1 /\ Number' = N - (L - 1) + 1
          /\ L \in Nat /\ L <= N /\ L >= 1
      BY <1>4, <2>1, <2>2 DEF Number
    <3> HIDE DEF k, L, N
    <3>2. N \in Nat
      BY <1>4
    <3> QED BY <3>1, <3>2
  <2>5. cell = history[k]
    <3>1. cell = todo[1]
      BY <1>1, <1>13, <2>2 DEF ReplayInv, PlaceInv
    <3>2. todo[1] = history[N - Len(todo) + 1]
      BY <1>4, <2>2, <2>3
    <3> QED BY <3>1, <3>2 DEF Number
  <2>6. PlaceInv'
    <3>1. \A i \in 1..Len(todo') : todo'[i] = history[N - Len(todo') + i]
      <4> TAKE i \in 1..Len(todo')
      <4>1. i \in 1..(Len(todo) - 1) /\ Len(todo') = Len(todo) - 1
        BY <2>1, <2>2
      <4>2. i + 1 \in 1..Len(todo)
        BY <1>4, <4>1
      <4>3. todo'[i] = history[N - Len(todo) + (i + 1)]
        BY <2>1, <2>2, <2>3, <4>1, <4>2
      <4>4. N - Len(todo) + (i + 1) = N - Len(todo') + i
        BY <1>4, <4>1
      <4> QED BY <4>3, <4>4
    <3> QED BY <1>1, <2>1, <3>1 DEF PlaceInv
  <2>7. S[k] = t
    BY <1>5, <1>6, <1>7, <2>4, <2>5 DEF Trail
  <2>8. Trail(S)'
    BY <1>5, <2>1 DEF Trail
  <2>9. PICK e : e = S[N]
    OBVIOUS
  <2>10. SavedInv(e)'
    <3>1. SavedInv(e)
      BY <1>5, <2>9
    <3> QED BY <2>1, <3>1 DEF SavedInv
  <2>11. S[Len(history)]' = e
    BY <2>1, <2>9
  <2>12. S[Number - 1]' = t
    <3>1. Number' - 1 = k
      BY <1>2, <2>4
    <3> QED BY <2>7, <3>1
  <2>13. StageInv(S[Number - 1])' /\ SavedInv(S[Len(history)])'
    BY <1>12, <2>10, <2>11, <2>12
  <2> QED BY <2>6, <2>8, <2>13 DEF ReplayInv
<1>14. CASE todo = <<>>
  <2>1. /\ todo' = <<>> /\ history' = Append(history, cell)
        /\ saved' = <<chain, gobj, committed'>> /\ wanted' = WantedAfter(cell)
    BY <1>14 DEF Succeed
  <2>2. /\ history' \in Seq(Cells) /\ Len(history') = N + 1 /\ history'[N + 1] = cell
        /\ \A i \in 1..N : history'[i] = history[i]
    BY <1>2, <1>3, <2>1, AppendProperties
  <2>3. k = N + 1 /\ Number' = N + 2
    <3>1. Len(todo) = 0 /\ Len(todo') = 0
      BY <1>14, <2>1
    <3> QED BY <1>4, <2>2, <3>1 DEF Number
  <2> DEFINE S2 == [i \in 0..(N + 1) |-> IF i = N + 1 THEN t ELSE S[i]]
  <2>4. S2[N + 1] = t /\ \A i \in 0..N : S2[i] = S[i]
    BY <1>4
  <2> HIDE DEF S2
  <2>5. PlaceInv'
    <3>1. \A i \in 1..Len(todo') : FALSE
      BY <2>1
    <3> QED BY <1>1, <3>1 DEF PlaceInv
  <2>6. PICK T : T = S2
    OBVIOUS
  <2>7. Trail(T)'
    <3>1. T[0] = NewScope
      BY <1>4, <1>5, <2>4, <2>6 DEF Trail
    <3>2. ASSUME NEW i \in 1..(N + 1) PROVE T[i] = After(T[i - 1], history'[i], i)
      <4>1. CASE i = N + 1
        <5>1. T[i] = t /\ T[i - 1] = S[N]
          BY <1>4, <2>4, <2>6, <4>1
        <5>2. k - 1 = N /\ i = k
          BY <1>4, <2>3, <4>1
        <5> HIDE DEF k, N
        <5>3. s = S[N]
          BY <1>6, <5>2
        <5>4. history'[i] = cell
          BY <2>2, <4>1
        <5> QED BY <1>7, <5>1, <5>2, <5>3, <5>4
      <4>2. CASE i # N + 1
        <5>1. i \in 1..N /\ i - 1 \in 0..N /\ i \in 0..N
          BY <1>4, <4>2
        <5>2. S[i] = After(S[i - 1], history[i], i)
          BY <1>5, <5>1 DEF Trail
        <5> QED BY <2>2, <2>4, <2>6, <5>1, <5>2
      <4> QED BY <4>1, <4>2
    <3> QED BY <2>2, <3>1, <3>2 DEF Trail
  <2>8. SavedInv(t)'
    <3>1. saved' = <<chain, gobj, t.known>>
      BY <1>10, <2>1
    <3>2. s = S[N]
      <4>1. k - 1 = N
        BY <1>4, <2>3
      <4> HIDE DEF k, N
      <4> QED BY <1>6, <4>1
    <3>3. ASSUME NEW n \in Names
          PROVE  wanted'[n] = IF (n \in Declared(cell) /\ cell.ends # "returns")
                                   \/ Writes(history, cell, n)
                              THEN Value(k, n) ELSE wanted[n]
      <4>1. Assigned(cell, n) <=> Writes(history, cell, n)
        BY DEF Assigned, Writes, LexicallyDeclared, LexDeclared
      <4>2. wanted' = [m \in Names |-> IF (m \in Declared(cell) /\ cell.ends # "returns")
                                            \/ Assigned(cell, m)
                                       THEN Value(k, m) ELSE wanted[m]]
        BY <2>1 DEF WantedAfter
      <4> QED BY <4>1, <4>2
    <3>4. Bound(t, wanted', history')
      <4>1. Bound(s, wanted, history)
        BY <1>5, <3>2 DEF SavedInv
      <4> HIDE DEF k
      <4>2. Bound(After(s, cell, k), wanted', Append(history, cell))
        BY <1>2, <1>3, <3>3, <4>1, BoundStep
      <4> QED BY <1>7, <2>1, <4>2
    <3>5. ASSUME ~t.lost PROVE Good(t, wanted', history')
      <4>1. ~s.lost
        <5>1. Body(s, cell, k).lost => Run(s, cell, k).lost
          <6> DEFINE b == Body(s, cell, k)
          <6>1. Run(s, cell, k) = IF cell.ends = "returns" THEN b
                                  ELSE Bridge(Promote(b, cell, k), VarsOf(cell))
            BY DEF Run
          <6> HIDE DEF b
          <6>2. b.lost => Bridge(Promote(b, cell, k), VarsOf(cell)).lost
            BY DEF Bridge, Promote
          <6> QED BY <6>1, <6>2 DEF b
        <5>2. s.lost => Body(s, cell, k).lost
          BY DEF Body
        <5> QED BY <1>9, <3>5, <5>1, <5>2
      <4>2. Good(s, wanted, history)
        BY <1>5, <3>2, <4>1 DEF SavedInv
      <4>3. Allowed(s.known, cell)
        <5>1. validateRedeclarations(cell) /\ cell \in AnyCell
          BY <1>1, <1>2 DEF ScopeInv, Validated, AnyCell
        <5>2. Allowed(committed, cell)
          BY <5>1, Validates DEF Allowed
        <5> QED BY <1>8, <5>2
      <4> HIDE DEF k
      <4>4. ~After(s, cell, k).lost
        BY <1>7, <3>5
      <4>5. Good(After(s, cell, k), wanted', Append(history, cell))
        BY <1>2, <1>3, <3>3, <4>2, <4>3, <4>4, GoodStep
      <4> QED BY <1>7, <2>1, <4>5
    <3>6. ~t.lost => saved' = <<t.chain, t.gobj, t.known>>
      BY <1>11, <3>1
    <3>7. Alike(saved'[1], saved'[2], t) /\ saved'[3] = t.known
      BY <1>12, <3>1
    <3> QED BY <3>4, <3>5, <3>6, <3>7 DEF SavedInv
  <2>9. T[Number - 1]' = t /\ T[Len(history)]' = t
    <3>1. Number' - 1 = N + 1 /\ Len(history') = N + 1
      BY <1>4, <2>2, <2>3
    <3> QED BY <2>4, <2>6, <3>1
  <2>10. StageInv(T[Number - 1])' /\ SavedInv(T[Len(history)])'
    BY <1>12, <2>8, <2>9
  <2> QED BY <2>5, <2>7, <2>10 DEF ReplayInv
<1> QED BY <1>13, <1>14

-----------------------------------------------------------------------------
(* The theorems *)

\* Every step keeps the runtime on the trail of the committed cells.
LEMMA ReplayStep == ScopeInv /\ ReplayInv /\ [Next]_vars => ReplayInv'
<1> SUFFICES ASSUME ScopeInv, ReplayInv, [Next]_vars
             PROVE  ReplayInv'
  OBVIOUS
<1>1. ASSUME NEW c \in Cells, Submit(c) PROVE ReplayInv'
  BY <1>1, BeginReplays DEF Submit
<1>2. ASSUME NEW c \in Cells, Refuse(c) PROVE ReplayInv'
  BY <1>2, DirtyReplays
<1>3. CASE Replay
  BY <1>3, BeginReplays DEF Replay
<1>4. CASE Rebuild
  BY <1>4, RebuildReplays
<1>5. CASE RunBody
  BY <1>5, RunBodyReplays
<1>6. CASE HookTooLate
  BY <1>6, LateReplays
<1>7. CASE CommitHook
  BY <1>7, CommitHookReplays
<1>8. CASE HookReturns
  BY <1>8, HookReturnsReplays
<1>9. ASSUME NEW n \in Names, BridgeName(n) PROVE ReplayInv'
  BY <1>9, BridgeNameReplays
<1>10. CASE Succeed
  BY <1>10, SucceedReplays
<1>11. CASE Fail \/ Timeout
  BY <1>11, DirtyReplays
<1>12. CASE UNCHANGED vars
  <2>1. UNCHANGED <<todo, history, saved, wanted, phase, pending, cell, dirty, committed,
                    loop, chain, gobj, misdirected, layer, bridge, out>>
    BY <1>12 DEF vars
  <2>2. PlaceInv'
    BY <2>1 DEF ReplayInv, PlaceInv
  <2>3. ASSUME NEW s, StageInv(s) PROVE StageInv(s)'
    <3>1. Number' = Number
      BY <2>1 DEF Number
    <3> QED BY <2>1, <2>3, <3>1 DEF StageInv, Matches
  <2> QED BY <2>1, <2>2, <2>3, TrailKept
<1> QED
  BY <1>1, <1>2, <1>3, <1>4, <1>5, <1>6, <1>7, <1>8, <1>9, <1>10, <1>11, <1>12
     DEF Next

\* In every state of a session the runtime in use is where the committed cells
\* up to the one it runs or replays lead a new runtime, and the scope the last of
\* them leads to is the one that was saved when it committed.
THEOREM ReplayInvariant == Spec => []ReplayInv
  BY ReplayInit, ReplayStep, ScopeInvariant, PTL DEF Spec

\* Between two submits on a runtime that is in use, the scope binds what the last
\* saved one does; it is that scope, if no write has missed its name.
LEMMA ReadyOnTrail ==
    ASSUME ScopeInv, ReplayInv, Ready
    PROVE  \E s : /\ Alike(chain, gobj, s) /\ Alike(saved[1], saved[2], s)
                  /\ committed = s.known /\ saved[3] = s.known
                  /\ Bound(s, wanted, history)
                  /\ ~misdirected =>
                        /\ chain = s.chain /\ gobj = s.gobj
                        /\ saved = <<s.chain, s.gobj, s.known>> /\ Good(s, wanted, history)
<1>1. phase = "idle" /\ ~dirty /\ todo = <<>>
  BY DEF Ready
<1>2. Number - 1 = Len(history)
  <2>1. history \in Seq(Cells) /\ Len(todo) = 0
    BY <1>1 DEF ScopeInv, TypeOK
  <2>2. Len(history) \in Nat
    BY <2>1
  <2> QED BY <2>1, <2>2 DEF Number
<1>3. PICK S : StageInv(S[Number - 1]) /\ SavedInv(S[Len(history)])
  BY DEF ReplayInv
<1>4. PICK s : s = S[Number - 1]
  OBVIOUS
<1>5. StageInv(s) /\ SavedInv(s)
  BY <1>2, <1>3, <1>4
<1>6. Matches(s) /\ committed = s.known
  BY <1>1, <1>5 DEF StageInv
<1>7. Alike(chain, gobj, s)
      /\ (~misdirected => chain = s.chain /\ gobj = s.gobj /\ ~s.lost)
  BY <1>6 DEF Matches
<1> QED BY <1>5, <1>6, <1>7 DEF SavedInv

\* Whatever cells were refused, threw, were given up or failed after they had
\* promoted their names, and whichever setters wrote slots of other names, the
\* scope the next submit finds binds the names the last committed cell left bound,
\* in the same layers, slots and kinds of property, and the table is the same. As
\* long as every write to the global object has reached its name, it also has the
\* same values.
THEOREM ScopeReplayed == Spec => []ScopeIsReplayed
<1>1. ASSUME ScopeInv, ReplayInv, Ready
      PROVE  Bindings(scope) = Bindings(saved) /\ (~misdirected => scope = saved)
  <2>1. PICK s : /\ Alike(chain, gobj, s) /\ Alike(saved[1], saved[2], s)
                 /\ committed = s.known /\ saved[3] = s.known
                 /\ ~misdirected => /\ chain = s.chain /\ gobj = s.gobj
                                    /\ saved = <<s.chain, s.gobj, s.known>>
    BY <1>1, ReadyOnTrail
  <2>2. scope[1] = chain /\ scope[2] = gobj /\ scope[3] = committed
    BY DEF scope
  <2>3. [i \in DOMAIN scope[1] |-> <<scope[1][i].kind, scope[1][i].slot>>] =
        [i \in DOMAIN saved[1] |-> <<saved[1][i].kind, saved[1][i].slot>>]
    <3>1. PICK a, b : a = scope[1] /\ b = saved[1]
      OBVIOUS
    <3>2. Alike(a, gobj, s) /\ Alike(b, saved[2], s)
      BY <2>1, <2>2, <3>1
    <3>3. DOMAIN a = 1..Len(s.binds) /\ DOMAIN b = 1..Len(s.binds)
      <4>1. a \in Seq(Layers) /\ b \in Seq(Layers)
            /\ Len(a) = Len(s.binds) /\ Len(b) = Len(s.binds)
        BY <3>2 DEF Alike
      <4> QED BY <4>1, LenProperties
    <3>4. \A i \in 1..Len(s.binds) : a[i].kind = b[i].kind /\ a[i].slot = b[i].slot
      BY <3>2 DEF Alike
    <3> QED BY <3>1, <3>3, <3>4
  <2>4. [n \in Names |-> <<scope[2][n].is, scope[2][n].slot>>] =
        [n \in Names |-> <<saved[2][n].is, saved[2][n].slot>>]
    BY <2>1, <2>2 DEF Alike
  <2>5. Bindings(scope) = Bindings(saved)
    BY <2>1, <2>2, <2>3, <2>4 DEF Bindings
  <2>6. ~misdirected => scope = saved
    BY <2>1 DEF scope
  <2> QED BY <2>5, <2>6
<1>2. ScopeInv /\ ReplayInv => ScopeIsReplayed
  BY <1>1 DEF ScopeIsReplayed
<1> QED BY <1>2, ScopeInvariant, ReplayInvariant, PTL

\* Between two submits exactly the names a committed cell declared or assigned are
\* bound, whatever failed and was replayed. As long as no write to the global object
\* has gone to a slot of another name or past the binding, each has the value it
\* was last given; after such a write the code keeps no promise about values.
THEOREM ValuesAreKept == Spec => []ValuesKept
<1>1. ASSUME ScopeInv, ReplayInv PROVE ValuesKept
  <2> SUFFICES ASSUME Ready, NEW n \in Names
               PROVE  /\ IsBound(n) <=> wanted[n] # Undefined
                      /\ ~misdirected /\ wanted[n] # Undefined =>
                            Identifier(n) = wanted[n]
    BY DEF ValuesKept
  <2>1. PICK s : /\ Alike(chain, gobj, s) /\ Bound(s, wanted, history)
                 /\ ~misdirected =>
                       chain = s.chain /\ gobj = s.gobj /\ Good(s, wanted, history)
    BY <1>1, ReadyOnTrail
  <2>2. BoundBy(s, n) <=> IsBound(n)
    <3>1. Lookup(s.binds, Len(s.binds), n) = Lookup(chain, Len(chain), n)
      BY <2>1, AlikeFinds
    <3>2. s.props[n].is = gobj[n].is
      BY <2>1 DEF Alike
    <3> QED BY <3>1, <3>2 DEF BoundBy, IsBound
  <2>3. BoundBy(s, n) <=> wanted[n] # Undefined
    BY <2>1 DEF Bound
  <2>4. ASSUME ~misdirected, wanted[n] # Undefined PROVE Identifier(n) = wanted[n]
    <3>1. chain = s.chain /\ gobj = s.gobj /\ ValueIn(s, n) = wanted[n]
      BY <2>1, <2>4 DEF Good, Named
    <3> QED BY <3>1 DEF ValueIn, Identifier, GlobalGet, Found
  <2> QED BY <2>2, <2>3, <2>4
<1> QED BY <1>1, ScopeInvariant, ReplayInvariant, PTL
================================================================================
