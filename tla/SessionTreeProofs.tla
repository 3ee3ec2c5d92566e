-------------------------- MODULE SessionTreeProofs --------------------------
(***************************************************************************)
(* The durable history of a session is a tree of branches, and a handle    *)
(* that is not dirty is where replaying its lineage would put it.          *)
(*                                                                         *)
(* The first part follows the lines of the branches: what a branch         *)
(* inherits never changes, what it has of its own is what was committed on *)
(* it, and each step does to the lines what a step of BranchTree does.     *)
(*                                                                         *)
(* The second part follows the runtimes.  Replay is unfolded into what it  *)
(* does for one cell and for one transition; a fact appended to the log is *)
(* shown to change what replay to a head builds only when it is a          *)
(* transition made at that head, and then only at its end.  So a handle    *)
(* that runs a cell, moves its head or changes its configuration stays     *)
(* what replay would build, whatever is appended meanwhile.                *)
(*                                                                         *)
(* The third part bounds everything that counts, whatever fails: numbers   *)
(* rise along a lineage, so an index never passes the cell it stands at.   *)
(***************************************************************************)
EXTENDS SessionTree, SessionProofs

-----------------------------------------------------------------------------
(* Lineages, part by part. *)

\* What the recursion of FlattenSeq computes.
LEMMA FlattenUnfold ==
    ASSUME NEW X, NEW ss \in Seq(Seq(X)), ss # <<>>
    PROVE  \E f : /\ FlattenSeq(ss) = f[Len(ss)]
                  /\ \A i \in 1..Len(ss) : f[i] = IF i = 1 THEN ss[i] ELSE f[i - 1] \o ss[i]
<1> DEFINE n == Len(ss)
           F == CHOOSE f : f = [i \in 1..n |-> IF i = 1 THEN ss[i] ELSE f[i - 1] \o ss[i]]
<1>1. n \in Nat /\ n # 0
  OBVIOUS
<1>2. FlattenSeq(ss) = F[n]
  BY <1>1, Zenon DEF FlattenSeq
<1>3. F = [i \in 1..n |-> IF i = 1 THEN ss[i] ELSE F[i - 1] \o ss[i]]
  <2>1. \E f : f = [i \in 1..n |-> IF i = 1 THEN ss[i] ELSE f[i - 1] \o ss[i]]
    BY <1>1, FlattenExists
  <2> HIDE DEF n
  <2> QED BY <2>1, Zenon
<1> HIDE DEF F
<1>4. \A i \in 1..n : F[i] = IF i = 1 THEN ss[i] ELSE F[i - 1] \o ss[i]
  BY <1>3
<1> QED BY <1>2, <1>4

\* The last sequence comes last.
LEMMA FlattenAppend ==
    ASSUME NEW X, NEW ss \in Seq(Seq(X)), NEW s \in Seq(X)
    PROVE  FlattenSeq(Append(ss, s)) = FlattenSeq(ss) \o s
<1> DEFINE n == Len(ss)
           tt == Append(ss, s)
<1>1. /\ n \in Nat /\ tt \in Seq(Seq(X)) /\ tt # <<>> /\ Len(tt) = n + 1
      /\ tt[n + 1] = s /\ \A i \in 1..n : tt[i] = ss[i]
  <2> DEFINE Y == Seq(X)
  <2>1. ss \in Seq(Y) /\ s \in Y
    OBVIOUS
  <2> HIDE DEF Y
  <2>2. /\ n \in Nat /\ tt \in Seq(Y) /\ tt # <<>> /\ Len(tt) = n + 1
        /\ tt[n + 1] = s /\ \A i \in 1..n : tt[i] = ss[i]
    BY <2>1
  <2> QED BY <2>2 DEF Y
<1> HIDE DEF tt
<1>2. PICK g : /\ FlattenSeq(tt) = g[n + 1]
               /\ \A i \in 1..(n + 1) : g[i] = IF i = 1 THEN tt[i] ELSE g[i - 1] \o tt[i]
  BY <1>1, FlattenUnfold
<1>3. CASE n = 0
  <2>1. ss = <<>>
    BY <1>3
  <2>2. FlattenSeq(ss) = ss
    BY <1>3, Zenon DEF FlattenSeq
  <2>3. FlattenSeq(tt) = s
    BY <1>1, <1>2, <1>3
  <2> QED BY <2>1, <2>2, <2>3 DEF tt
<1>4. CASE n # 0
  <2>1. ss # <<>>
    BY <1>4
  <2>2. PICK f : /\ FlattenSeq(ss) = f[n]
                 /\ \A i \in 1..n : f[i] = IF i = 1 THEN ss[i] ELSE f[i - 1] \o ss[i]
    BY <2>1, FlattenUnfold
  <2> DEFINE Bad == {i \in 1..n : f[i] # g[i]}
  <2> HIDE DEF n
  <2>3. Bad = {}
    <3> SUFFICES ASSUME Bad # {} PROVE FALSE
      OBVIOUS
    <3> DEFINE k == Min(Bad)
    <3>1. k \in Bad /\ \A y \in Bad : k <= y
      <4>1. Bad \in SUBSET Nat
        BY <1>1
      <4> HIDE DEF Bad
      <4> QED BY <4>1, MinProperties
    <3>2. k \in 1..n /\ k \in 1..(n + 1) /\ f[k] # g[k]
      BY <1>1, <3>1
    <3> HIDE DEF k
    <3>3. /\ f[k] = IF k = 1 THEN ss[k] ELSE f[k - 1] \o ss[k]
          /\ g[k] = IF k = 1 THEN ss[k] ELSE g[k - 1] \o ss[k]
      BY <1>1, <1>2, <2>2, <3>2
    <3>4. k # 1 /\ f[k - 1] # g[k - 1]
      BY <3>2, <3>3
    <3>5. k - 1 \in Bad
      BY <1>1, <3>2, <3>4
    <3> HIDE DEF Bad
    <3> QED BY <1>1, <3>1, <3>2, <3>5
  <2>4. n \in 1..n /\ n + 1 \in 1..(n + 1) /\ n + 1 # 1 /\ (n + 1) - 1 = n
    BY <1>1, <1>4
  <2>5. f[n] = g[n]
    BY <2>3, <2>4
  <2>6. g[n + 1] = g[n] \o s
    BY <1>1, <1>2, <2>4
  <2> QED BY <1>2, <2>2, <2>5, <2>6 DEF tt
<1> QED BY <1>3, <1>4

\* Facts reduced to their cells.
LEMMA CellsOf ==
    ASSUME NEW s \in Seq(Facts), NEW t \in Seq(Facts), NEW f \in Facts
    PROVE  /\ Cells(s) \in Seq(Nat) /\ Len(Cells(s)) = Len(s)
           /\ \A i \in 1..Len(s) : Cells(s)[i] = s[i].cell
           /\ Cells(s \o t) = Cells(s) \o Cells(t)
           /\ Cells(Append(s, f)) = Append(Cells(s), f.cell)
           /\ Cells(<<>>) = <<>>
<1>1. \A g \in Facts : g.cell \in Nat
  BY DEF Facts
<1> DEFINE C(u) == [i \in 1..Len(u) |-> u[i].cell]
<1>2. \A u \in Seq(Facts) : Cells(u) = C(u) /\ Len(u) \in Nat
  BY DEF Cells
<1>3. \A u \in Seq(Facts) : C(u) \in Seq(Nat) /\ Len(C(u)) = Len(u)
  BY <1>1
<1>4. \A u \in Seq(Facts) : \A i \in 1..Len(u) : C(u)[i] = u[i].cell
  OBVIOUS
<1>5. s \o t \in Seq(Facts) /\ Append(s, f) \in Seq(Facts) /\ <<>> \in Seq(Facts)
  OBVIOUS
<1>6. C(s \o t) = C(s) \o C(t)
  <2>1. Len(s \o t) = Len(s) + Len(t) /\ Len(s) \in Nat /\ Len(t) \in Nat
    OBVIOUS
  <2>2. C(s) \in Seq(Nat) /\ C(t) \in Seq(Nat) /\ C(s \o t) \in Seq(Nat)
    BY <1>3, <1>5
  <2>3. Len(C(s)) = Len(s) /\ Len(C(t)) = Len(t) /\ Len(C(s \o t)) = Len(s) + Len(t)
    BY <1>3, <1>5, <2>1
  <2> DEFINE L == C(s \o t)
             a == C(s)
             b == C(t)
             R == a \o b
  <2>4. \A i \in 1..(Len(s) + Len(t)) : L[i] = R[i]
    <3> TAKE i \in 1..(Len(s) + Len(t))
    <3>1. L[i] = (s \o t)[i].cell
      BY <1>4, <1>5, <2>1
    <3>2. CASE i <= Len(s)
      <4>1. (s \o t)[i] = s[i] /\ i \in 1..Len(s)
        BY <2>1, <3>2
      <4>2. a[i] = s[i].cell
        BY <4>1
      <4> HIDE DEF a, b, L
      <4>3. R[i] = a[i]
        BY <2>1, <2>2, <2>3, <3>2, <4>1 DEF a, b
      <4> QED BY <3>1, <4>1, <4>2, <4>3
    <3>3. CASE i > Len(s)
      <4>1. (s \o t)[i] = t[i - Len(s)] /\ i - Len(s) \in 1..Len(t)
        BY <2>1, <3>3
      <4>2. b[i - Len(s)] = t[i - Len(s)].cell
        BY <4>1
      <4> HIDE DEF a, b, L
      <4>3. R[i] = b[i - Len(s)]
        BY <2>1, <2>2, <2>3, <3>3, <4>1 DEF a, b
      <4> QED BY <3>1, <4>1, <4>2, <4>3
    <3> QED BY <2>1, <3>2, <3>3
  <2> HIDE DEF a, b, L
  <2>5. R \in Seq(Nat) /\ Len(R) = Len(s) + Len(t)
    BY <2>2, <2>3 DEF a, b
  <2>6. L \in Seq(Nat) /\ Len(L) = Len(s) + Len(t)
    BY <2>2, <2>3 DEF L
  <2> HIDE DEF R
  <2>7. L = R
    BY <2>1, <2>4, <2>5, <2>6
  <2> QED BY <2>7 DEF L, R, a, b
<1>7. C(Append(s, f)) = Append(C(s), f.cell)
  <2> DEFINE L == C(Append(s, f))
             a == C(s)
             R == Append(a, f.cell)
  <2>1. /\ a \in Seq(Nat) /\ Len(a) = Len(s) /\ Len(s) \in Nat /\ L \in Seq(Nat)
        /\ Len(L) = Len(s) + 1
    <3>1. Len(Append(s, f)) = Len(s) + 1 /\ Len(s) \in Nat
      OBVIOUS
    <3> HIDE DEF C
    <3> QED BY <1>3, <1>5, <3>1
  <2>2. L[Len(s) + 1] = f.cell /\ \A i \in 1..Len(s) : L[i] = a[i]
    OBVIOUS
  <2> HIDE DEF a, L
  <2>3. R \in Seq(Nat) /\ Len(R) = Len(s) + 1 /\ R[Len(s) + 1] = f.cell
        /\ \A i \in 1..Len(s) : R[i] = a[i]
    BY <1>1, <2>1
  <2> HIDE DEF R
  <2>4. \A i \in 1..(Len(s) + 1) : L[i] = R[i]
    <3> TAKE i \in 1..(Len(s) + 1)
    <3>1. i \in 1..Len(s) \/ i = Len(s) + 1
      BY <2>1
    <3> QED BY <2>2, <2>3, <3>1
  <2>5. L = R
    BY <2>1, <2>3, <2>4
  <2> QED BY <2>5 DEF L, R, a
<1>8. C(<<>>) = <<>>
  OBVIOUS
<1> HIDE DEF C
<1> QED BY <1>2, <1>3, <1>4, <1>5, <1>6, <1>7, <1>8 DEF C

\* The facts a lineage is made of.
CommitFacts(l) == {l[i] : i \in OfType(l, "CellCommitted")}

\* They are facts of the log, and so are the commits of a branch up to a cell.
LEMMA CommitFactsAreFacts ==
    ASSUME NEW l \in Seq(Facts)
    PROVE  /\ CommitFacts(l) \subseteq Facts /\ Seq(CommitFacts(l)) \subseteq Seq(Facts)
           /\ \A b, stop : committedCellsUpTo(l, b, stop) \in Seq(CommitFacts(l))
<1>1. CommitFacts(l) \subseteq Facts
  BY DEF CommitFacts, OfType
<1>2. Seq(CommitFacts(l)) \subseteq Seq(Facts)
  BY <1>1
<1>3. ASSUME NEW b, NEW stop
      PROVE  committedCellsUpTo(l, b, stop) \in Seq(CommitFacts(l))
  <2> DEFINE Y == {l[i] : i \in OnBranch(l, "CellCommitted", b)}
  <2>1. committedCellsUpTo(l, b, stop) \in Seq(Y)
    BY CommitsAreCommits
  <2>2. Y \subseteq CommitFacts(l)
    BY DEF OnBranch, CommitFacts
  <2> HIDE DEF Y
  <2> QED BY <2>1, <2>2
<1> QED BY <1>1, <1>2, <1>3

\* A path that gets longer: its last part comes last.
LEMMA ChainAppend ==
    ASSUME NEW l \in Seq(Facts), NEW G, NEW segs \in Seq(G), NEW g \in G
    PROVE  /\ ChainOf(l, segs) \in Seq(CommitFacts(l))
           /\ ChainOf(l, Append(segs, g)) =
                 ChainOf(l, segs) \o committedCellsUpTo(l, g.branch, g.stop)
<1> DEFINE X == CommitFacts(l)
           Part(h) == committedCellsUpTo(l, h.branch, h.stop)
           ss == [i \in DOMAIN segs |-> Part(segs[i])]
           w == Append(segs, g)
           tt == [i \in DOMAIN w |-> Part(w[i])]
           n == Len(segs)
<1>1. /\ n \in Nat /\ DOMAIN segs = 1..n /\ DOMAIN w = 1..(n + 1) /\ w[n + 1] = g
      /\ \A i \in 1..n : w[i] = segs[i]
  OBVIOUS
<1>2. \A h : Part(h) \in Seq(X)
  BY CommitFactsAreFacts
<1> DEFINE Y == Seq(X)
<1>3. ss \in Seq(Y) /\ Len(ss) = n /\ \A i \in 1..n : ss[i] = Part(segs[i])
  <2> HIDE DEF Y, Part
  <2> QED BY <1>1, <1>2 DEF Y
<1>4. tt = Append(ss, Part(g))
  <2>1. tt \in Seq(Y) /\ Len(tt) = n + 1 /\ \A i \in 1..(n + 1) : tt[i] = Part(w[i])
    <3> HIDE DEF Y, Part, w, n
    <3> QED BY <1>1, <1>2 DEF Y
  <2> DEFINE R == Append(ss, Part(g))
  <2>2. Part(g) \in Y
    BY <1>2
  <2> HIDE DEF Part, ss, tt, Y, w, n
  <2>3. R \in Seq(Y) /\ Len(R) = n + 1 /\ R[n + 1] = Part(g) /\ \A i \in 1..n : R[i] = ss[i]
    BY <1>1, <1>3, <2>2
  <2> HIDE DEF R
  <2>4. \A i \in 1..(n + 1) : tt[i] = R[i]
    <3> TAKE i \in 1..(n + 1)
    <3>1. i \in 1..n \/ i = n + 1
      BY <1>1
    <3> QED BY <1>1, <1>3, <2>1, <2>3, <3>1
  <2>5. tt = R
    BY <1>1, <2>1, <2>3, <2>4
  <2> QED BY <2>5 DEF R
<1>5. ChainOf(l, segs) = FlattenSeq(ss) /\ ChainOf(l, w) = FlattenSeq(tt)
  BY Zenon DEF ChainOf
<1> HIDE DEF ss, tt
<1>6. FlattenSeq(ss) \in Seq(X) /\ FlattenSeq(Append(ss, Part(g))) = FlattenSeq(ss) \o Part(g)
  BY <1>2, <1>3, FlattenRange, FlattenAppend
<1> QED BY <1>4, <1>5, <1>6

\* What a branch inherits: the lineage of the cell it was forked at.
Inherited(l, b) == ChainOf(l, Above(l, b))

\* A lineage is what the branch inherits, and its own commits up to the cell.
LEMMA ChainParts ==
    ASSUME NEW l, LogInv(l), NEW b \in Nat, Created(l, b), NEW c \in Nat
    PROVE  /\ Inherited(l, b) \in Seq(CommitFacts(l))
           /\ collectAncestorChain(l, b, c) = Inherited(l, b) \o committedCellsUpTo(l, b, c)
<1> DEFINE g == [branch |-> b, stop |-> c, cutoff |-> Len(l)]
           G == Forks(l, b) \cup {g}
<1>1. l \in Seq(Facts) /\ b \in Nat \ {0}
  BY CreatedNumber DEF LogInv
<1>2. Above(l, b) \in Seq(Forks(l, b))
  BY <1>1, AboveIsSequence
<1>3. Above(l, b) \in Seq(G) /\ g \in G
  <2>1. Forks(l, b) \subseteq G /\ g \in G
    OBVIOUS
  <2> HIDE DEF G, g
  <2> QED BY <1>2, <2>1
<1>4. g.branch = b /\ g.stop = c
  OBVIOUS
<1>5. collectAncestorChain(l, b, c) = ChainOf(l, Append(Above(l, b), g))
  BY DEF collectAncestorChain, Segments
<1> HIDE DEF g, G
<1>6. /\ ChainOf(l, Above(l, b)) \in Seq(CommitFacts(l))
      /\ ChainOf(l, Append(Above(l, b), g)) =
            ChainOf(l, Above(l, b)) \o committedCellsUpTo(l, g.branch, g.stop)
  BY <1>1, <1>3, ChainAppend
<1> QED BY <1>4, <1>5, <1>6 DEF Inherited

\* The root inherits nothing; a fork inherits the lineage of the cell it was made at.
LEMMA InheritedUnfold ==
    ASSUME NEW l, LogInv(l), NEW b \in Nat, Created(l, b)
    PROVE  /\ b = RootBranch => Inherited(l, b) = <<>>
           /\ b # RootBranch =>
                 Inherited(l, b) =
                    collectAncestorChain(l, ForkOf(l, b).branch, ForkOf(l, b).stop)
<1>1. l \in Seq(Facts) /\ b \in Nat \ {0} /\ NumbersInv(l)
  BY CreatedNumber DEF LogInv
<1>2. Above(l, b) = IF OnBranch(l, "BranchCreated", b) = {} THEN <<>>
                    ELSE Append(Above(l, ForkOf(l, b).branch), ForkOf(l, b))
  BY <1>1, AboveUnfold
<1>3. ASSUME b = RootBranch PROVE Inherited(l, b) = <<>>
  <2>1. OnBranch(l, "BranchCreated", b) = {}
    BY <1>1, <1>3 DEF NumbersInv, OnBranch, RootBranch
  <2>2. Above(l, b) = <<>>
    BY <1>2, <2>1
  <2>3. ChainOf(l, <<>>) = FlattenSeq([i \in DOMAIN <<>> |->
             committedCellsUpTo(l, <<>>[i].branch, <<>>[i].stop)])
    BY Zenon DEF ChainOf
  <2> DEFINE e == [i \in DOMAIN <<>> |-> committedCellsUpTo(l, <<>>[i].branch, <<>>[i].stop)]
  <2>4. e = <<>>
    OBVIOUS
  <2>5. FlattenSeq(<<>>) = <<>>
    <3>1. Len(<<>>) = 0
      OBVIOUS
    <3> QED BY <3>1, Zenon DEF FlattenSeq
  <2> QED BY <2>2, <2>3, <2>4, <2>5 DEF Inherited
<1>4. ASSUME b # RootBranch
      PROVE  Inherited(l, b) = collectAncestorChain(l, ForkOf(l, b).branch, ForkOf(l, b).stop)
  <2> DEFINE g == ForkOf(l, b)
             p == g.branch
  <2>1. OnBranch(l, "BranchCreated", b) # {}
    BY <1>4 DEF Created
  <2>2. p \in 1..(b - 1) /\ g.stop \in Nat /\ Created(l, p) /\ p \in Nat \ {0}
    BY <2>1, ForkProperties
  <2> HIDE DEF g, p
  <2>3. Above(l, b) = Append(Above(l, p), g)
    BY <1>2, <2>1 DEF g, p
  <2>4. Above(l, p) \in Seq(Forks(l, p))
    BY <2>2, AboveIsSequence
  <2> DEFINE G == Forks(l, p) \cup {g}
  <2>5. Above(l, p) \in Seq(G) /\ g \in G
    <3>1. Forks(l, p) \subseteq G /\ g \in G
      OBVIOUS
    <3> HIDE DEF G
    <3> QED BY <2>4, <3>1
  <2> HIDE DEF G
  <2>6. ChainOf(l, Append(Above(l, p), g)) =
            ChainOf(l, Above(l, p)) \o committedCellsUpTo(l, g.branch, g.stop)
    BY <1>1, <2>5, ChainAppend
  <2>7. collectAncestorChain(l, p, g.stop) = Inherited(l, p) \o committedCellsUpTo(l, p, g.stop)
    BY <2>2, ChainParts
  <2> QED BY <2>3, <2>6, <2>7 DEF Inherited, p, g
<1> QED BY <1>3, <1>4

\* What a branch inherits never changes.
LEMMA InheritedStays ==
    ASSUME NEW l, LogInv(l), NEW f \in Facts, LogInv(Append(l, f)),
           NEW b \in Nat, Created(l, b)
    PROVE  Inherited(Append(l, f), b) = Inherited(l, b)
<1> DEFINE m == Append(l, f)
           a == Above(l, b)
<1>1. l \in Seq(Facts) /\ b \in Nat \ {0}
  BY CreatedNumber DEF LogInv
<1>2. Above(m, b) = a
  BY AboveStays
<1>3. a \in Seq(Forks(l, b))
  BY <1>1, AboveIsSequence
<1> HIDE DEF a
<1>4. \A i \in DOMAIN a : CommittedOn(l, a[i].branch, a[i].stop)
  <2>1. \A i \in DOMAIN a : a[i] \in Forks(l, b)
    BY <1>3
  <2>2. \A g \in Forks(l, b) : CommittedOn(l, g.branch, g.stop)
    BY DEF Forks
  <2> QED BY <2>1, <2>2
<1>5. \A i \in DOMAIN a : committedCellsUpTo(m, a[i].branch, a[i].stop) =
                          committedCellsUpTo(l, a[i].branch, a[i].stop)
  BY <1>1, <1>4, CommitsUpToStay
<1> HIDE DEF m
<1>6. SegmentCells(m, a) = SegmentCells(l, a)
  BY <1>5 DEF SegmentCells
<1>7. ChainOf(m, a) = FlattenSeq(SegmentCells(m, a)) /\ ChainOf(l, a) = FlattenSeq(SegmentCells(l, a))
  BY Zenon DEF ChainOf, SegmentCells
<1> QED BY <1>2, <1>6, <1>7 DEF Inherited, a, m

\* The cells committed on a branch itself, up to its head.
Own(l, b) ==
    IF LoadHead(l, b) = NoCell THEN <<>> ELSE committedCellsUpTo(l, b, LoadHead(l, b))

\* The head of a branch, if it has one, was committed there.
LEMMA HeadCommitted ==
    ASSUME NEW l, LogInv(l), NEW b
    PROVE  /\ LoadHead(l, b) \in Nat
           /\ LoadHead(l, b) # NoCell =>
                 /\ CommittedOn(l, b, LoadHead(l, b)) /\ LoadHead(l, b) \in MovedCells(l)
                 /\ Created(l, b) /\ OnBranch(l, "HeadMoved", b) # {}
           /\ LoadHead(l, b) = NoCell => OnBranch(l, "HeadMoved", b) = {}
<1> DEFINE H == OnBranch(l, "HeadMoved", b)
<1>1. l \in Seq(Facts) /\ HeadsInv(l)
  BY DEF LogInv
<1>2. H \in SUBSET Nat /\ IsFiniteSet(H) /\ H \in SUBSET DOMAIN l
      /\ \A i \in DOMAIN l : l[i].cell \in Nat
  BY <1>1, Positions
<1>3. CASE H = {}
  <2>1. LoadHead(l, b) = NoCell
    BY <1>3, Zenon DEF LoadHead
  <2> QED BY <1>3, <2>1 DEF NoCell
<1>4. CASE H # {}
  <2>1. Max(H) \in H
    <3> HIDE DEF H
    <3> QED BY <1>2, <1>4, FiniteMaxProperties
  <2>2. LoadHead(l, b) = l[Max(H)].cell
    BY <1>4, Zenon DEF LoadHead
  <2>3. Max(H) \in OfType(l, "HeadMoved") /\ l[Max(H)].branch = b
    BY <2>1 DEF OnBranch
  <2>4. CommittedOn(l, b, l[Max(H)].cell) /\ Created(l, b)
    BY <1>1, <2>3 DEF HeadsInv
  <2>5. l[Max(H)].cell # NoCell
    BY <2>3, HeadsAreCells
  <2> QED BY <1>2, <1>4, <2>1, <2>2, <2>3, <2>4, <2>5 DEF MovedCells
<1> QED BY <1>3, <1>4

\* The line of a branch: what it inherits, and its own.
LEMMA LineParts ==
    ASSUME NEW l, LogInv(l), NEW b \in Nat, Created(l, b)
    PROVE  /\ Inherited(l, b) \in Seq(Facts) /\ Own(l, b) \in Seq(Facts)
           /\ LineOf(l, b) = Cells(Inherited(l, b) \o Own(l, b))
<1>1. l \in Seq(Facts) /\ LoadHead(l, b) \in Nat
  BY HeadCommitted DEF LogInv
<1>2. /\ Seq(CommitFacts(l)) \subseteq Seq(Facts)
      /\ \A stop : committedCellsUpTo(l, b, stop) \in Seq(CommitFacts(l))
  BY <1>1, CommitFactsAreFacts
<1>3. /\ Inherited(l, b) \in Seq(CommitFacts(l))
      /\ collectAncestorChain(l, b, LoadHead(l, b)) =
            Inherited(l, b) \o committedCellsUpTo(l, b, LoadHead(l, b))
  BY <1>1, ChainParts
<1>4. Own(l, b) \in Seq(Facts)
  BY <1>2 DEF Own
<1>5. LineOf(l, b) = Cells(IF LoadHead(l, b) # NoCell
                           THEN collectAncestorChain(l, b, LoadHead(l, b))
                           ELSE Inherited(l, b))
  BY Zenon DEF LineOf, Inherited
<1>6. Inherited(l, b) \o <<>> = Inherited(l, b) /\ Inherited(l, b) \in Seq(Facts)
  <2>1. Inherited(l, b) \in Seq(Facts)
    BY <1>2, <1>3
  <2> QED BY <2>1
<1> QED BY <1>3, <1>4, <1>5, <1>6 DEF Own

\* No cell is committed twice on a branch.
LEMMA CommitsDistinct ==
    ASSUME NEW l, LogInv(l), NEW b
    PROVE  /\ Commits(l, b) \in Seq(Facts)
           /\ \A i \in DOMAIN Commits(l, b) :
                 \E p \in OnBranch(l, "CellCommitted", b) : Commits(l, b)[i] = l[p]
           /\ \A i, j \in DOMAIN Commits(l, b) :
                 Commits(l, b)[i].cell = Commits(l, b)[j].cell => i = j
<1> DEFINE S == OnBranch(l, "CellCommitted", b)
           o == InOrder(S)
           s == Commits(l, b)
           N == Cardinality(S)
<1>1. l \in Seq(Facts) /\ NumbersInv(l)
  BY DEF LogInv
<1>2. S \in SUBSET Nat /\ IsFiniteSet(S) /\ S \in SUBSET DOMAIN l
      /\ \A i \in DOMAIN l : l[i] \in Facts
  BY <1>1, Positions
<1>3. S \subseteq OfType(l, "CellCommitted")
  BY DEF OnBranch
<1> HIDE DEF S
<1>4. /\ N \in Nat /\ o \in [1..N -> S]
      /\ \A i, j \in 1..N : i < j => o[i] < o[j]
  BY <1>2, InOrderProperties
<1>5. s = [k \in DOMAIN o |-> l[o[k]]]
  BY Zenon DEF Commits, FactsAt, S
<1> HIDE DEF o, s, N
<1>6. DOMAIN s = 1..N /\ \A k \in 1..N : s[k] = l[o[k]] /\ o[k] \in S
  BY <1>4, <1>5
<1>7. s \in Seq(Facts)
  <2>1. \A k \in 1..N : l[o[k]] \in Facts
    BY <1>2, <1>6
  <2> QED BY <1>4, <1>5, <2>1
<1>8. \A i, j \in 1..N : s[i].cell = s[j].cell => i = j
  <2> SUFFICES ASSUME NEW i \in 1..N, NEW j \in 1..N, s[i].cell = s[j].cell, i # j PROVE FALSE
    OBVIOUS
  <2>1. o[i] = o[j]
    BY <1>1, <1>3, <1>6 DEF NumbersInv
  <2>2. o[i] \in Nat /\ o[j] \in Nat
    BY <1>2, <1>6
  <2>3. i < j \/ j < i
    BY <1>4
  <2>4. o[i] < o[j] \/ o[j] < o[i]
    BY <1>4, <2>3
  <2> QED BY <2>1, <2>2, <2>4
<1> QED BY <1>6, <1>7, <1>8 DEF s, S

\* Up to its last cell a sequence of commits is all of it.
LEMMA UpToLast ==
    ASSUME NEW s \in Seq(Facts), NEW f \in Facts,
           \A i \in DOMAIN s : s[i].cell # f.cell
    PROVE  UpTo(Append(s, f), f.cell) = Append(s, f)
<1> DEFINE w == Append(s, f)
           n == Len(s) + 1
           T == {i \in DOMAIN w : w[i].cell = f.cell}
<1>1. /\ n \in Nat /\ Len(s) \in Nat /\ DOMAIN s = 1..Len(s) /\ w \in Seq(Facts)
      /\ Len(w) = n /\ DOMAIN w = 1..n /\ w[n] = f /\ \A i \in 1..Len(s) : w[i] = s[i]
  OBVIOUS
<1> HIDE DEF w
<1>2. T = {n}
  <2>1. n \in T
    BY <1>1
  <2>2. ASSUME NEW i \in T PROVE i = n
    <3>1. i \in 1..n /\ w[i].cell = f.cell
      BY <1>1
    <3>2. i \in 1..Len(s) \/ i = n
      BY <1>1, <3>1
    <3> QED BY <1>1, <3>1, <3>2
  <2> HIDE DEF T
  <2> QED BY <2>1, <2>2
<1>3. Min(T) = n /\ T # {}
  <2>1. Min(T) \in T
    <3> HIDE DEF T
    <3> QED BY <1>1, <1>2, MinProperties
  <2> QED BY <1>2, <2>1
<1>4. UpTo(w, f.cell) = SubSeq(w, 1, Min(T))
  BY <1>3, Zenon DEF UpTo, T
<1>5. SubSeq(w, 1, n) = w
  BY <1>1
<1> QED BY <1>3, <1>4, <1>5 DEF w

\* What the branches have of their own is what was committed on them, but for the cell
\* of a submit between CellCommitted and HeadMoved.
Moving(s, b) == st[s].pc = "move" /\ st[s].branch = b

OwnInv ==
    /\ \A b \in Nat : (\A s \in Handles : ~Moving(s, b)) => Commits(log, b) = Own(log, b)
    /\ \A s \in Handles : st[s].pc = "move" =>
          Commits(log, st[s].branch) =
             Append(Own(log, st[s].branch), CellCommitted(st[s].branch, st[s].cell))

\* The handles at their last append stay there.
MoversStay ==
    \A t \in Handles : st'[t].pc = "move" \/ st[t].pc = "move" => st'[t] = st[t]


\* The own cells of a branch stay, unless its head moves.
LEMMA OwnKept ==
    ASSUME NEW l, LogInv(l), NEW f \in Facts, NEW b, f.type = "HeadMoved" => f.branch # b
    PROVE  Own(Append(l, f), b) = Own(l, b)
<1>1. l \in Seq(Facts)
  BY DEF LogInv
<1>2. LoadHead(Append(l, f), b) = LoadHead(l, b)
  BY <1>1, KnownStays
<1>3. LoadHead(l, b) # NoCell =>
         committedCellsUpTo(Append(l, f), b, LoadHead(l, b)) =
         committedCellsUpTo(l, b, LoadHead(l, b))
  BY <1>1, HeadCommitted, CommitsUpToStay
<1> QED BY <1>2, <1>3 DEF Own

\* A head that moves takes the branch up to the cell committed last.
LEMMA OwnMoves ==
    ASSUME NEW l, LogInv(l), NEW f \in Facts, f.type = "HeadMoved", f.cell # NoCell,
           NEW g \in Facts, g.cell = f.cell, NEW s \in Seq(Facts),
           Commits(l, f.branch) = Append(s, g)
    PROVE  /\ LoadHead(Append(l, f), f.branch) = f.cell
           /\ Own(Append(l, f), f.branch) = Append(s, g)
           /\ \A i \in DOMAIN s : s[i].cell # f.cell
<1> DEFINE m == Append(l, f)
           b == f.branch
           n == Len(l) + 1
           H == OnBranch(l, "HeadMoved", b)
           M == OnBranch(m, "HeadMoved", b)
<1>1. l \in Seq(Facts)
  BY DEF LogInv
<1>2. /\ n \in Nat /\ m[n] = f /\ \A i \in DOMAIN l : i < n
      /\ \A t, x : OnBranch(m, t, x) = OnBranch(l, t, x) \cup
                      (IF f.type = t /\ f.branch = x THEN {n} ELSE {})
      /\ H \in SUBSET DOMAIN l /\ DOMAIN l \in SUBSET Nat /\ IsFiniteSet(H)
  BY <1>1, AppendFact, Positions
<1>3. M = H \cup {n}
  <2>1. M = H \cup (IF f.type = "HeadMoved" /\ f.branch = b THEN {n} ELSE {})
    BY <1>2
  <2> QED BY <2>1
<1> HIDE DEF m, n, H, M
<1>4. Max(M) = n /\ M # {}
  <2>1. M \in SUBSET Nat /\ M # {} /\ IsFiniteSet(M)
    BY <1>2, <1>3, FS_AddElement
  <2>2. Max(M) \in M /\ \A y \in M : y <= Max(M)
    BY <2>1, FiniteMaxProperties
  <2>3. n <= Max(M) /\ Max(M) \in Nat /\ (Max(M) \in H \/ Max(M) = n)
    BY <1>3, <2>1, <2>2
  <2>4. Max(M) \in H => Max(M) < n
    BY <1>2
  <2> QED BY <1>2, <2>1, <2>3, <2>4
<1>5. LoadHead(m, b) = f.cell
  <2>1. LoadHead(m, b) = m[Max(M)].cell
    BY <1>4, Zenon DEF LoadHead, M
  <2> QED BY <1>2, <1>4, <2>1
<1>6. \A i \in DOMAIN s : s[i].cell # f.cell
  <2> DEFINE w == Append(s, g)
  <2>1. \A i, j \in DOMAIN w : w[i].cell = w[j].cell => i = j
    BY CommitsDistinct
  <2>2. /\ Len(s) \in Nat /\ DOMAIN s = 1..Len(s) /\ DOMAIN w = 1..(Len(s) + 1)
        /\ w[Len(s) + 1] = g /\ \A i \in 1..Len(s) : w[i] = s[i]
    OBVIOUS
  <2> HIDE DEF w
  <2> SUFFICES ASSUME NEW i \in DOMAIN s, s[i].cell = f.cell PROVE FALSE
    OBVIOUS
  <2>3. i \in 1..Len(s) /\ i \in DOMAIN w /\ Len(s) + 1 \in DOMAIN w
    BY <2>2
  <2>4. w[i].cell = w[Len(s) + 1].cell
    BY <2>2, <2>3
  <2>5. i = Len(s) + 1
    BY <2>1, <2>3, <2>4
  <2> QED BY <2>2, <2>3, <2>5
<1>7. Commits(m, b) = Append(s, g)
  <2>1. Commits(m, b) = IF f.type = "CellCommitted" /\ f.branch = b
                        THEN Append(Commits(l, b), f) ELSE Commits(l, b)
    BY <1>1, CommitsGrow DEF m
  <2> QED BY <2>1
<1>8. committedCellsUpTo(m, b, f.cell) = Append(s, g)
  <2>1. UpTo(Append(s, g), g.cell) = Append(s, g)
    BY <1>6, UpToLast
  <2> QED BY <1>7, <2>1 DEF committedCellsUpTo
<1> QED BY <1>5, <1>6, <1>8 DEF Own, m, b

-----------------------------------------------------------------------------
(* What a step does to the tree. *)

\* A fact the tree does not show.
Quiet(f) ==
    /\ f.type \in {"CellChecked", "CellEvaluated", "CellFailed", "RuntimeTransitioned"}
    /\ f.type = "CellChecked" => CellCount(log) + 1 <= MaxCells

QuietStep ==
    MoversStay /\ (log' = log \/ \E f : log' = Append(log, f) /\ Quiet(f))

CommitStep(s) ==
    /\ st[s].pc = "commit" /\ log' = Append(log, CellCommitted(st[s].branch, st[s].cell))
    /\ st' = [st EXCEPT ![s] = [st[s] EXCEPT !.pc = "move"]]

MoveStep(s) ==
    /\ st[s].pc = "move"
    /\ log' = Append(log, HeadMoved(st[s].branch, st[s].head, st[s].cell))
    /\ \E q : st' = [st EXCEPT ![s] = q] /\ q.pc = "idle"

RestoreTo(c) == log' = Append(log, RestoreCompleted(c, NoBranch))

ForkAt(c) ==
    /\ NextBranch <= MaxBranches
    /\ \/ log' = Append(log, BranchCreated(NextBranch, c))
       \/ log' = Append(Append(log, BranchCreated(NextBranch, c)),
                        RestoreCompleted(c, NextBranch))

TreeStep ==
    \/ QuietStep
    \/ \E s \in Handles : CommitStep(s) \/ MoveStep(s)
    \/ Turn /\ MoversStay /\ \E c \in MovedCells(log) : RestoreTo(c) \/ ForkAt(c)

\* A handle that neither comes to nor leaves its last append.
LEMMA OneStays ==
    ASSUME SessionInv, NEW s \in Handles, NEW q, st' = [st EXCEPT ![s] = q],
           st[s].pc # "move", q.pc # "move"
    PROVE  MoversStay
<1>1. st = [t \in Handles |-> st[t]]
  BY DEF SessionInv
<1>2. \A t \in Handles : st'[t] = IF t = s THEN q ELSE st[t]
  BY <1>1
<1> QED BY <1>2 DEF MoversStay

\* A submit that fails shows nothing in the tree.
LEMMA FailQuiet ==
    ASSUME SessionInv, NEW s \in Handles, st[s].pc # "move", NEW r, IsHandle(r), FailSubmit(s, r)
    PROVE  QuietStep
<1> DEFINE d == r.dirty \/ ~Fresh
           q == [r EXCEPT !.dirty = d]
           f == CellFailed(r.branch, r.head)
<1>1. st' = [st EXCEPT ![s] = Idle(q)] /\ (log' = Append(log, f) \/ log' = log)
  BY DEF FailSubmit
<1>2. IsHandle(q)
  <2> HIDE DEF d
  <2> QED BY DEF IsHandle
<1> HIDE DEF q
<1>3. MoversStay
  <2>1. Idle(q).pc = "idle"
    BY <1>2, IdleHandle
  <2> QED BY <1>1, <2>1, OneStays
<1>4. Quiet(f)
  BY DEF CellFailed, Quiet
<1> HIDE DEF f
<1> QED BY <1>1, <1>3, <1>4 DEF QuietStep

\* The actions of a submit, as the tree sees them.
LEMMA SubmitTree ==
    ASSUME "HeadMoved" \notin AppendFaults, SessionInv, NEW s \in Handles,
           (\E k \in Kinds : SubmitCheck(s, k)) \/ SubmitEval(s) \/ SubmitCommit(s) \/ SubmitMove(s)
    PROVE  QuietStep \/ CommitStep(s) \/ MoveStep(s)
<1>1. /\ TurnInv /\ st = [t \in Handles |-> st[t]] /\ HandleInv(log, st[s]) /\ IsHandle(st[s])
  BY DEF SessionInv, HandleInv
<1>2. CASE \E k \in Kinds : SubmitCheck(s, k)
  <2>1. PICK k \in Kinds : SubmitCheck(s, k)
    BY <1>2
  <2> DEFINE c == NextCell
             f == CellChecked(st[s].branch, c, k)
             p == Prepared(Append(log, f), s)
             r == [p EXCEPT !.pc = "eval", !.cell = c]
  <2>2. /\ \A t \in Handles : st[t].pc = "idle"
        /\ c <= MaxCells
        /\ \/ log' = log /\ st' = st
           \/ log' = Append(log, f) /\ (st' = st \/ st' = [st EXCEPT ![s] = r])
    BY <2>1 DEF SubmitCheck, Turn
  <2>3. r.pc = "eval"
    <3>1. IsHandle(p)
      BY <1>1, CleanedHandle
    <3> HIDE DEF p, c
    <3> QED BY <3>1 DEF IsHandle
  <2>4. Quiet(f)
    BY <2>2 DEF NextCell, CellCount, CellChecked, Quiet
  <2> HIDE DEF c, f, r
  <2>5. MoversStay
    <3>1. CASE st' = st
      BY <3>1 DEF MoversStay
    <3>2. CASE st' = [st EXCEPT ![s] = r]
      BY <2>2, <2>3, <3>2, OneStays
    <3> QED BY <2>2, <3>1, <3>2
  <2> QED BY <2>2, <2>4, <2>5 DEF QuietStep
<1>3. CASE SubmitEval(s)
  <2> DEFINE c == st[s].cell
             ranE == RunCell(st[s].eval, c)
             ranR == RunCell(st[s].rt, c)
             r == IF Fresh THEN [st[s] EXCEPT !.eval = ranE] ELSE [st[s] EXCEPT !.rt = ranR]
             q == [r EXCEPT !.pc = "commit"]
             f == CellEvaluated(r.branch, c)
  <2>1. /\ st[s].pc = "eval"
        /\ \/ FailSubmit(s, r)
           \/ log' = Append(log, f) /\ st' = [st EXCEPT ![s] = q]
    BY <1>3 DEF SubmitEval
  <2>2. IsHandle(r)
    <3> HIDE DEF ranE, ranR
    <3> QED BY <1>1 DEF IsHandle
  <2> HIDE DEF r
  <2>3. q.pc = "commit" /\ Quiet(f)
    BY <2>2 DEF IsHandle, CellEvaluated, Quiet
  <2> HIDE DEF q, f
  <2>4. CASE FailSubmit(s, r)
    BY <2>1, <2>2, <2>4, FailQuiet
  <2>5. CASE log' = Append(log, f) /\ st' = [st EXCEPT ![s] = q]
    <3>1. MoversStay
      BY <2>1, <2>3, <2>5, OneStays
    <3> QED BY <2>3, <2>5, <3>1 DEF QuietStep
  <2> QED BY <2>1, <2>4, <2>5
<1>4. CASE SubmitCommit(s)
  <2>1. /\ st[s].pc = "commit"
        /\ \/ FailSubmit(s, st[s])
           \/ /\ log' = Append(log, CellCommitted(st[s].branch, st[s].cell))
              /\ st' = [st EXCEPT ![s] = [st[s] EXCEPT !.pc = "move"]]
    BY <1>4 DEF SubmitCommit
  <2>2. CASE FailSubmit(s, st[s])
    BY <1>1, <2>1, <2>2, FailQuiet
  <2> QED BY <2>1, <2>2 DEF CommitStep
<1>5. CASE SubmitMove(s)
  <2>1. ~Fault("HeadMoved")
    BY DEF Fault
  <2>2. st[s].pc = "move"
    BY <1>5 DEF SubmitMove
  <2> QED BY <1>1, <1>5, <2>1, <2>2, MoveHandle DEF MoveStep
<1> QED BY <1>2, <1>3, <1>4, <1>5

\* The other actions of a handle, as the tree sees them.
LEMMA OtherTree ==
    ASSUME "HeadMoved" \notin AppendFaults, SessionInv, NEW s \in Handles,
           \/ Open(s) \/ Stop(s) \/ \E c \in 1..MaxCells : Restore(s, c) \/ Fork(s, c)
           \/ \E h \in Hashes : Transition(s, h)
    PROVE  \/ QuietStep
           \/ Turn /\ MoversStay /\ \E c \in MovedCells(log) : RestoreTo(c) \/ ForkAt(c)
<1>1. /\ HandleInv(log, st[s]) /\ IsHandle(st[s])
  BY DEF SessionInv, HandleInv
<1>2. CASE Open(s)
  <2> DEFINE cur == LoadSessionState(log)
             r == IF cur.head = NoCell
                  THEN Install(cur.branch, NoCell, NewRuntime(cur.hash), 0)
                  ELSE Loaded(cur.branch, cur.head)
  <2>1. st' = [st EXCEPT ![s] = r] /\ log' = log /\ st[s].pc = "idle"
    BY <1>2 DEF Open, Turn
  <2>2. r.pc = "idle"
    BY InstallIdle DEF Loaded, LoadedFrom
  <2> HIDE DEF r
  <2> QED BY <2>1, <2>2, OneStays DEF QuietStep
<1>3. CASE Stop(s)
  <2>1. st' = [st EXCEPT ![s] = Closed] /\ log' = log /\ st[s].pc # "move"
    BY <1>3 DEF Stop
  <2> QED BY <2>1, ClosedHandle, OneStays DEF QuietStep
<1>4. CASE \E c \in 1..MaxCells : Restore(s, c) \/ Fork(s, c)
  <2>1. PICK c \in 1..MaxCells : Restore(s, c) \/ Fork(s, c)
    BY <1>4
  <2>2. \A b : Loaded(b, c).pc = "idle"
    BY InstallIdle DEF Loaded, LoadedFrom
  <2>3. MoversStay
    <3>1. st' = st \/ \E b : st' = [st EXCEPT ![s] = Loaded(b, c)]
      BY <2>1 DEF Restore, Fork
    <3>2. st[s].pc = "idle"
      BY <2>1 DEF Restore, Fork, Turn
    <3>3. CASE st' = st
      BY <3>3 DEF MoversStay
    <3>4. CASE \E b : st' = [st EXCEPT ![s] = Loaded(b, c)]
      BY <2>2, <3>2, <3>4, OneStays
    <3> QED BY <3>1, <3>3, <3>4
  <2>4. /\ c \in MovedCells(log) /\ Turn
        /\ log' = log \/ RestoreTo(c) \/ ForkAt(c)
    BY <2>1 DEF Restore, Fork, Replayable, RestoreTo, ForkAt
  <2> QED BY <2>3, <2>4 DEF QuietStep
<1>5. CASE \E h \in Hashes : Transition(s, h)
  <2>1. PICK h \in Hashes : Transition(s, h)
    BY <1>5
  <2> DEFINE r == Cleaned(log, s)
             rt == ApplyTransition(log, r.rt, h, r.index)
             x == [r EXCEPT !.rt = rt, !.dirty = TRUE]
             y == [r EXCEPT !.rt = rt, !.hash = h]
             f == RuntimeTransitioned(r.branch, r.head, h)
  <2>2. /\ st[s].pc = "idle"
        /\ log' = log \/ log' = Append(log, f)
        /\ \/ st' = [st EXCEPT ![s] = r] \/ st' = [st EXCEPT ![s] = x]
           \/ st' = [st EXCEPT ![s] = y]
    BY <2>1 DEF Transition, Turn
  <2>3. IsHandle(r) /\ r.pc = "idle"
    BY <1>1, <2>2, CleanedHandle
  <2> HIDE DEF r
  <2>4. x.pc = "idle" /\ y.pc = "idle"
    <3> HIDE DEF rt
    <3> QED BY <2>3 DEF IsHandle
  <2>5. Quiet(f)
    BY DEF RuntimeTransitioned, Quiet
  <2> HIDE DEF f, x, y
  <2>6. MoversStay
    BY <2>2, <2>3, <2>4, OneStays
  <2> QED BY <2>2, <2>5, <2>6 DEF QuietStep
<1> QED BY <1>2, <1>3, <1>4, <1>5

\* Every action, as the tree sees it.
LEMMA NextTree ==
    ASSUME "HeadMoved" \notin AppendFaults, SessionInv, [Next]_vars
    PROVE  TreeStep
<1>1. CASE UNCHANGED vars
  BY <1>1 DEF vars, TreeStep, QuietStep, MoversStay
<1>2. CASE Next
  <2>1. PICK s \in Handles :
           \/ \E k \in Kinds : SubmitCheck(s, k)
           \/ SubmitEval(s) \/ SubmitCommit(s) \/ SubmitMove(s)
           \/ \E c \in 1..MaxCells : Restore(s, c) \/ Fork(s, c)
           \/ Open(s) \/ Stop(s)
           \/ \E h \in Hashes : Transition(s, h)
    BY <1>2 DEF Next
  <2>2. CASE (\E k \in Kinds : SubmitCheck(s, k)) \/ SubmitEval(s) \/ SubmitCommit(s) \/ SubmitMove(s)
    BY <2>2, SubmitTree DEF TreeStep
  <2>3. CASE \/ Open(s) \/ Stop(s) \/ \E c \in 1..MaxCells : Restore(s, c) \/ Fork(s, c)
             \/ \E h \in Hashes : Transition(s, h)
    BY <2>3, OtherTree DEF TreeStep
  <2> QED BY <2>1, <2>2, <2>3
<1> QED BY <1>1, <1>2

-----------------------------------------------------------------------------
(* The parts of the lines. *)

\* The cells of the lines have been heads; there are no more cells and branches than the
\* bounds allow.
OnceHeads(l) ==
    \A b \in BranchesOf(l) : \A i \in 1..Len(LineOf(l, b)) : LineOf(l, b)[i] \in MovedCells(l)

TreeInv ==
    /\ OwnInv /\ OnceHeads(log)
    /\ CellCount(log) <= MaxCells /\ BranchCount(log) + RootBranch <= MaxBranches

\* Nothing is committed, and no head moves.
Kept(l, m) ==
    /\ \A b : Commits(m, b) = Commits(l, b) /\ Own(m, b) = Own(l, b)
    /\ CellCount(m) \in Nat /\ CellCount(l) \in Nat
    /\ BranchCount(m) \in Nat /\ BranchCount(l) \in Nat

\* What is neither a commit nor a move of a head keeps both.
LEMMA OthersKeep ==
    ASSUME NEW l, LogInv(l), NEW f \in Facts, f.type \notin {"CellCommitted", "HeadMoved"}
    PROVE  /\ Kept(l, Append(l, f))
           /\ CellCount(Append(l, f)) = CellCount(l) + IF f.type = "CellChecked" THEN 1 ELSE 0
           /\ BranchCount(Append(l, f)) = BranchCount(l) + IF f.type = "BranchCreated" THEN 1 ELSE 0
<1>1. l \in Seq(Facts)
  BY DEF LogInv
<1>2. \A b : Commits(Append(l, f), b) = Commits(l, b)
  <2> TAKE b
  <2>1. Commits(Append(l, f), b) = IF f.type = "CellCommitted" /\ f.branch = b
                                   THEN Append(Commits(l, b), f) ELSE Commits(l, b)
    BY <1>1, CommitsGrow
  <2> QED BY <2>1
<1>3. \A b : Own(Append(l, f), b) = Own(l, b)
  BY OwnKept
<1>4. /\ CellCount(l) \in Nat /\ BranchCount(l) \in Nat
      /\ CellCount(Append(l, f)) = CellCount(l) + IF f.type = "CellChecked" THEN 1 ELSE 0
      /\ BranchCount(Append(l, f)) = BranchCount(l) + IF f.type = "BranchCreated" THEN 1 ELSE 0
  BY <1>1, AppendCounts
<1> QED BY <1>2, <1>3, <1>4 DEF Kept

\* A step that commits nothing and moves no head.
LEMMA OwnSame ==
    ASSUME OwnInv, MoversStay, Kept(log, log')
    PROVE  OwnInv'
<1>1. \A t \in Handles : (st'[t].pc = "move") = (st[t].pc = "move")
  BY DEF MoversStay
<1>2. \A t \in Handles : \A b : Moving(t, b)' <=> Moving(t, b)
  BY <1>1 DEF Moving, MoversStay
<1>3. ASSUME NEW b \in Nat, \A s \in Handles : ~Moving(s, b)'
      PROVE  Commits(log', b) = Own(log', b)
  <2>1. Commits(log, b) = Own(log, b)
    BY <1>2, <1>3 DEF OwnInv
  <2> QED BY <2>1 DEF Kept
<1>4. ASSUME NEW s \in Handles, st'[s].pc = "move"
      PROVE  Commits(log', st'[s].branch) =
                Append(Own(log', st'[s].branch), CellCommitted(st'[s].branch, st'[s].cell))
  <2>1. st'[s] = st[s] /\ st[s].pc = "move"
    BY <1>4 DEF MoversStay
  <2>2. Commits(log, st[s].branch) =
           Append(Own(log, st[s].branch), CellCommitted(st[s].branch, st[s].cell))
    BY <2>1 DEF OwnInv
  <2>3. /\ Commits(log', st[s].branch) = Commits(log, st[s].branch)
        /\ Own(log', st[s].branch) = Own(log, st[s].branch)
    BY DEF Kept
  <2> QED BY <2>1, <2>2, <2>3
<1> QED BY <1>3, <1>4, Zenon DEF OwnInv

\* CellCommitted: the cell is on no line yet.
LEMMA OwnCommit ==
    ASSUME SessionInv, OwnInv, NEW s \in Handles, CommitStep(s)
    PROVE  OwnInv'
<1> DEFINE b == st[s].branch
           c == st[s].cell
           f == CellCommitted(b, c)
<1>1. /\ LogInv(log) /\ TurnInv /\ st = [t \in Handles |-> st[t]] /\ IsHandle(st[s])
  BY DEF SessionInv, HandleInv
<1>2. st[s].pc = "commit" /\ log' = Append(log, f)
  BY DEF CommitStep
<1>3. /\ f \in Facts /\ f.type = "CellCommitted" /\ f.branch = b
  BY <1>1, FactShapes DEF IsHandle, CellCommitted
<1>4. \A t \in Handles : st[t].pc # "move"
  BY <1>1, <1>2 DEF TurnInv
<1>5. \A x \in Nat : Commits(log, x) = Own(log, x)
  BY <1>4 DEF OwnInv, Moving
<1>6. /\ st'[s].pc = "move" /\ st'[s].branch = b /\ st'[s].cell = c
      /\ \A t \in Handles : t # s => st'[t] = st[t]
  <2> DEFINE q == [st[s] EXCEPT !.pc = "move"]
  <2>1. q.pc = "move" /\ q.branch = b /\ q.cell = c
    BY <1>1 DEF IsHandle
  <2>2. st' = [st EXCEPT ![s] = q]
    BY DEF CommitStep
  <2> HIDE DEF q, b, c
  <2> QED BY <1>1, <2>1, <2>2
<1> HIDE DEF f
<1>7. \A x : Own(log', x) = Own(log, x)
  BY <1>1, <1>2, <1>3, OwnKept
<1>8. \A x : Commits(log', x) = IF x = b THEN Append(Commits(log, x), f) ELSE Commits(log, x)
  <2> TAKE x
  <2>1. Commits(log', x) = IF f.type = "CellCommitted" /\ f.branch = x
                           THEN Append(Commits(log, x), f) ELSE Commits(log, x)
    BY <1>1, <1>2, <1>3, CommitsGrow DEF LogInv
  <2> QED BY <1>3, <2>1
<1>9. ASSUME NEW x \in Nat, \A t \in Handles : ~Moving(t, x)'
      PROVE  Commits(log', x) = Own(log', x)
  <2>1. x # b
    BY <1>6, <1>9 DEF Moving
  <2> HIDE DEF b
  <2> QED BY <1>5, <1>7, <1>8, <2>1
<1>10. ASSUME NEW t \in Handles, st'[t].pc = "move"
       PROVE  Commits(log', st'[t].branch) =
                 Append(Own(log', st'[t].branch), CellCommitted(st'[t].branch, st'[t].cell))
  <2>1. t = s
    BY <1>4, <1>6, <1>10
  <2>2. b \in Nat
    BY <1>1 DEF IsHandle
  <2>3. Commits(log', b) = Append(Own(log', b), f)
    <3> HIDE DEF b
    <3> QED BY <1>5, <1>7, <1>8, <2>2
  <2> QED BY <1>6, <2>1, <2>3 DEF f
<1> QED BY <1>9, <1>10, Zenon DEF OwnInv

\* HeadMoved: the cell joins the line of its branch.
LEMMA OwnMove ==
    ASSUME SessionInv, OwnInv, NEW s \in Handles, MoveStep(s)
    PROVE  /\ OwnInv'
           /\ LoadHead(log', st[s].branch) = st[s].cell
           /\ Own(log', st[s].branch) =
                 Append(Own(log, st[s].branch), CellCommitted(st[s].branch, st[s].cell))
           /\ \A x : x # st[s].branch => Own(log', x) = Own(log, x)
           /\ Created(log, st[s].branch)
<1> DEFINE b == st[s].branch
           c == st[s].cell
           f == HeadMoved(b, st[s].head, c)
           g == CellCommitted(b, c)
<1>1. /\ LogInv(log) /\ TurnInv /\ st = [t \in Handles |-> st[t]] /\ HandleInv(log, st[s])
  BY DEF SessionInv
<1>2. st[s].pc = "move" /\ log' = Append(log, f)
  BY DEF MoveStep
<1>3. IsHandle(st[s]) /\ c \in 1..CellCount(log) /\ Created(log, b)
  BY <1>1, <1>2 DEF HandleInv, AtHead
<1>4. CellCount(log) \in Nat
  BY <1>1, Positions DEF CellCount, LogInv
<1>5. c # NoCell /\ b \in Nat /\ c \in Nat
  BY <1>3, <1>4 DEF NoCell, IsHandle
<1>6. /\ f \in Facts /\ f.type = "HeadMoved" /\ f.branch = b /\ f.cell = c
      /\ g \in Facts /\ g.cell = c
  BY <1>3, FactShapes DEF IsHandle, HeadMoved, CellCommitted
<1>7. Commits(log, b) = Append(Own(log, b), g)
  BY <1>2 DEF OwnInv
<1>8. Own(log, b) \in Seq(Facts)
  BY <1>1, <1>3, <1>5, LineParts
<1>9. \A t \in Handles : st'[t].pc = "idle"
  <2>1. PICK q : st' = [st EXCEPT ![s] = q] /\ q.pc = "idle"
    BY DEF MoveStep
  <2> QED BY <1>1, <1>2, <2>1 DEF TurnInv
<1>10. \A x \in Nat : x # b => Commits(log, x) = Own(log, x)
  <2>1. \A t \in Handles : st[t].pc = "move" => st[t].branch = b
    BY <1>1, <1>2 DEF TurnInv
  <2> QED BY <2>1 DEF OwnInv, Moving
<1> HIDE DEF f, g, b, c
<1>11. LoadHead(log', b) = c /\ Own(log', b) = Append(Own(log, b), g)
  <2>1. f.cell # NoCell /\ g.cell = f.cell /\ Commits(log, f.branch) = Append(Own(log, b), g)
    BY <1>5, <1>6, <1>7
  <2>2. /\ LoadHead(Append(log, f), f.branch) = f.cell
        /\ Own(Append(log, f), f.branch) = Append(Own(log, b), g)
    BY <1>1, <1>6, <1>8, <2>1, OwnMoves
  <2> QED BY <1>2, <1>6, <2>2
<1>12. \A x : x # b => Own(log', x) = Own(log, x)
  BY <1>1, <1>2, <1>6, OwnKept
<1>13. \A x : Commits(log', x) = Commits(log, x)
  <2> TAKE x
  <2>1. Commits(log', x) = IF f.type = "CellCommitted" /\ f.branch = x
                           THEN Append(Commits(log, x), f) ELSE Commits(log, x)
    BY <1>1, <1>2, <1>6, CommitsGrow DEF LogInv
  <2> QED BY <1>6, <2>1
<1>14. \A x \in Nat : Commits(log', x) = Own(log', x)
  BY <1>7, <1>10, <1>11, <1>12, <1>13
<1>15. OwnInv'
  BY <1>9, <1>14 DEF OwnInv
<1> QED BY <1>3, <1>11, <1>12, <1>15 DEF b, c, g

-----------------------------------------------------------------------------
(* Lines and the cursor, after one more fact. *)

\* The branches of the tree are those that were created, numbered from the root.
LEMMA BranchesCreated ==
    ASSUME NEW l, LogInv(l)
    PROVE  /\ \A b : b \in BranchesOf(l) <=> Created(l, b)
           /\ \A b \in BranchesOf(l) : b \in Nat /\ b \in 1..(BranchCount(l) + RootBranch)
<1>1. l \in Seq(Facts) /\ NumbersInv(l)
  BY DEF LogInv
<1>2. \A b : b \in BranchesOf(l) <=> Created(l, b)
  BY DEF BranchesOf, Created, OnBranch
<1>3. BranchCount(l) \in Nat
  BY <1>1, Positions DEF BranchCount
<1>4. \A i \in OfType(l, "BranchCreated") : l[i].branch \in Nat
  BY <1>1, Positions DEF OfType
<1>5. \A b \in BranchesOf(l) : b \in 1..(BranchCount(l) + RootBranch)
  BY <1>1, <1>3, <1>4 DEF BranchesOf, NumbersInv, RootBranch
<1> QED BY <1>2, <1>3, <1>5 DEF RootBranch

\* A line changes only when the head of its branch moves.
LEMMA LineStays ==
    ASSUME NEW l, LogInv(l), NEW f \in Facts, LogInv(Append(l, f)),
           NEW b \in BranchesOf(l), f.type = "HeadMoved" => f.branch # b
    PROVE  LineOf(Append(l, f), b) = LineOf(l, b) /\ b \in BranchesOf(Append(l, f))
<1>1. l \in Seq(Facts)
  BY DEF LogInv
<1>2. b \in Nat /\ Created(l, b)
  BY BranchesCreated
<1>3. Created(Append(l, f), b) /\ b \in BranchesOf(Append(l, f))
  <2>1. Created(Append(l, f), b)
    BY <1>1, <1>2, StartStays
  <2> QED BY <2>1, BranchesCreated
<1>4. Inherited(Append(l, f), b) = Inherited(l, b)
  BY <1>2, InheritedStays
<1>5. Own(Append(l, f), b) = Own(l, b)
  BY OwnKept
<1>6. /\ LineOf(l, b) = Cells(Inherited(l, b) \o Own(l, b))
      /\ LineOf(Append(l, f), b) = Cells(Inherited(Append(l, f), b) \o Own(Append(l, f), b))
  BY <1>2, <1>3, LineParts
<1> QED BY <1>3, <1>4, <1>5, <1>6

\* A fact that creates no branch and moves no head changes no line.
LEMMA LinesStay ==
    ASSUME NEW l, LogInv(l), NEW f \in Facts, LogInv(Append(l, f)),
           f.type \notin {"HeadMoved", "BranchCreated"}
    PROVE  Lines(Append(l, f)) = Lines(l)
<1>1. l \in Seq(Facts)
  BY DEF LogInv
<1>2. /\ \A t : OfType(Append(l, f), t) = OfType(l, t) \cup (IF f.type = t THEN {Len(l) + 1} ELSE {})
      /\ \A i \in DOMAIN l : Append(l, f)[i] = l[i]
      /\ \A t : OfType(l, t) \in SUBSET DOMAIN l
  BY <1>1, AppendFact, Positions
<1>3. OfType(Append(l, f), "BranchCreated") = OfType(l, "BranchCreated")
  <2>1. OfType(Append(l, f), "BranchCreated") = OfType(l, "BranchCreated") \cup
           (IF f.type = "BranchCreated" THEN {Len(l) + 1} ELSE {})
    BY <1>2
  <2> QED BY <2>1
<1>4. BranchesOf(Append(l, f)) = BranchesOf(l)
  BY <1>2, <1>3 DEF BranchesOf
<1>5. \A b \in BranchesOf(l) : LineOf(Append(l, f), b) = LineOf(l, b)
  BY LineStays
<1> HIDE DEF BranchesOf
<1> QED BY <1>4, <1>5 DEF Lines

\* What moves the cursor.
Moves(l) == OfType(l, "HeadMoved") \cup OfType(l, "RestoreCompleted")

\* Where the cursor is, by the last fact that moved it.
LEMMA CursorUnfold ==
    ASSUME NEW l
    PROVE  CursorOf(l) = IF Moves(l) = {} THEN <<RootBranch, NoCell>>
                         ELSE <<ActiveBranch(l, l[Max(Moves(l))]), l[Max(Moves(l))].cell>>
<1> DEFINE M == Moves(l)
           f == l[Max(M)]
<1>1. LoadSessionState(l) = IF M = {} THEN StateAt(l, RootBranch, NoCell)
                            ELSE StateAt(l, ActiveBranch(l, f), f.cell)
  BY Zenon DEF LoadSessionState, Moves
<1>2. \A b, h : StateAt(l, b, h).branch = b /\ StateAt(l, b, h).head = h
  BY DEF StateAt
<1>3. CursorOf(l) = <<LoadSessionState(l).branch, LoadSessionState(l).head>>
  BY Zenon DEF CursorOf
<1> HIDE DEF M, f
<1>4. CASE M = {}
  BY <1>1, <1>2, <1>3, <1>4 DEF M
<1>5. CASE M # {}
  BY <1>1, <1>2, <1>3, <1>5 DEF M, f
<1> QED BY <1>4, <1>5

\* Any other fact leaves the cursor where it is.
LEMMA CursorStays ==
    ASSUME NEW l, LogInv(l), NEW f \in Facts, LogInv(Append(l, f)),
           f.type \notin {"HeadMoved", "RestoreCompleted"}
    PROVE  CursorOf(Append(l, f)) = CursorOf(l)
<1> DEFINE m == Append(l, f)
           M == Moves(l)
           g == l[Max(M)]
<1>1. l \in Seq(Facts) /\ HeadsInv(l)
  BY DEF LogInv
<1>2. /\ \A t : OfType(m, t) = OfType(l, t) \cup (IF f.type = t THEN {Len(l) + 1} ELSE {})
      /\ \A i \in DOMAIN l : m[i] = l[i]
      /\ \A t : OfType(l, t) \in SUBSET DOMAIN l
  BY <1>1, AppendFact, Positions
<1>3. Moves(m) = M
  <2>1. /\ OfType(m, "HeadMoved") = OfType(l, "HeadMoved") \cup
              (IF f.type = "HeadMoved" THEN {Len(l) + 1} ELSE {})
        /\ OfType(m, "RestoreCompleted") = OfType(l, "RestoreCompleted") \cup
              (IF f.type = "RestoreCompleted" THEN {Len(l) + 1} ELSE {})
    BY <1>2
  <2> HIDE DEF m
  <2> QED BY <2>1 DEF Moves
<1>4. M \in SUBSET DOMAIN l
  BY <1>2 DEF Moves
<1>5. CASE M = {}
  BY <1>3, <1>5, CursorUnfold
<1>6. CASE M # {}
  <2>1. M \in SUBSET Nat /\ IsFiniteSet(M)
    BY <1>1, <1>4, Positions
  <2>2. Max(M) \in M
    <3> HIDE DEF M
    <3> QED BY <1>6, <2>1, FiniteMaxProperties
  <2>3. m[Max(M)] = g
    <3> HIDE DEF M, m
    <3> QED BY <1>2, <1>4, <2>2
  <2>4. g.cell \in MovedCells(l)
    BY <1>1, <2>2 DEF Moves, HeadsInv, MovedCells
  <2>5. branchForCell(m, g.cell) = branchForCell(l, g.cell)
    <3> DEFINE b == branchForCell(l, g.cell)
    <3>1. CommittedOn(l, b, g.cell)
      BY <2>4, MovedPlace
    <3> HIDE DEF b
    <3>2. CommittedOn(m, b, g.cell)
      BY <1>1, <3>1, KnownStays
    <3>3. branchForCell(m, g.cell) = b
      BY <3>2, BranchForCell
    <3> QED BY <3>3 DEF b
  <2> HIDE DEF g, M, m
  <2>6. ActiveBranch(m, g) = ActiveBranch(l, g)
    BY <2>5 DEF ActiveBranch
  <2>7. CursorOf(m) = <<ActiveBranch(m, g), g.cell>>
    BY <1>3, <1>6, <2>3, CursorUnfold
  <2>8. CursorOf(l) = <<ActiveBranch(l, g), g.cell>>
    BY <1>6, CursorUnfold DEF M, g
  <2> QED BY <2>6, <2>7, <2>8 DEF m
<1> QED BY <1>5, <1>6

\* A head that moves, or a restore, takes the cursor along.
LEMMA CursorMoves ==
    ASSUME NEW l \in Seq(Facts), NEW f \in Facts,
           f.type \in {"HeadMoved", "RestoreCompleted"}
    PROVE  CursorOf(Append(l, f)) = <<ActiveBranch(Append(l, f), f), f.cell>>
<1> DEFINE m == Append(l, f)
           n == Len(l) + 1
           M == Moves(m)
<1>1. /\ n \in Nat /\ m[n] = f /\ DOMAIN l \in SUBSET Nat /\ m \in Seq(Facts)
      /\ \A t : OfType(m, t) = OfType(l, t) \cup (IF f.type = t THEN {n} ELSE {})
      /\ \A i \in DOMAIN l : i < n
      /\ \A t : OfType(l, t) \in SUBSET DOMAIN l
  BY AppendFact, Positions
<1>2. M \in SUBSET DOMAIN m
  BY <1>1, Positions DEF Moves
<1>3. M \in SUBSET Nat /\ IsFiniteSet(M)
  BY <1>1, <1>2, Positions
<1>4. n \in M /\ \A i \in M : i <= n
  <2> HIDE DEF m, n
  <2>1. \A t : \A i \in OfType(m, t) : i <= n
    BY <1>1
  <2>2. n \in OfType(m, f.type)
    <3>1. OfType(m, f.type) = OfType(l, f.type) \cup {n}
      BY <1>1
    <3> QED BY <3>1
  <2> QED BY <2>1, <2>2 DEF Moves
<1>5. Max(M) = n
  <2> HIDE DEF M, n
  <2>1. Max(M) \in M /\ \A y \in M : y <= Max(M)
    BY <1>3, <1>4, FiniteMaxProperties
  <2>2. Max(M) \in Nat /\ n <= Max(M) /\ Max(M) <= n
    BY <1>3, <1>4, <2>1
  <2> QED BY <1>1, <2>2
<1>6. M # {}
  BY <1>4
<1> HIDE DEF M, m, n
<1> QED BY <1>1, <1>5, <1>6, CursorUnfold DEF M, m

-----------------------------------------------------------------------------
(* The lineage of a cell is a prefix of its branch's line. *)

\* A prefix of the own part of a line is a prefix of the line.
LEMMA PrefixParts ==
    ASSUME NEW a \in Seq(Facts), NEW s \in Seq(Facts), NEW k \in 0..Len(s)
    PROVE  Cells(a \o SubSeq(s, 1, k)) = SubSeq(Cells(a \o s), 1, Len(a) + k)
<1> DEFINE u == SubSeq(s, 1, k)
           n == Len(a) + k
           w == a \o s
           v == a \o u
<1>1. /\ u \in Seq(Facts) /\ Len(u) = k /\ Len(a) \in Nat /\ Len(s) \in Nat /\ k \in Nat
      /\ \A i \in 1..k : u[i] = s[i]
  OBVIOUS
<1> HIDE DEF u
<1>2. w \in Seq(Facts) /\ v \in Seq(Facts) /\ Len(w) = Len(a) + Len(s) /\ Len(v) = n /\ n <= Len(w)
  BY <1>1
<1>3. \A i \in 1..n : v[i] = w[i]
  <2> TAKE i \in 1..n
  <2>1. CASE i <= Len(a)
    BY <1>1, <2>1
  <2>2. CASE i > Len(a)
    <3>1. i - Len(a) \in 1..k /\ i - Len(a) \in 1..Len(s)
      BY <1>1, <2>2
    <3>2. v[i] = u[i - Len(a)] /\ w[i] = s[i - Len(a)]
      BY <1>1, <2>2, <3>1
    <3> QED BY <1>1, <3>1, <3>2
  <2> QED BY <1>1, <2>1, <2>2
<1> HIDE DEF v, w
<1>4. /\ Cells(v) \in Seq(Nat) /\ Len(Cells(v)) = n /\ \A i \in 1..n : Cells(v)[i] = v[i].cell
      /\ Cells(w) \in Seq(Nat) /\ Len(Cells(w)) = Len(w)
      /\ \A i \in 1..Len(w) : Cells(w)[i] = w[i].cell
  <2>1. \A t \in Seq(Facts) : /\ Cells(t) \in Seq(Nat) /\ Len(Cells(t)) = Len(t)
                              /\ \A i \in 1..Len(t) : Cells(t)[i] = t[i].cell
    <3>1. \E f : f \in Facts
      BY FactShapes
    <3> QED BY <3>1, CellsOf
  <2> QED BY <1>2, <2>1
<1> DEFINE p == SubSeq(Cells(w), 1, n)
<1>5. p \in Seq(Nat) /\ Len(p) = n /\ \A i \in 1..n : p[i] = Cells(w)[i]
  BY <1>1, <1>2, <1>4
<1>6. n \in Nat /\ \A i \in 1..n : i \in 1..Len(w)
  BY <1>1, <1>2
<1> HIDE DEF p, n
<1>7. \A i \in 1..n : Cells(v)[i] = p[i]
  BY <1>3, <1>4, <1>5, <1>6
<1>8. Cells(v) = p
  BY <1>4, <1>5, <1>6, <1>7
<1> QED BY <1>8 DEF p, v, w, n, u

\* Where a cell is on the line of its branch.
LEMMA PlaceOnLine ==
    ASSUME NEW l, LogInv(l), NEW p \in Nat, Created(l, p), NEW c \in Nat, CommittedOn(l, p, c),
           Commits(l, p) = Own(l, p)
    PROVE  \E n \in 1..Len(LineOf(l, p)) :
              /\ LineOf(l, p)[n] = c
              /\ Cells(collectAncestorChain(l, p, c)) = SubSeq(LineOf(l, p), 1, n)
<1> DEFINE a == Inherited(l, p)
           s == Commits(l, p)
           at == {i \in DOMAIN s : s[i].cell = c}
           k == Min(at)
           n == Len(a) + k
<1>1. l \in Seq(Facts)
  BY DEF LogInv
<1>2. /\ a \in Seq(Facts) /\ s \in Seq(Facts) /\ LineOf(l, p) = Cells(a \o s)
  BY LineParts
<1>3. \E i \in DOMAIN s : s[i].cell = c
  BY <1>1, CommitListed
<1>4. at \in SUBSET Nat /\ at # {} /\ at \in SUBSET (1..Len(s))
  <2> HIDE DEF s
  <2> QED BY <1>2, <1>3
<1>5. k \in at
  <2> HIDE DEF at
  <2> QED BY <1>4, MinProperties
<1>6. k \in 1..Len(s) /\ s[k].cell = c
  BY <1>4, <1>5
<1>7. committedCellsUpTo(l, p, c) = SubSeq(s, 1, k)
  <2>1. UpTo(s, c) = SubSeq(s, 1, Min(at))
    BY <1>4, Zenon DEF UpTo
  <2> QED BY <2>1 DEF committedCellsUpTo
<1>8. collectAncestorChain(l, p, c) = a \o committedCellsUpTo(l, p, c)
  BY ChainParts
<1> HIDE DEF a, s, at, k
<1>9. k \in 0..Len(s) /\ Len(s) \in Nat /\ Len(a) \in Nat
  BY <1>2, <1>6
<1>10. Cells(collectAncestorChain(l, p, c)) = SubSeq(LineOf(l, p), 1, n)
  BY <1>2, <1>7, <1>8, <1>9, PrefixParts
<1> DEFINE w == a \o s
<1>11. w \in Seq(Facts) /\ Len(w) = Len(a) + Len(s) /\ w[n] = s[k] /\ n \in 1..Len(w)
  BY <1>2, <1>6, <1>9
<1> HIDE DEF w, n
<1>12. Len(Cells(w)) = Len(w) /\ \A i \in 1..Len(w) : Cells(w)[i] = w[i].cell
  <2>1. \E f : f \in Facts
    BY FactShapes
  <2> QED BY <1>11, <2>1, CellsOf
<1>13. n \in 1..Len(LineOf(l, p)) /\ LineOf(l, p)[n] = c
  BY <1>2, <1>6, <1>11, <1>12 DEF w
<1> QED BY <1>10, <1>13

\* A fork starts with the lineage of the cell it is made at.
LEMMA ForkLine ==
    ASSUME NEW l, l = log, LogInv(l), NEW c \in MovedCells(l)
    PROVE  LET b == NextBranch
               m == Append(l, BranchCreated(b, c))
           IN  /\ LogInv(m) /\ ~Created(l, b) /\ b \in Nat
               /\ BranchesOf(m) = BranchesOf(l) \cup {b}
               /\ LineOf(m, b) = Cells(collectAncestorChain(l, branchForCell(l, c), c))
<1> DEFINE b == NextBranch
           f == BranchCreated(b, c)
           m == Append(l, f)
           p == branchForCell(l, c)
<1>1. l \in Seq(Facts) /\ NumbersInv(l) /\ HeadsInv(l)
  BY DEF LogInv
<1>2. f \in Facts /\ LogInv(m)
  BY ForkFacts
<1>3. f.type = "BranchCreated" /\ f.branch = b /\ f.cell = c
  BY DEF BranchCreated
<1>4. b = BranchCount(l) + 2 /\ BranchCount(l) \in Nat /\ b \in Nat /\ b # RootBranch
  <2>1. BranchCount(l) \in Nat
    BY <1>1, Positions DEF BranchCount
  <2>2. b = BranchCount(l) + 2
    BY <2>1 DEF NextBranch, BranchCount, RootBranch
  <2> QED BY <2>1, <2>2 DEF RootBranch
<1> HIDE DEF b, f
<1>5. ~Created(l, b)
  <2>1. \A i \in OfType(l, "BranchCreated") : l[i].branch \in Nat /\ l[i].branch < b
    BY <1>1, <1>4, Positions DEF NumbersInv, OfType
  <2> QED BY <1>4, <2>1 DEF Created, OnBranch
<1>6. /\ m[Len(l) + 1] = f /\ \A i \in DOMAIN l : m[i] = l[i]
      /\ \A t : OfType(m, t) = OfType(l, t) \cup (IF f.type = t THEN {Len(l) + 1} ELSE {})
      /\ \A t, x : OnBranch(m, t, x) = OnBranch(l, t, x) \cup
                      (IF f.type = t /\ f.branch = x THEN {Len(l) + 1} ELSE {})
      /\ \A t : OfType(l, t) \in SUBSET DOMAIN l /\ Len(l) + 1 \in Nat
  BY <1>1, <1>2, AppendFact, Positions
<1> HIDE DEF m
<1>7. BranchesOf(m) = BranchesOf(l) \cup {b}
  <2>1. OfType(m, "BranchCreated") = OfType(l, "BranchCreated") \cup {Len(l) + 1}
    BY <1>3, <1>6
  <2>2. OfType(l, "BranchCreated") \in SUBSET DOMAIN l
    BY <1>6
  <2> QED BY <1>3, <1>6, <2>1, <2>2 DEF BranchesOf
<1>8. OnBranch(m, "BranchCreated", b) = {Len(l) + 1}
  <2>1. OnBranch(m, "BranchCreated", b) = OnBranch(l, "BranchCreated", b) \cup {Len(l) + 1}
    BY <1>3, <1>6
  <2> QED BY <1>5, <2>1 DEF Created
<1>9. Created(m, b)
  BY <1>8 DEF Created
<1>10. p \in Nat /\ Created(l, p) /\ c \in Nat /\ CommittedOn(l, p, c)
  BY MovedPlace
<1> HIDE DEF p
<1>11. CommittedOn(m, p, c)
  BY <1>1, <1>2, <1>10, KnownStays DEF m
<1>12. branchForCell(m, c) = p
  BY <1>2, <1>11, BranchForCell
<1>13. ForkOf(m, b).branch = p /\ ForkOf(m, b).stop = c
  <2> DEFINE S == {Len(l) + 1}
  <2>1. Min(S) = Len(l) + 1
    <3>1. Min(S) \in S
      <4>1. S \in SUBSET Nat /\ S # {}
        BY <1>6
      <4> HIDE DEF S
      <4> QED BY <4>1, MinProperties
    <3> QED BY <3>1
  <2> HIDE DEF S
  <2>2. ForkOf(m, b) = ForkedFrom(m, Min(S))
    BY <1>8 DEF ForkOf, S
  <2>3. m[Min(S)].cell = c
    BY <1>3, <1>6, <2>1
  <2>4. ForkedFrom(m, Min(S)) = [branch |-> branchForCell(m, c), stop |-> c, cutoff |-> Min(S)]
    BY <2>3 DEF ForkedFrom
  <2> QED BY <1>12, <2>2, <2>4
<1>14. Inherited(m, b) = collectAncestorChain(l, p, c)
  <2>1. Inherited(m, b) = collectAncestorChain(m, p, c)
    BY <1>2, <1>4, <1>9, <1>13, InheritedUnfold
  <2>2. collectAncestorChain(m, p, c) = collectAncestorChain(l, p, c)
    BY <1>2, <1>10, ChainStays DEF m
  <2> QED BY <2>1, <2>2
<1>15. LoadHead(m, b) = NoCell
  <2>1. LoadHead(m, b) = LoadHead(l, b)
    BY <1>1, <1>2, <1>3, KnownStays DEF m
  <2>2. LoadHead(l, b) = NoCell
    BY <1>5, HeadCommitted
  <2> QED BY <2>1, <2>2
<1>16. LineOf(m, b) = Cells(Inherited(m, b))
  BY <1>15, Zenon DEF LineOf, Inherited
<1> QED BY <1>2, <1>4, <1>5, <1>7, <1>14, <1>16 DEF m, f, b, p

-----------------------------------------------------------------------------
(* Every step is a step of the tree. *)

SameTree == Lines(log') = Lines(log) /\ CursorOf(log') = CursorOf(log)

GrowsAt(b, c) ==
    /\ b \in BranchesOf(log) /\ c \in 1..MaxCells
    /\ c \notin MovedCells(log) /\ c \in MovedCells(log')
    /\ Lines(log') = [Lines(log) EXCEPT ![b] = Append(@, c)]
    /\ CursorOf(log') = <<b, c>>

OnLine(p, n) == p \in BranchesOf(log) /\ n \in 1..Len(LineOf(log, p))

CursorTo(p, n) ==
    /\ OnLine(p, n) /\ Lines(log') = Lines(log)
    /\ CursorOf(log') = <<p, LineOf(log, p)[n]>>

Copies(b, p, n) ==
    /\ OnLine(p, n) /\ b \notin BranchesOf(log)
    /\ Lines(log') = [q \in BranchesOf(log) \cup {b} |->
                        IF q = b THEN SubSeq(LineOf(log, p), 1, n) ELSE LineOf(log, q)]
    /\ CursorOf(log') \in {CursorOf(log), <<b, LineOf(log, p)[n]>>}

\* Facts about checks, evaluations, failures and transitions, and CellCommitted.
LEMMA QuietTree ==
    ASSUME LogInv(log), LogInv(log'),
           \/ log' = log
           \/ \E f : log' = Append(log, f) /\
                     f.type \notin {"HeadMoved", "BranchCreated", "RestoreCompleted"}
    PROVE  SameTree
<1>1. CASE log' = log
  BY <1>1 DEF SameTree, Lines, CursorOf
<1>2. CASE \E f : log' = Append(log, f) /\
                  f.type \notin {"HeadMoved", "BranchCreated", "RestoreCompleted"}
  <2>1. PICK f : log' = Append(log, f) /\
                 f.type \notin {"HeadMoved", "BranchCreated", "RestoreCompleted"}
    BY <1>2
  <2>2. f \in Facts
    <3>1. log \in Seq(Facts) /\ log' \in Seq(Facts)
      BY DEF LogInv
    <3>2. log'[Len(log) + 1] = f /\ Len(log) + 1 \in DOMAIN log'
      BY <2>1, <3>1
    <3> QED BY <3>1, <3>2
  <2>3. Lines(Append(log, f)) = Lines(log)
    BY <2>1, <2>2, LinesStay
  <2>4. CursorOf(Append(log, f)) = CursorOf(log)
    BY <2>1, <2>2, CursorStays
  <2> QED BY <2>1, <2>3, <2>4 DEF SameTree
<1> QED BY <1>1, <1>2

\* HeadMoved.
LEMMA MoveTree ==
    ASSUME SessionInv, SessionInv', TreeInv, CellOrderInv, NEW s \in Handles, MoveStep(s)
    PROVE  GrowsAt(st[s].branch, st[s].cell)
<1> DEFINE b == st[s].branch
           c == st[s].cell
           f == HeadMoved(b, st[s].head, c)
           g == CellCommitted(b, c)
<1>1. LogInv(log) /\ LogInv(log') /\ HandleInv(log, st[s]) /\ IsHandle(st[s])
  BY DEF SessionInv, HandleInv
<1>2. st[s].pc = "move" /\ log' = Append(log, f)
  BY DEF MoveStep
<1>3. /\ OwnInv
      /\ c \in 1..CellCount(log) /\ CellCount(log) <= MaxCells /\ CellCount(log) \in Nat
      /\ b \in Nat /\ c \in Nat
  BY <1>1, <1>2, Positions DEF TreeInv, HandleInv, IsHandle, CellCount, LogInv
<1>4. c \in 1..MaxCells
  BY <1>3, SessionAssumption
<1>5. /\ f \in Facts /\ f.type = "HeadMoved" /\ f.branch = b /\ f.cell = c
      /\ g \in Facts /\ g.cell = c
  BY <1>1, FactShapes DEF IsHandle, HeadMoved, CellCommitted
<1>6. /\ Own(log', b) = Append(Own(log, b), g) /\ Created(log, b)
  BY <1>3, OwnMove
<1>7. c \notin MovedCells(log)
  BY <1>2 DEF CellOrderInv, MovedCells, OfCell
<1> HIDE DEF f, g, b, c
<1>8. log \in Seq(Facts)
  BY <1>1 DEF LogInv
<1>9. /\ \A t : OfType(log', t) = OfType(log, t) \cup (IF f.type = t THEN {Len(log) + 1} ELSE {})
      /\ \A i \in DOMAIN log : log'[i] = log[i]
      /\ log'[Len(log) + 1] = f
      /\ \A t : OfType(log, t) \in SUBSET DOMAIN log
  BY <1>2, <1>5, <1>8, AppendFact, Positions
<1>10. c \in MovedCells(log')
  <2>1. Len(log) + 1 \in OfType(log', "HeadMoved")
    BY <1>5, <1>9
  <2> QED BY <1>5, <1>9, <2>1 DEF MovedCells
<1>11. BranchesOf(log') = BranchesOf(log)
  <2>1. OfType(log', "BranchCreated") = OfType(log, "BranchCreated")
    <3>1. OfType(log', "BranchCreated") = OfType(log, "BranchCreated") \cup
             (IF f.type = "BranchCreated" THEN {Len(log) + 1} ELSE {})
      BY <1>9
    <3> QED BY <1>5, <3>1
  <2> QED BY <1>9, <2>1 DEF BranchesOf
<1>12. b \in BranchesOf(log)
  BY <1>1, <1>6, BranchesCreated
<1>13. LineOf(log', b) = Append(LineOf(log, b), c)
  <2>1. Created(log', b)
    BY <1>1, <1>11, <1>12, BranchesCreated
  <2>2. Inherited(log', b) = Inherited(log, b)
    BY <1>1, <1>2, <1>3, <1>5, <1>6, InheritedStays
  <2>3. /\ LineOf(log', b) = Cells(Inherited(log, b) \o Append(Own(log, b), g))
        /\ LineOf(log, b) = Cells(Inherited(log, b) \o Own(log, b))
        /\ Inherited(log, b) \in Seq(Facts) /\ Own(log, b) \in Seq(Facts)
    BY <1>1, <1>3, <1>6, <2>1, <2>2, LineParts
  <2> DEFINE a == Inherited(log, b)
             o == Own(log, b)
             w == a \o o
  <2> HIDE DEF a, o
  <2>4. a \o Append(o, g) = Append(w, g) /\ w \in Seq(Facts)
    <3>1. a \in Seq(Facts) /\ o \in Seq(Facts)
      BY <2>3 DEF a, o
    <3> QED BY <1>5, <3>1
  <2>5. Cells(Append(w, g)) = Append(Cells(w), g.cell)
    <3> HIDE DEF w
    <3> QED BY <1>5, <2>4, CellsOf
  <2> QED BY <1>5, <2>3, <2>4, <2>5 DEF a, o
<1>14. \A x \in BranchesOf(log) : x # b => LineOf(log', x) = LineOf(log, x)
  BY <1>1, <1>2, <1>5, LineStays
<1>15. Lines(log') = [Lines(log) EXCEPT ![b] = Append(@, c)]
  BY <1>11, <1>12, <1>13, <1>14 DEF Lines
<1>16. CursorOf(log') = <<b, c>>
  <2>1. CursorOf(log') = <<ActiveBranch(log', f), f.cell>>
    BY <1>2, <1>5, <1>8, CursorMoves
  <2>2. ActiveBranch(log', f) = f.branch
    BY <1>5, Zenon DEF ActiveBranch
  <2> QED BY <1>5, <2>1, <2>2
<1> QED BY <1>4, <1>7, <1>10, <1>12, <1>15, <1>16 DEF GrowsAt, b, c

\* The place of a cell that was a head, when no submit is going on.
LEMMA HeadOnLine ==
    ASSUME SessionInv, OwnInv, Turn, NEW c \in MovedCells(log)
    PROVE  LET p == branchForCell(log, c)
           IN  \E n : /\ OnLine(p, n) /\ LineOf(log, p)[n] = c
                      /\ Cells(collectAncestorChain(log, p, c)) = SubSeq(LineOf(log, p), 1, n)
<1> DEFINE p == branchForCell(log, c)
<1>1. LogInv(log)
  BY DEF SessionInv
<1>2. p \in Nat /\ Created(log, p) /\ c \in Nat /\ CommittedOn(log, p, c)
  BY <1>1, MovedPlace
<1>3. p \in BranchesOf(log)
  BY <1>1, <1>2, BranchesCreated
<1> HIDE DEF p
<1>4. Commits(log, p) = Own(log, p)
  <2>1. \A s \in Handles : ~Moving(s, p)
    BY DEF Turn, Moving
  <2> QED BY <1>2, <2>1 DEF OwnInv
<1>5. \E n \in 1..Len(LineOf(log, p)) :
              /\ LineOf(log, p)[n] = c
              /\ Cells(collectAncestorChain(log, p, c)) = SubSeq(LineOf(log, p), 1, n)
  BY <1>1, <1>2, <1>4, PlaceOnLine
<1> QED BY <1>3, <1>5 DEF OnLine, p

\* A restore moves the cursor to a cell of a line.
LEMMA RestoreTree ==
    ASSUME SessionInv, SessionInv', OwnInv, Turn, NEW c \in MovedCells(log), RestoreTo(c)
    PROVE  \E p, n : CursorTo(p, n)
<1> DEFINE p == branchForCell(log, c)
           f == RestoreCompleted(c, NoBranch)
<1>1. LogInv(log) /\ LogInv(log') /\ log' = Append(log, f)
  BY DEF SessionInv, RestoreTo
<1>2. log \in Seq(Facts)
  BY <1>1 DEF LogInv
<1>3. p \in Nat /\ c \in Nat /\ CommittedOn(log, p, c)
  BY <1>1, MovedPlace
<1>4. /\ f \in Facts /\ f.type = "RestoreCompleted" /\ f.cell = c /\ f.newBranch = NoBranch
  BY <1>3, FactShapes DEF RestoreCompleted, NoBranch
<1>5. PICK n : OnLine(p, n) /\ LineOf(log, p)[n] = c
  BY HeadOnLine
<1> HIDE DEF p, f
<1>6. Lines(log') = Lines(log)
  BY <1>1, <1>4, LinesStay
<1>7. branchForCell(log', c) = p
  <2>1. CommittedOn(log', p, c)
    BY <1>1, <1>2, <1>3, <1>4, KnownStays
  <2> QED BY <1>1, <2>1, BranchForCell
<1>8. ActiveBranch(log', f) = p
  BY <1>4, <1>7, Zenon DEF ActiveBranch
<1>9. CursorOf(log') = <<p, c>>
  BY <1>1, <1>2, <1>4, <1>8, CursorMoves
<1> QED BY <1>5, <1>6, <1>9 DEF CursorTo

\* A fork copies a prefix of a line, and moves the cursor there when it is completed.
LEMMA ForkTree ==
    ASSUME SessionInv, SessionInv', TreeInv, Turn, NEW c \in MovedCells(log), ForkAt(c)
    PROVE  \E b \in 1..MaxBranches : \E p, n : Copies(b, p, n)
<1> DEFINE p == branchForCell(log, c)
           b == NextBranch
           f == BranchCreated(b, c)
           g == RestoreCompleted(c, b)
           m == Append(log, f)
<1>1. LogInv(log) /\ LogInv(log') /\ OwnInv
  BY DEF SessionInv, TreeInv
<1>2. log \in Seq(Facts) /\ c \in Nat
  BY <1>1, MovedPlace DEF LogInv
<1>3. /\ LogInv(m) /\ ~Created(log, b) /\ b \in Nat
      /\ BranchesOf(m) = BranchesOf(log) \cup {b}
      /\ LineOf(m, b) = Cells(collectAncestorChain(log, p, c))
  BY <1>1, ForkLine
<1>4. b \in 1..MaxBranches /\ b # NoBranch
  <2>1. BranchCount(log) \in Nat /\ b = BranchCount(log) + 2
    BY <1>2, Positions DEF BranchCount, NextBranch, RootBranch
  <2>2. b <= MaxBranches
    BY DEF ForkAt
  <2> QED BY <2>1, <2>2, SessionAssumption DEF NoBranch
<1>5. f \in Facts /\ f.type = "BranchCreated" /\ f.cell = c /\ f.branch = b
  BY <1>2, <1>3, FactShapes DEF BranchCreated
<1>6. g \in Facts /\ g.type = "RestoreCompleted" /\ g.cell = c /\ g.newBranch = b
  BY <1>2, <1>3, FactShapes DEF RestoreCompleted
<1>7. log' = m \/ log' = Append(m, g)
  BY DEF ForkAt
<1>8. PICK n : /\ OnLine(p, n) /\ LineOf(log, p)[n] = c
               /\ Cells(collectAncestorChain(log, p, c)) = SubSeq(LineOf(log, p), 1, n)
  BY <1>1, HeadOnLine
<1> HIDE DEF p, b, f, g
<1>9. b \notin BranchesOf(log)
  BY <1>1, <1>3, BranchesCreated
<1>10. \A q \in BranchesOf(log) : LineOf(m, q) = LineOf(log, q)
  BY <1>1, <1>3, <1>5, LineStays
<1> DEFINE L == [q \in BranchesOf(log) \cup {b} |->
                   IF q = b THEN SubSeq(LineOf(log, p), 1, n) ELSE LineOf(log, q)]
<1>11. Lines(m) = L
  <2> HIDE DEF m
  <2> QED BY <1>3, <1>8, <1>9, <1>10 DEF Lines
<1>12. CursorOf(m) = CursorOf(log)
  BY <1>1, <1>3, <1>5, CursorStays
<1> HIDE DEF m, L
<1>13. CASE log' = m
  BY <1>4, <1>8, <1>9, <1>11, <1>12, <1>13 DEF Copies, L
<1>14. CASE log' = Append(m, g)
  <2>1. m \in Seq(Facts)
    BY <1>3 DEF LogInv
  <2>2. Lines(log') = L
    BY <1>1, <1>3, <1>6, <1>11, <1>14, LinesStay
  <2>3. ActiveBranch(log', g) = b
    BY <1>4, <1>6, Zenon DEF ActiveBranch
  <2>4. CursorOf(log') = <<b, c>>
    BY <1>6, <1>14, <2>1, <2>3, CursorMoves
  <2> QED BY <1>4, <1>8, <1>9, <2>2, <2>4 DEF Copies, L
<1> QED BY <1>7, <1>13, <1>14

\* Every step does one of the four things a tree can do, or shows nothing.
LEMMA EveryStep ==
    ASSUME SessionInv, SessionInv', TreeInv, CellOrderInv, TreeStep
    PROVE  \/ SameTree
           \/ \E b \in 1..MaxBranches, c \in 1..MaxCells : GrowsAt(b, c)
           \/ \E p, n : CursorTo(p, n)
           \/ \E b \in 1..MaxBranches : \E p, n : Copies(b, p, n)
<1>1. LogInv(log) /\ LogInv(log') /\ OwnInv
  BY DEF SessionInv, TreeInv
<1>2. CASE QuietStep
  BY <1>1, <1>2, QuietTree DEF QuietStep, Quiet
<1>3. ASSUME NEW s \in Handles, CommitStep(s) PROVE SameTree
  <2> DEFINE f == CellCommitted(st[s].branch, st[s].cell)
  <2>1. log' = Append(log, f)
    BY <1>3 DEF CommitStep
  <2>2. f.type = "CellCommitted"
    BY DEF CellCommitted
  <2> HIDE DEF f
  <2> QED BY <1>1, <2>1, <2>2, QuietTree
<1>4. ASSUME NEW s \in Handles, MoveStep(s)
      PROVE  \E b \in 1..MaxBranches, c \in 1..MaxCells : GrowsAt(b, c)
  <2>1. GrowsAt(st[s].branch, st[s].cell)
    BY <1>4, MoveTree
  <2>2. st[s].cell \in 1..MaxCells /\ st[s].branch \in BranchesOf(log)
    BY <2>1 DEF GrowsAt
  <2>3. st[s].branch \in 1..(BranchCount(log) + RootBranch)
    BY <1>1, <2>2, BranchesCreated
  <2>4. BranchCount(log) + RootBranch <= MaxBranches /\ BranchCount(log) \in Nat
    BY <1>1, Positions DEF TreeInv, BranchCount, LogInv
  <2>5. st[s].branch \in 1..MaxBranches
    BY <2>3, <2>4, SessionAssumption DEF RootBranch
  <2> QED BY <2>1, <2>2, <2>5
<1>5. ASSUME Turn, NEW c \in MovedCells(log), RestoreTo(c) PROVE \E p, n : CursorTo(p, n)
  BY <1>1, <1>5, RestoreTree
<1>6. ASSUME Turn, NEW c \in MovedCells(log), ForkAt(c)
      PROVE  \E b \in 1..MaxBranches : \E p, n : Copies(b, p, n)
  BY <1>6, ForkTree
<1> QED BY <1>2, <1>3, <1>4, <1>5, <1>6 DEF TreeStep

\* The cells of the lines stay cells that were heads.
LEMMA OnceHeadsStep ==
    ASSUME SessionInv, SessionInv', TreeInv, CellOrderInv, TreeStep
    PROVE  OnceHeads(log')
<1>1. LogInv(log) /\ LogInv(log') /\ OnceHeads(log)
  BY DEF SessionInv, TreeInv
<1>2. MovedCells(log) \subseteq MovedCells(log')
  <2>1. log \in Seq(Facts)
    BY <1>1 DEF LogInv
  <2>2. \A l \in Seq(Facts) : \A f \in Facts : MovedCells(l) \subseteq MovedCells(Append(l, f))
    BY KnownStays
  <2>3. ASSUME NEW f, log' = Append(log, f)
        PROVE  MovedCells(log) \subseteq MovedCells(log')
    <3>1. log' \in Seq(Facts)
      BY <1>1 DEF LogInv
    <3>2. log'[Len(log) + 1] = f /\ Len(log) + 1 \in DOMAIN log'
      BY <2>1, <2>3, <3>1
    <3>3. f \in Facts
      BY <3>1, <3>2
    <3> QED BY <2>1, <2>2, <2>3, <3>3
  <2>4. ASSUME NEW c \in MovedCells(log), ForkAt(c)
        PROVE  MovedCells(log) \subseteq MovedCells(log')
    <3> DEFINE f == BranchCreated(NextBranch, c)
               g == RestoreCompleted(c, NextBranch)
    <3>1. f \in Facts /\ g \in Facts /\ LogInv(Append(log, f))
      BY <1>1, ForkFacts
    <3>2. Append(log, f) \in Seq(Facts)
      BY <3>1 DEF LogInv
    <3>3. log' = Append(log, f) \/ log' = Append(Append(log, f), g)
      BY <2>4 DEF ForkAt
    <3> HIDE DEF f, g
    <3> DEFINE m == Append(log, f)
    <3>4. MovedCells(log) \subseteq MovedCells(m)
      BY <2>1, <2>2, <3>1
    <3>5. MovedCells(m) \subseteq MovedCells(Append(m, g))
      <4> HIDE DEF m
      <4> QED BY <2>2, <3>1, <3>2 DEF m
    <3> QED BY <3>3, <3>4, <3>5
  <2>5. CASE log' = log
    BY <2>5
  <2> QED BY <2>3, <2>4, <2>5 DEF TreeStep, QuietStep, CommitStep, MoveStep, RestoreTo
<1>3. \A l : /\ DOMAIN Lines(l) = BranchesOf(l)
             /\ \A b \in BranchesOf(l) : Lines(l)[b] = LineOf(l, b)
  BY DEF Lines
<1>4. \A b \in BranchesOf(log) : LineOf(log, b) \in Seq(Nat)
  <2> TAKE b \in BranchesOf(log)
  <2>1. b \in Nat /\ Created(log, b)
    BY <1>1, BranchesCreated
  <2> DEFINE w == Inherited(log, b) \o Own(log, b)
  <2>2. w \in Seq(Facts) /\ LineOf(log, b) = Cells(w)
    BY <1>1, <2>1, LineParts
  <2>3. \E f : f \in Facts
    BY FactShapes
  <2> HIDE DEF w
  <2> QED BY <2>2, <2>3, CellsOf
<1>5. ASSUME Lines(log') = Lines(log) PROVE OnceHeads(log')
  <2>1. BranchesOf(log') = BranchesOf(log)
    BY <1>3, <1>5
  <2>2. \A b \in BranchesOf(log) : LineOf(log', b) = LineOf(log, b)
    BY <1>3, <1>5, <2>1
  <2> QED BY <1>1, <1>2, <2>1, <2>2 DEF OnceHeads
<1>6. ASSUME NEW b \in 1..MaxBranches, NEW c \in 1..MaxCells, GrowsAt(b, c)
      PROVE  OnceHeads(log')
  <2>1. /\ b \in BranchesOf(log) /\ c \in MovedCells(log')
        /\ Lines(log') = [Lines(log) EXCEPT ![b] = Append(@, c)]
    BY <1>6 DEF GrowsAt
  <2>2. BranchesOf(log') = BranchesOf(log)
    BY <1>3, <2>1
  <2>3. \A x \in BranchesOf(log) :
           LineOf(log', x) = IF x = b THEN Append(LineOf(log, x), c) ELSE LineOf(log, x)
    BY <1>3, <2>1, <2>2
  <2> SUFFICES ASSUME NEW x \in BranchesOf(log), NEW i \in 1..Len(LineOf(log', x))
               PROVE  LineOf(log', x)[i] \in MovedCells(log')
    BY <2>2 DEF OnceHeads
  <2>4. \A j \in 1..Len(LineOf(log, x)) : LineOf(log, x)[j] \in MovedCells(log')
    BY <1>1, <1>2 DEF OnceHeads
  <2>5. CASE x # b
    BY <2>3, <2>4, <2>5
  <2>6. CASE x = b
    <3> DEFINE s == LineOf(log, b)
    <3>1. s \in Seq(Nat) /\ c \in Nat /\ LineOf(log', x) = Append(s, c)
      BY <1>4, <2>1, <2>3, <2>6, SessionAssumption
    <3> HIDE DEF s
    <3>2. i \in 1..Len(s) \/ i = Len(s) + 1
      BY <3>1
    <3>3. CASE i = Len(s) + 1
      BY <2>1, <3>1, <3>3
    <3>4. CASE i \in 1..Len(s)
      <4>1. Append(s, c)[i] = s[i]
        BY <3>1, <3>4
      <4>2. s[i] \in MovedCells(log')
        BY <2>4, <2>6, <3>4 DEF s
      <4> QED BY <3>1, <4>1, <4>2
    <3> QED BY <3>2, <3>3, <3>4
  <2> QED BY <2>5, <2>6
<1>7. ASSUME NEW b \in 1..MaxBranches, NEW p, NEW n, Copies(b, p, n)
      PROVE  OnceHeads(log')
  <2>1. /\ p \in BranchesOf(log) /\ n \in 1..Len(LineOf(log, p)) /\ b \notin BranchesOf(log)
        /\ Lines(log') = [q \in BranchesOf(log) \cup {b} |->
                            IF q = b THEN SubSeq(LineOf(log, p), 1, n) ELSE LineOf(log, q)]
    BY <1>7 DEF Copies, OnLine
  <2>2. BranchesOf(log') = BranchesOf(log) \cup {b}
    BY <1>3, <2>1
  <2>3. \A x \in BranchesOf(log) \cup {b} :
           LineOf(log', x) = IF x = b THEN SubSeq(LineOf(log, p), 1, n) ELSE LineOf(log, x)
    BY <1>3, <2>1, <2>2
  <2>4. ASSUME NEW x \in BranchesOf(log) \cup {b}, NEW i \in 1..Len(LineOf(log', x))
        PROVE  LineOf(log', x)[i] \in MovedCells(log')
    <3>1. CASE x # b
      BY <1>1, <1>2, <2>3, <2>4, <3>1 DEF OnceHeads
    <3>2. CASE x = b
      <4> DEFINE s == LineOf(log, p)
      <4>1. s \in Seq(Nat) /\ LineOf(log', x) = SubSeq(s, 1, n) /\ n \in 1..Len(s)
        BY <1>4, <2>1, <2>3, <3>2
      <4>2. \A j \in 1..Len(s) : s[j] \in MovedCells(log')
        BY <1>1, <1>2, <2>1 DEF OnceHeads
      <4> HIDE DEF s
      <4>3. Len(SubSeq(s, 1, n)) = n /\ \A j \in 1..n : SubSeq(s, 1, n)[j] = s[j]
        BY <4>1
      <4>4. i \in 1..n
        BY <2>4, <4>1, <4>3
      <4>5. i \in 1..Len(s)
        BY <4>1, <4>4
      <4> QED BY <4>1, <4>2, <4>3, <4>4, <4>5
    <3> QED BY <3>1, <3>2
  <2> QED BY <2>2, <2>4 DEF OnceHeads
<1>8. SameTree \/ (\E p, n : CursorTo(p, n)) => Lines(log') = Lines(log)
  BY DEF SameTree, CursorTo
<1> QED BY <1>5, <1>6, <1>7, <1>8, EveryStep

\* The invariant is kept by every step.
LEMMA TreeInvStep ==
    ASSUME SessionInv, SessionInv', TreeInv, CellOrderInv, TreeStep
    PROVE  TreeInv'
<1>1. LogInv(log) /\ LogInv(log') /\ OwnInv /\ CellCount(log) <= MaxCells
      /\ BranchCount(log) + RootBranch <= MaxBranches
  BY DEF SessionInv, TreeInv
<1>2. log \in Seq(Facts) /\ log' \in Seq(Facts)
  BY <1>1 DEF LogInv
<1>3. OnceHeads(log)'
  BY OnceHeadsStep DEF OnceHeads
<1>4. CellCount(log) \in Nat /\ BranchCount(log) \in Nat
  BY <1>2, Positions DEF CellCount, BranchCount
<1>5. ASSUME NEW f, log' = Append(log, f)
      PROVE  /\ f \in Facts
             /\ CellCount(log') = CellCount(log) + IF f.type = "CellChecked" THEN 1 ELSE 0
             /\ BranchCount(log') = BranchCount(log) + IF f.type = "BranchCreated" THEN 1 ELSE 0
  <2>1. log'[Len(log) + 1] = f /\ Len(log) + 1 \in DOMAIN log'
    BY <1>2, <1>5
  <2>2. f \in Facts
    BY <1>2, <2>1
  <2> QED BY <1>2, <1>5, <2>2, AppendCounts
<1> DEFINE Bounds == /\ CellCount(log)' <= MaxCells
                     /\ BranchCount(log)' + RootBranch <= MaxBranches
<1>6. CASE QuietStep
  <2>1. CASE log' = log
    <3>1. CellCount(log)' = CellCount(log) /\ BranchCount(log)' = BranchCount(log)
      BY <2>1 DEF CellCount, BranchCount
    <3>2. Kept(log, log')
      BY <1>4, <2>1, <3>1 DEF Kept, CellCount, BranchCount
    <3>3. OwnInv'
      BY <1>1, <1>6, <3>2, OwnSame DEF QuietStep
    <3> QED BY <1>1, <1>3, <3>1, <3>3 DEF TreeInv
  <2>2. CASE \E f : log' = Append(log, f) /\ Quiet(f)
    <3>1. PICK f : log' = Append(log, f) /\ Quiet(f)
      BY <2>2
    <3>2. Kept(log, log') /\ f.type # "BranchCreated"
      BY <1>1, <1>5, <3>1, OthersKeep DEF Quiet
    <3>3. OwnInv'
      BY <1>1, <1>6, <3>2, OwnSame DEF QuietStep
    <3>4. Bounds
      <4>1. CellCount(log') <= MaxCells /\ BranchCount(log') = BranchCount(log)
        BY <1>1, <1>4, <1>5, <3>1, <3>2 DEF Quiet
      <4> QED BY <1>1, <4>1 DEF CellCount, BranchCount
    <3> QED BY <1>3, <3>3, <3>4 DEF TreeInv
  <2> QED BY <1>6, <2>1, <2>2 DEF QuietStep
<1>7. ASSUME NEW s \in Handles, CommitStep(s) \/ MoveStep(s) PROVE TreeInv'
  <2>1. OwnInv'
    BY <1>1, <1>7, OwnCommit, OwnMove
  <2>2. Bounds
    <3>1. PICK f : log' = Append(log, f) /\ f.type \in {"CellCommitted", "HeadMoved"}
      BY <1>7 DEF CommitStep, MoveStep, CellCommitted, HeadMoved
    <3>2. CellCount(log') = CellCount(log) /\ BranchCount(log') = BranchCount(log)
      BY <1>4, <1>5, <3>1
    <3> QED BY <1>1, <3>2 DEF CellCount, BranchCount
  <2> QED BY <1>3, <2>1, <2>2 DEF TreeInv
<1>8. ASSUME MoversStay, NEW c \in MovedCells(log), RestoreTo(c) PROVE TreeInv'
  <2>1. PICK f : log' = Append(log, f) /\ f.type = "RestoreCompleted"
    BY <1>8 DEF RestoreTo, RestoreCompleted
  <2>2. Kept(log, log')
    BY <1>1, <1>5, <2>1, OthersKeep
  <2>3. OwnInv'
    BY <1>1, <1>8, <2>2, OwnSame
  <2>4. Bounds
    <3>1. CellCount(log') = CellCount(log) /\ BranchCount(log') = BranchCount(log)
      BY <1>4, <1>5, <2>1
    <3> QED BY <1>1, <3>1 DEF CellCount, BranchCount
  <2> QED BY <1>3, <2>3, <2>4 DEF TreeInv
<1>9. ASSUME MoversStay, NEW c \in MovedCells(log), ForkAt(c) PROVE TreeInv'
  <2> DEFINE f == BranchCreated(NextBranch, c)
             g == RestoreCompleted(c, NextBranch)
             m == Append(log, f)
  <2>1. f \in Facts /\ g \in Facts /\ LogInv(m) /\ f.type = "BranchCreated" /\ g.type = "RestoreCompleted"
    BY <1>1, ForkFacts
  <2>2. NextBranch <= MaxBranches /\ (log' = m \/ log' = Append(m, g))
    BY <1>9 DEF ForkAt
  <2>3. NextBranch = (BranchCount(log) + 1) + RootBranch
    BY <1>4 DEF NextBranch, BranchCount, RootBranch
  <2> HIDE DEF f, g
  <2>4. Kept(log, m) /\ CellCount(m) = CellCount(log) /\ BranchCount(m) = BranchCount(log) + 1
    <3>1. /\ Kept(log, m)
          /\ CellCount(m) = CellCount(log) + IF f.type = "CellChecked" THEN 1 ELSE 0
          /\ BranchCount(m) = BranchCount(log) + IF f.type = "BranchCreated" THEN 1 ELSE 0
      BY <1>1, <2>1, OthersKeep
    <3> QED BY <1>4, <2>1, <3>1
  <2> HIDE DEF m
  <2>5. /\ Kept(m, Append(m, g)) /\ CellCount(Append(m, g)) = CellCount(m)
        /\ BranchCount(Append(m, g)) = BranchCount(m)
    <3>1. /\ Kept(m, Append(m, g))
          /\ CellCount(Append(m, g)) = CellCount(m) + IF g.type = "CellChecked" THEN 1 ELSE 0
          /\ BranchCount(Append(m, g)) = BranchCount(m) + IF g.type = "BranchCreated" THEN 1 ELSE 0
      BY <2>1, OthersKeep
    <3> QED BY <1>4, <2>1, <2>4, <3>1
  <2>6. Kept(log, Append(m, g))
    BY <2>4, <2>5 DEF Kept
  <2>7. OwnInv'
    BY <1>1, <1>9, <2>2, <2>4, <2>6, OwnSame
  <2>8. Bounds
    <3>1. CellCount(log') = CellCount(log) /\ BranchCount(log') = BranchCount(log) + 1
      BY <2>2, <2>4, <2>5
    <3> QED BY <1>1, <2>2, <2>3, <3>1 DEF CellCount, BranchCount
  <2> QED BY <1>3, <2>7, <2>8 DEF TreeInv
<1> QED BY <1>6, <1>7, <1>8, <1>9 DEF TreeStep

-----------------------------------------------------------------------------
(* The refinement. *)

\* A new session is the root, without cells.
LEMMA InitTree ==
    ASSUME Init
    PROVE  /\ TreeInv /\ Lines(log) = [b \in {RootBranch} |-> <<>>]
           /\ CursorOf(log) = <<RootBranch, NoCell>>
<1>1. SessionInv
  BY InitInv
<1>2. LogInv(log) /\ log \in Seq(Facts)
  BY <1>1 DEF SessionInv, LogInv
<1>3. \A t \in {"CellChecked", "CellCommitted", "HeadMoved", "BranchCreated", "RestoreCompleted"} :
         OfType(log, t) = {}
  BY DEF Init, OfType, SessionStarted, RuntimeAttached
<1>4. BranchesOf(log) = {RootBranch} /\ MovedCells(log) = {} /\ Moves(log) = {}
      /\ \A b : OnBranch(log, "CellCommitted", b) = {} /\ OnBranch(log, "HeadMoved", b) = {}
  BY <1>3 DEF BranchesOf, MovedCells, Moves, OnBranch
<1>5. \A b : LoadHead(log, b) = NoCell
  <2> TAKE b
  <2> QED BY <1>4, HeadCommitted, <1>2, Zenon
<1>6. \A b : Commits(log, b) = <<>> /\ Own(log, b) = <<>>
  <2> TAKE b
  <2>1. Commits(log, b) \in Seq(Facts)
    BY <1>2, CommitsDistinct
  <2>2. DOMAIN Commits(log, b) = {}
    BY <1>2, <1>4, CommitsDistinct
  <2>3. Commits(log, b) = <<>>
    <3> DEFINE s == Commits(log, b)
    <3>1. s \in Seq(Facts) /\ DOMAIN s = {}
      BY <2>1, <2>2
    <3> HIDE DEF s
    <3>2. s = <<>>
      BY <3>1
    <3> QED BY <3>2 DEF s
  <2>4. Own(log, b) = <<>>
    BY <1>5 DEF Own
  <2> QED BY <2>3, <2>4
<1>7. \A s \in Handles : st[s].pc = "idle"
  <2>1. PICK s \in Handles : st = [h \in Handles |-> IF h = s
                THEN Install(RootBranch, NoCell, NewRuntime(InitialHash), 0) ELSE Closed]
    BY DEF Init
  <2>2. Install(RootBranch, NoCell, NewRuntime(InitialHash), 0).pc = "idle" /\ Closed.pc = "idle"
    BY InstallIdle, ClosedHandle
  <2> QED BY <2>1, <2>2
<1>8. LineOf(log, RootBranch) = <<>>
  <2>1. RootBranch \in Nat /\ Created(log, RootBranch)
    BY DEF RootBranch, Created
  <2>2. Inherited(log, RootBranch) = <<>>
    BY <1>2, <2>1, InheritedUnfold
  <2>3. LineOf(log, RootBranch) = Cells(<<>> \o <<>>)
    BY <1>2, <1>6, <2>1, <2>2, LineParts
  <2>4. <<>> \o <<>> = <<>> /\ Cells(<<>>) = <<>>
    BY DEF Cells
  <2> QED BY <2>3, <2>4
<1>9. Lines(log) = [b \in {RootBranch} |-> <<>>]
  BY <1>4, <1>8 DEF Lines
<1>10. CursorOf(log) = <<RootBranch, NoCell>>
  BY <1>4, CursorUnfold
<1>11. CellCount(log) = 0 /\ BranchCount(log) = 0
  BY <1>3, FS_EmptySet DEF CellCount, BranchCount
<1>12. OwnInv
  BY <1>6, <1>7 DEF OwnInv
<1>13. OnceHeads(log)
  BY <1>4, <1>8 DEF OnceHeads
<1> QED BY <1>9, <1>10, <1>11, <1>12, <1>13, SessionAssumption DEF TreeInv, RootBranch

\* What is committed on a branch is what its head has passed, but for the cell of the
\* submit that is about to move it; the cells of every line have been heads.
THEOREM TreeInvariant ==
    ASSUME "HeadMoved" \notin AppendFaults
    PROVE  Spec => []TreeInv
<1>1. Init => TreeInv
  BY InitTree
<1>2. SessionInv /\ SessionInv' /\ TreeInv /\ CellOrderInv /\ [Next]_vars => TreeInv'
  BY NextTree, TreeInvStep
<1> QED BY <1>1, <1>2, SessionInvariant, CellOrderInvariant, PTL DEF Spec

\* A step that changes what the log shows is a step of the tree.
LEMMA StepsRefine ==
    ASSUME line = Lines(log), cursor = CursorOf(log),
           line' = Lines(log'), cursor' = CursorOf(log'),
           \/ SameTree
           \/ \E b \in 1..MaxBranches, c \in 1..MaxCells : GrowsAt(b, c)
           \/ \E p, n : CursorTo(p, n)
           \/ \E b \in 1..MaxBranches : \E p, n : Copies(b, p, n),
           OnceHeads(log)
    PROVE  [Tree!Next]_<<line, cursor>>
<1>1. DOMAIN line = BranchesOf(log) /\ \A b \in BranchesOf(log) : line[b] = LineOf(log, b)
  BY DEF Lines
<1>2. CASE SameTree
  BY <1>2 DEF SameTree
<1>3. ASSUME NEW b \in 1..MaxBranches, NEW c \in 1..MaxCells, GrowsAt(b, c)
      PROVE  Tree!Commit(b, c)
  <2>1. \A p \in DOMAIN line : \A i \in 1..Len(line[p]) : line[p][i] # c
    <3> SUFFICES ASSUME NEW p \in BranchesOf(log), NEW i \in 1..Len(line[p])
                 PROVE  line[p][i] # c
      BY <1>1
    <3>1. line[p] = LineOf(log, p)
      BY <1>1
    <3>2. i \in 1..Len(LineOf(log, p))
      BY <3>1
    <3>3. LineOf(log, p)[i] \in MovedCells(log)
      BY <3>2 DEF OnceHeads
    <3>4. c \notin MovedCells(log)
      BY <1>3 DEF GrowsAt
    <3> QED BY <3>1, <3>3, <3>4
  <2> QED BY <1>1, <1>3, <2>1 DEF GrowsAt, Tree!Commit, Tree!InLine
<1>4. ASSUME NEW p, NEW n, CursorTo(p, n)
      PROVE  p \in DOMAIN line /\ n \in 1..Len(line[p]) /\ Tree!Restore(p, n)
  BY <1>1, <1>4 DEF CursorTo, OnLine, Tree!Restore
<1>5. ASSUME NEW b \in 1..MaxBranches, NEW p, NEW n, Copies(b, p, n)
      PROVE  p \in DOMAIN line /\ n \in 1..Len(line[p]) /\ Tree!Fork(b, p, n)
  <2>1. p \in DOMAIN line /\ n \in 1..Len(line[p]) /\ b \notin DOMAIN line
    BY <1>1, <1>5 DEF Copies, OnLine
  <2>2. line' = [q \in DOMAIN line \cup {b} |->
                   IF q = b THEN SubSeq(line[p], 1, n) ELSE line[q]]
    BY <1>1, <1>5, <2>1 DEF Copies
  <2>3. cursor' \in {cursor, <<b, line[p][n]>>}
    BY <1>1, <1>5, <2>1 DEF Copies
  <2> QED BY <2>1, <2>2, <2>3 DEF Tree!Fork
<1> QED BY <1>2, <1>3, <1>4, <1>5 DEF Tree!Next

\* The durable history of a session is a tree of branches: for any number of handles,
\* cells and branches, with any append but that of HeadMoved failing and handles stopping
\* at any moment but before it, every step commits one cell at the end of one line,
\* copies a prefix of a line, moves the cursor to a cell of a line, or shows nothing.
THEOREM SessionRefinesTree ==
    ASSUME "HeadMoved" \notin AppendFaults
    PROVE  TreeSpec => RefinesBranchTree
<1> DEFINE Same == line = Lines(log) /\ cursor = CursorOf(log)
<1>1. TreeInit => Init /\ Same /\ Tree!Init
  BY InitTree DEF TreeInit, Tree!Init
<1>2. [TreeNext]_<<vars, line, cursor>> => [Next]_vars
  BY DEF TreeNext
<1>3. Same /\ [TreeNext]_<<vars, line, cursor>> => Same'
  <2>1. CASE TreeNext
    BY <2>1 DEF TreeNext, Lines, CursorOf
  <2>2. CASE UNCHANGED <<vars, line, cursor>>
    BY <2>2 DEF vars, Lines, CursorOf
  <2> QED BY <2>1, <2>2
<1>4. /\ SessionInv /\ SessionInv' /\ TreeInv /\ CellOrderInv /\ Same /\ Same'
      /\ [TreeNext]_<<vars, line, cursor>>
      => [Tree!Next]_<<line, cursor>>
  <2> SUFFICES ASSUME SessionInv, SessionInv', TreeInv, CellOrderInv, Same, Same',
                      [TreeNext]_<<vars, line, cursor>>
               PROVE  [Tree!Next]_<<line, cursor>>
    OBVIOUS
  <2>1. TreeStep
    BY <1>2, NextTree
  <2>2. \/ SameTree
        \/ \E b \in 1..MaxBranches, c \in 1..MaxCells : GrowsAt(b, c)
        \/ \E p, n : CursorTo(p, n)
        \/ \E b \in 1..MaxBranches : \E p, n : Copies(b, p, n)
    BY <2>1, EveryStep
  <2>3. line' = Lines(log') /\ cursor' = CursorOf(log')
    BY DEF Lines, CursorOf
  <2>4. OnceHeads(log)
    BY DEF TreeInv
  <2> QED BY <2>2, <2>3, <2>4, StepsRefine
<1>5. TreeSpec => Spec
  BY <1>1, <1>2, PTL DEF TreeSpec, Spec
<1>6. TreeSpec => []Same
  BY <1>1, <1>3, PTL DEF TreeSpec
<1>7. TreeSpec => Tree!Init
  BY <1>1, PTL DEF TreeSpec
<1> HIDE DEF Same
<1>8. TreeSpec => [][Tree!Next]_<<line, cursor>>
  BY <1>4, <1>5, <1>6, SessionInvariant, CellOrderInvariant, TreeInvariant, PTL DEF TreeSpec
<1> QED BY <1>7, <1>8, PTL DEF RefinesBranchTree, Tree!Spec, Tree!treeVars

TreeFacts == INSTANCE BranchTreeProofs WITH
    CellIDs <- 1..MaxCells, BranchIDs <- 1..MaxBranches,
    Root <- RootBranch, None <- NoCell

\* What is proved of the tree of branches holds of the log that implements it: a cell
\* two branches of a session share has one position and one history, through any
\* forks of forks, for any number of handles, with any append but that of HeadMoved
\* failing and crashes anywhere.
THEOREM SharedHistory ==
    ASSUME "HeadMoved" \notin AppendFaults
    PROVE  TreeSpec => []TreeShape
<1>1. TreeSpec => Tree!Spec
  BY SessionRefinesTree DEF RefinesBranchTree
<1>2. TreeFacts!TreeAssumption
  BY SessionAssumption DEF TreeFacts!TreeAssumption, RootBranch, NoCell
<1>3. TreeFacts!Spec => []TreeFacts!TreeShape
  BY <1>2, TreeFacts!TreeShapeInvariant
<1>4. TreeFacts!TreeShape => TreeShape
  BY DEF TreeShape, TreeFacts!TreeShape, Tree!TreeShape
<1>5. Tree!Init => TreeFacts!Init
  BY DEF TreeFacts!Init, Tree!Init
<1>6. [Tree!Next]_Tree!treeVars => [TreeFacts!Next]_TreeFacts!treeVars
  BY DEF Tree!Next, Tree!Commit, Tree!Fork, Tree!Restore, Tree!InLine, Tree!treeVars,
         TreeFacts!Next, TreeFacts!Commit, TreeFacts!Fork, TreeFacts!Restore,
         TreeFacts!InLine, TreeFacts!treeVars
<1> QED BY <1>1, <1>3, <1>4, <1>5, <1>6, PTL DEF Tree!Spec, TreeFacts!Spec

-----------------------------------------------------------------------------
(* Replaying a plan, one step at a time. *)

Steps == Seq(Nat)
Transits == Seq([after : Nat, hash : Hashes])

IsPlan(plan) == plan.hash \in Hashes /\ plan.steps \in Steps /\ plan.transitions \in Transits

\* A runtime that has run these cells, and answers for each of them.
HasRun(rt, s) ==
    /\ rt = [hash |-> rt.hash, ran |-> rt.ran, vals |-> rt.vals] /\ rt.hash \in Names
    /\ rt.ran \in Seq([cell : Nat, hash : Names]) /\ Len(rt.ran) = Len(s)
    /\ rt.vals \in [1..Len(s) -> [cell : Nat, hash : Names]]
    /\ \A i \in 1..Len(s) : rt.ran[i].cell = s[i] /\ rt.vals[i].cell = s[i]

\* Do two logs agree on the sources of these cells?
SameSources(l, m, s) == \A i \in 1..Len(s) : CellSource(m, s[i]) = CellSource(l, s[i])

\* A new runtime has run nothing.
LEMMA NewHasRun ==
    ASSUME NEW h \in Names
    PROVE  HasRun(NewRuntime(h), <<>>)
<1>1. NewRuntime(h) = [hash |-> h, ran |-> <<>>, vals |-> <<>>]
  BY DEF NewRuntime
<1>2. <<>> \in [1..Len(<<>>) -> [cell : Nat, hash : Names]]
  OBVIOUS
<1> QED BY <1>1, <1>2 DEF HasRun, Names

\* A cell runs and is answered for.
LEMMA CellHasRun ==
    ASSUME NEW s \in Steps, NEW rt, HasRun(rt, s), NEW c \in Nat
    PROVE  LET new == SetIndexedResult(RunCell(rt, c), Len(s) + 1, c)
           IN  /\ HasRun(new, Append(s, c)) /\ new.hash = rt.hash
               /\ new.ran = RunCell(rt, c).ran /\ RunCell(rt, c).hash = rt.hash
               /\ RunCell(rt, c).ran = Append(rt.ran, [cell |-> c, hash |-> rt.hash])
<1> DEFINE h == rt.hash
           x == [cell |-> c, hash |-> h]
           ran == rt.ran
           vals == rt.vals
           n == Len(s) + 1
           more == WithValue(vals, n, x)
           X == [cell : Nat, hash : Names]
<1>1. /\ rt = [hash |-> h, ran |-> ran, vals |-> vals] /\ h \in Names /\ ran \in Seq(X)
      /\ Len(ran) = Len(s) /\ vals \in [1..Len(s) -> X]
      /\ \A i \in 1..Len(s) : ran[i].cell = s[i] /\ vals[i].cell = s[i]
  BY DEF HasRun
<1>2. x \in X /\ x.cell = c
  BY <1>1
<1> HIDE DEF x, X
<1>3. RunCell(rt, c) = [hash |-> h, ran |-> Append(ran, x), vals |-> vals]
  <2>1. RunCell(rt, c) = [rt EXCEPT !.ran = Append(ran, x)]
    BY DEF RunCell, x
  <2> HIDE DEF h, ran, vals
  <2> QED BY <1>1, <2>1
<1>4. SetIndexedResult(RunCell(rt, c), n, c) = [hash |-> h, ran |-> Append(ran, x), vals |-> more]
  <2>1. SetIndexedResult(RunCell(rt, c), n, c) =
          [RunCell(rt, c) EXCEPT !.vals = WithValue(@, n, [cell |-> c, hash |-> RunCell(rt, c).hash])]
    BY DEF SetIndexedResult
  <2>2. RunCell(rt, c).hash = h /\ RunCell(rt, c).vals = vals
    BY <1>3
  <2>3. SetIndexedResult(RunCell(rt, c), n, c) = [RunCell(rt, c) EXCEPT !.vals = more]
    BY <2>1, <2>2 DEF x
  <2> DEFINE a == Append(ran, x)
  <2>4. RunCell(rt, c) = [hash |-> h, ran |-> a, vals |-> vals]
    BY <1>3
  <2> DEFINE run == RunCell(rt, c)
             q == SetIndexedResult(run, n, c)
  <2>5. q = [run EXCEPT !.vals = more] /\ run = [hash |-> h, ran |-> a, vals |-> vals]
    BY <2>3, <2>4
  <2> HIDE DEF more, h, ran, vals, n, a, run, q
  <2>6. q = [hash |-> h, ran |-> a, vals |-> more]
    BY <2>5
  <2> QED BY <2>6 DEF a, q, run
<1>5. Len(s) \in Nat /\ n \in Nat /\ 1..n = (1..Len(s)) \cup {n}
  BY DEF Steps
<1>6. more = [i \in 1..n |-> IF i = n THEN x ELSE vals[i]]
  <2>1. DOMAIN vals = 1..Len(s)
    BY <1>1
  <2> HIDE DEF vals, n
  <2> QED BY <1>5, <2>1 DEF WithValue
<1>7. more \in [1..n -> X] /\ \A i \in 1..n : more[i] = IF i = n THEN x ELSE vals[i]
  <2>1. \A i \in 1..n : i # n => vals[i] \in X
    BY <1>1, <1>5
  <2> HIDE DEF vals, n, more
  <2> QED BY <1>2, <1>6, <2>1
<1>8. /\ Append(ran, x) \in Seq(X) /\ Len(Append(ran, x)) = n
      /\ \A i \in 1..n : Append(ran, x)[i] = IF i = n THEN x ELSE ran[i]
  <2> HIDE DEF ran
  <2> QED BY <1>1, <1>2, <1>5
<1>9. /\ Append(s, c) \in Steps /\ Len(Append(s, c)) = n
      /\ \A i \in 1..n : Append(s, c)[i] = IF i = n THEN c ELSE s[i]
  BY <1>5 DEF Steps
<1>10. \A i \in 1..n : Append(ran, x)[i].cell = Append(s, c)[i] /\ more[i].cell = Append(s, c)[i]
  <2> TAKE i \in 1..n
  <2>1. CASE i = n
    BY <1>2, <1>7, <1>8, <1>9, <2>1
  <2>2. CASE i # n
    <3>1. i \in 1..Len(s)
      BY <1>5, <2>2
    <3>2. Append(ran, x)[i] = ran[i] /\ more[i] = vals[i] /\ Append(s, c)[i] = s[i]
      BY <1>7, <1>8, <1>9, <2>2
    <3> QED BY <1>1, <3>1, <3>2
  <2> QED BY <2>1, <2>2
<1> HIDE DEF h, ran, vals, n, more
<1>11. HasRun([hash |-> h, ran |-> Append(ran, x), vals |-> more], Append(s, c))
  <2> DEFINE new == [hash |-> h, ran |-> Append(ran, x), vals |-> more]
             a == Append(ran, x)
  <2>1. new.hash = h /\ new.ran = a /\ new.vals = more
    OBVIOUS
  <2>2. new = [hash |-> new.hash, ran |-> new.ran, vals |-> new.vals]
    BY <2>1
  <2> HIDE DEF new, a
  <2> QED BY <1>1, <1>7, <1>8, <1>9, <1>10, <2>1, <2>2 DEF HasRun, X, a
<1>12. SetIndexedResult(RunCell(rt, c), Len(s) + 1, c) =
          [hash |-> h, ran |-> Append(ran, x), vals |-> more]
  BY <1>4 DEF n
<1> DEFINE new == [hash |-> h, ran |-> Append(ran, x), vals |-> more]
           old == [hash |-> h, ran |-> Append(ran, x), vals |-> vals]
<1>13. /\ new.hash = h /\ new.ran = Append(ran, x) /\ old.hash = h /\ old.ran = Append(ran, x)
       /\ RunCell(rt, c) = old /\ HasRun(new, Append(s, c))
       /\ SetIndexedResult(RunCell(rt, c), Len(s) + 1, c) = new
  BY <1>3, <1>11, <1>12
<1> HIDE DEF new, old
<1> QED BY <1>13 DEF h, ran, x

\* A transition changes the configuration, and which of the answers are stale.
LEMMA TransitHasRun ==
    ASSUME NEW l, NEW m, NEW s \in Steps, NEW rt, HasRun(rt, s), NEW h \in Hashes, NEW k \in Nat,
           SameSources(l, m, s)
    PROVE  LET new == ApplyTransition(l, rt, h, k)
           IN  /\ HasRun(new, s) /\ new.hash = h /\ new.ran = rt.ran
               /\ ApplyTransition(m, rt, h, k) = new
<1> DEFINE g == rt.hash
           ran == rt.ran
           vals == rt.vals
           X == [cell : Nat, hash : Names]
           P(a, i) == /\ i <= k /\ CellSource(a, vals[i].cell) = "fn"
                      /\ vals[i].hash \notin {h, StaleHash}
           V(a) == [i \in DOMAIN vals |->
                      IF P(a, i) THEN [vals[i] EXCEPT !.hash = StaleHash] ELSE vals[i]]
           W(a) == IF k = 0 THEN vals ELSE V(a)
<1>1. /\ rt = [hash |-> g, ran |-> ran, vals |-> vals] /\ g \in Names /\ ran \in Seq(X)
      /\ Len(ran) = Len(s) /\ vals \in [1..Len(s) -> X]
      /\ \A i \in 1..Len(s) : ran[i].cell = s[i] /\ vals[i].cell = s[i]
  BY DEF HasRun
<1>2. \A a : ReplaceStale(a, vals, h, k) = V(a)
  BY Zenon DEF ReplaceStale
<1>3. \A a : ApplyTransition(a, rt, h, k) = IF g = h THEN rt ELSE [rt EXCEPT !.hash = h, !.vals = W(a)]
  <2> TAKE a
  <2>1. ReplaceStale(a, vals, h, k) = V(a)
    BY <1>2
  <2>2. ApplyTransition(a, rt, h, k) =
          IF g = h THEN rt ELSE [rt EXCEPT !.hash = h,
                                           !.vals = IF k = 0 THEN vals ELSE ReplaceStale(a, vals, h, k)]
    BY DEF ApplyTransition
  <2> HIDE DEF V, g, vals
  <2> QED BY <2>1, <2>2
<1>4. \A i \in 1..Len(s) : P(l, i) <=> P(m, i)
  BY <1>1 DEF SameSources
<1>5. V(l) = V(m)
  <2>1. DOMAIN vals = 1..Len(s)
    BY <1>1
  <2> HIDE DEF P, vals
  <2> QED BY <1>4, <2>1
<1>6. h \in Names /\ StaleHash \in Names
  BY DEF Names
<1>7. V(l) \in [1..Len(s) -> X] /\ \A i \in 1..Len(s) : V(l)[i].cell = s[i]
  <2>1. DOMAIN vals = 1..Len(s) /\ \A i \in 1..Len(s) : vals[i] \in X /\ vals[i].cell = s[i]
    BY <1>1
  <2> HIDE DEF P, vals
  <2>2. \A x \in X : [x EXCEPT !.hash = StaleHash] \in X /\ [x EXCEPT !.hash = StaleHash].cell = x.cell
    BY <1>6
  <2> HIDE DEF X
  <2>3. \A i \in 1..Len(s) : V(l)[i] = IF P(l, i) THEN [vals[i] EXCEPT !.hash = StaleHash] ELSE vals[i]
    BY <2>1
  <2>4. \A i \in 1..Len(s) : V(l)[i] \in X /\ V(l)[i].cell = s[i]
    <3> TAKE i \in 1..Len(s)
    <3>1. [vals[i] EXCEPT !.hash = StaleHash] \in X /\ [vals[i] EXCEPT !.hash = StaleHash].cell = s[i]
      BY <2>1, <2>2
    <3> QED BY <2>1, <2>3, <3>1
  <2>5. V(l) = [i \in 1..Len(s) |-> V(l)[i]]
    BY <2>1
  <2> HIDE DEF V
  <2> QED BY <2>4, <2>5
<1>8. W(l) = W(m) /\ W(l) \in [1..Len(s) -> X] /\ \A i \in 1..Len(s) : W(l)[i].cell = s[i]
  <2> HIDE DEF V, vals, X
  <2> QED BY <1>1, <1>5, <1>7
<1> HIDE DEF W, V, P
<1>9. CASE g = h
  BY <1>3, <1>9
<1>10. CASE g # h
  <2> DEFINE w == W(l)
             new == [hash |-> h, ran |-> ran, vals |-> w]
  <2>1. w \in [1..Len(s) -> X] /\ \A i \in 1..Len(s) : w[i].cell = s[i]
    BY <1>8
  <2> HIDE DEF w
  <2>2. [rt EXCEPT !.hash = h, !.vals = w] = new
    <3> DEFINE q == [rt EXCEPT !.hash = h, !.vals = w]
    <3>1. rt = [hash |-> g, ran |-> ran, vals |-> vals] /\ q = [rt EXCEPT !.hash = h, !.vals = w]
      BY <1>1
    <3> HIDE DEF g, ran, vals, q
    <3>2. q = new
      BY <3>1
    <3> QED BY <3>2 DEF q
  <2>3. ApplyTransition(l, rt, h, k) = new /\ ApplyTransition(m, rt, h, k) = new
    <3> HIDE DEF new, g
    <3> QED BY <1>3, <1>8, <1>10, <2>2 DEF w
  <2>4. new.hash = h /\ new.ran = ran /\ new.vals = w
    OBVIOUS
  <2>5. HasRun(new, s)
    <3>1. new = [hash |-> new.hash, ran |-> new.ran, vals |-> new.vals]
      BY <2>4
    <3> HIDE DEF new, ran
    <3> QED BY <1>1, <1>6, <2>1, <2>4, <3>1 DEF HasRun
  <2> QED BY <2>3, <2>4, <2>5
<1> QED BY <1>9, <1>10

\* What the recursions of ApplyTransitions and of Replay compute, step by step.
IsApplied(l, rt, ts, c, index, f) ==
    /\ f[0] = rt
    /\ \A i \in 1..Len(ts) :
          f[i] = IF ts[i].after = c THEN ApplyTransition(l, f[i - 1], ts[i].hash, index)
                 ELSE f[i - 1]

Answered(rt, c, n) == SetIndexedResult(RunCell(rt, c), n, c)

IsReplayed(l, plan, f) ==
    /\ f[0] = ApplyTransitions(l, NewRuntime(plan.hash), plan, NoCell, 0)
    /\ \A i \in 1..Len(plan.steps) :
          f[i] = ApplyTransitions(l, Answered(f[i - 1], plan.steps[i], i), plan, plan.steps[i], i)

\* The recursion of ApplyTransitions, as a function of how many were looked at.
LEMMA ApplyPath ==
    ASSUME NEW l, NEW rt, NEW plan, NEW c, NEW index, plan.transitions \in Transits
    PROVE  \E f : /\ ApplyTransitions(l, rt, plan, c, index) = f[Len(plan.transitions)]
                  /\ IsApplied(l, rt, plan.transitions, c, index, f)
<1> DEFINE n == Len(plan.transitions)
           z == rt
           Step(i, x) == IF plan.transitions[i].after = c
                           THEN ApplyTransition(l, x, plan.transitions[i].hash, index) ELSE x
           F == CHOOSE f : f = [i \in 0..n |->
                   IF i = 0 THEN z
                   ELSE IF plan.transitions[i].after = c
                   THEN ApplyTransition(l, f[i - 1], plan.transitions[i].hash, index)
                   ELSE f[i - 1]]
           G == CHOOSE f : f = [i \in 0..n |-> IF i = 0 THEN z ELSE Step(i, f[i - 1])]
           Solves(f, k) == f = [i \in 0..k |-> IF i = 0 THEN z ELSE Step(i, f[i - 1])]
           Bad == {k \in 0..n : ~\E f : Solves(f, k)}
<1>1. n \in Nat
  BY DEF Transits, Steps
<1>2. ApplyTransitions(l, rt, plan, c, index) = F[n]
  BY Zenon DEF ApplyTransitions
<1>3. F = G
  BY Zenon
<1> HIDE DEF Step, n, z, Solves, F
<1>4. Bad = {}
  <2> SUFFICES ASSUME Bad # {} PROVE FALSE
    OBVIOUS
  <2> DEFINE k == Min(Bad)
  <2>1. k \in Bad /\ \A y \in Bad : k <= y
    <3>1. Bad \in SUBSET Nat
      BY <1>1
    <3> HIDE DEF Bad
    <3> QED BY <3>1, MinProperties
  <2>2. k \in 0..n /\ ~\E f : Solves(f, k)
    BY <2>1
  <2> HIDE DEF k
  <2>3. CASE k = 0
    <3> DEFINE g == [i \in 0..0 |-> z]
    <3>1. Solves(g, k)
      BY <2>3 DEF Solves
    <3> QED BY <2>2, <3>1
  <2>4. CASE k # 0
    <3>1. k - 1 \in 0..n /\ k - 1 \notin Bad
      <4> HIDE DEF Bad
      <4> QED BY <1>1, <2>1, <2>2, <2>4
    <3>2. PICK f : Solves(f, k - 1)
      BY <3>1
    <3> DEFINE g == [i \in 0..k |-> IF i < k THEN f[i] ELSE Step(k, f[k - 1])]
    <3>3. \A i \in 0..(k - 1) : f[i] = IF i = 0 THEN z ELSE Step(i, f[i - 1])
      BY <3>2 DEF Solves
    <3>4. \A i \in 0..k : g[i] = IF i = 0 THEN z ELSE Step(i, g[i - 1])
      <4> TAKE i \in 0..k
      <4>1. CASE i < k
        <5>1. i \in 0..(k - 1) /\ g[i] = f[i]
          BY <1>1, <2>2, <4>1
        <5>2. i # 0 => i - 1 \in 0..k /\ i - 1 < k
          BY <1>1, <2>2, <4>1
        <5>3. i # 0 => g[i - 1] = f[i - 1]
          BY <5>2
        <5> HIDE DEF g
        <5> QED BY <3>3, <5>1, <5>3
      <4>2. CASE i = k
        <5>1. k - 1 \in 0..k /\ k - 1 < k /\ k \in 0..k /\ ~(k < k)
          BY <1>1, <2>2, <2>4
        <5>2. g[k - 1] = f[k - 1] /\ g[k] = Step(k, f[k - 1])
          BY <5>1, Zenon
        <5> HIDE DEF g
        <5> QED BY <2>4, <4>2, <5>2
      <4> QED BY <1>1, <2>2, <4>1, <4>2
    <3>5. g = [i \in 0..k |-> g[i]]
      OBVIOUS
    <3> HIDE DEF g
    <3>6. Solves(g, k)
      BY <3>4, <3>5 DEF Solves
    <3> QED BY <2>2, <3>6
  <2> QED BY <2>3, <2>4
<1>5. n \in 0..n /\ 0 \in 0..n /\ \A i \in 1..n : i \in 0..n /\ i # 0
  BY <1>1
<1>6. \E f : Solves(f, n)
  BY <1>4, <1>5
<1>7. Solves(G, n)
  BY <1>6, Zenon DEF Solves
<1> HIDE DEF G
<1>8. G[0] = z /\ \A i \in 1..n : G[i] = Step(i, G[i - 1])
  BY <1>5, <1>7 DEF Solves
<1>9. IsApplied(l, rt, plan.transitions, c, index, G)
  BY <1>8 DEF IsApplied, Step, n, z
<1> QED BY <1>2, <1>3, <1>9 DEF n

\* The recursion of Replay, as a function of how many cells were replayed.
LEMMA ReplayPath ==
    ASSUME NEW l, NEW plan, plan.steps \in Steps
    PROVE  \E f : Replay(l, plan) = f[Len(plan.steps)] /\ IsReplayed(l, plan, f)
<1> DEFINE n == Len(plan.steps)
           z == ApplyTransitions(l, NewRuntime(plan.hash), plan, NoCell, 0)
           Step(i, x) ==
              ApplyTransitions(l, SetIndexedResult(RunCell(x, plan.steps[i]), i, plan.steps[i]),
                               plan, plan.steps[i], i)
           F == CHOOSE f : f = [i \in 0..n |->
                   IF i = 0 THEN z
                   ELSE ApplyTransitions(
                           l, SetIndexedResult(RunCell(f[i - 1], plan.steps[i]), i, plan.steps[i]),
                           plan, plan.steps[i], i)]
           G == CHOOSE f : f = [i \in 0..n |-> IF i = 0 THEN z ELSE Step(i, f[i - 1])]
           Solves(f, k) == f = [i \in 0..k |-> IF i = 0 THEN z ELSE Step(i, f[i - 1])]
           Bad == {k \in 0..n : ~\E f : Solves(f, k)}
<1>1. n \in Nat
  BY DEF Transits, Steps
<1>2. Replay(l, plan) = F[n]
  BY Zenon DEF Replay
<1>3. F = G
  BY Zenon
<1> HIDE DEF Step, n, z, Solves, F
<1>4. Bad = {}
  <2> SUFFICES ASSUME Bad # {} PROVE FALSE
    OBVIOUS
  <2> DEFINE k == Min(Bad)
  <2>1. k \in Bad /\ \A y \in Bad : k <= y
    <3>1. Bad \in SUBSET Nat
      BY <1>1
    <3> HIDE DEF Bad
    <3> QED BY <3>1, MinProperties
  <2>2. k \in 0..n /\ ~\E f : Solves(f, k)
    BY <2>1
  <2> HIDE DEF k
  <2>3. CASE k = 0
    <3> DEFINE g == [i \in 0..0 |-> z]
    <3>1. Solves(g, k)
      BY <2>3 DEF Solves
    <3> QED BY <2>2, <3>1
  <2>4. CASE k # 0
    <3>1. k - 1 \in 0..n /\ k - 1 \notin Bad
      <4> HIDE DEF Bad
      <4> QED BY <1>1, <2>1, <2>2, <2>4
    <3>2. PICK f : Solves(f, k - 1)
      BY <3>1
    <3> DEFINE g == [i \in 0..k |-> IF i < k THEN f[i] ELSE Step(k, f[k - 1])]
    <3>3. \A i \in 0..(k - 1) : f[i] = IF i = 0 THEN z ELSE Step(i, f[i - 1])
      BY <3>2 DEF Solves
    <3>4. \A i \in 0..k : g[i] = IF i = 0 THEN z ELSE Step(i, g[i - 1])
      <4> TAKE i \in 0..k
      <4>1. CASE i < k
        <5>1. i \in 0..(k - 1) /\ g[i] = f[i]
          BY <1>1, <2>2, <4>1
        <5>2. i # 0 => i - 1 \in 0..k /\ i - 1 < k
          BY <1>1, <2>2, <4>1
        <5>3. i # 0 => g[i - 1] = f[i - 1]
          BY <5>2
        <5> HIDE DEF g
        <5> QED BY <3>3, <5>1, <5>3
      <4>2. CASE i = k
        <5>1. k - 1 \in 0..k /\ k - 1 < k /\ k \in 0..k /\ ~(k < k)
          BY <1>1, <2>2, <2>4
        <5>2. g[k - 1] = f[k - 1] /\ g[k] = Step(k, f[k - 1])
          BY <5>1, Zenon
        <5> HIDE DEF g
        <5> QED BY <2>4, <4>2, <5>2
      <4> QED BY <1>1, <2>2, <4>1, <4>2
    <3>5. g = [i \in 0..k |-> g[i]]
      OBVIOUS
    <3> HIDE DEF g
    <3>6. Solves(g, k)
      BY <3>4, <3>5 DEF Solves
    <3> QED BY <2>2, <3>6
  <2> QED BY <2>3, <2>4
<1>5. n \in 0..n /\ 0 \in 0..n /\ \A i \in 1..n : i \in 0..n /\ i # 0
  BY <1>1
<1>6. \E f : Solves(f, n)
  BY <1>4, <1>5
<1>7. Solves(G, n)
  BY <1>6, Zenon DEF Solves
<1> HIDE DEF G
<1>8. G[0] = z /\ \A i \in 1..n : G[i] = Step(i, G[i - 1])
  BY <1>5, <1>7 DEF Solves
<1>9. IsReplayed(l, plan, G)
  BY <1>8 DEF IsReplayed, Answered, Step, n, z
<1> QED BY <1>2, <1>3, <1>9 DEF n

\* Induction, for a set of numbers.
LEMMA StepByStep ==
    ASSUME NEW n \in Nat, NEW Good, 0 \in Good, \A i \in 1..n : i - 1 \in Good => i \in Good
    PROVE  \A i \in 0..n : i \in Good
<1> DEFINE Bad == {i \in 0..n : i \notin Good}
<1> SUFFICES ASSUME Bad # {} PROVE FALSE
  OBVIOUS
<1> DEFINE k == Min(Bad)
<1>1. k \in Bad /\ \A y \in Bad : k <= y
  <2>1. Bad \in SUBSET Nat
    OBVIOUS
  <2> HIDE DEF Bad
  <2> QED BY <2>1, MinProperties
<1>2. k \in 0..n /\ k \notin Good
  BY <1>1
<1> HIDE DEF k
<1>3. k \in 1..n /\ k - 1 \in 0..n
  BY <1>2
<1>4. k - 1 \notin Bad
  <2> HIDE DEF Bad
  <2> QED BY <1>1, <1>3
<1> QED BY <1>2, <1>3, <1>4

\* Two ways to apply the same transitions: with one log or another.
ApplyCase(l, m, plan, new, c, index, s, rt) ==
    /\ plan.transitions \in Transits /\ new.transitions = plan.transitions /\ index \in Nat
    /\ s \in Steps /\ HasRun(rt, s) /\ SameSources(l, m, s)

\* Transitions applied to a runtime: only the sources of the cells it answers for count.
LEMMA ApplySame ==
    ASSUME NEW l, NEW m, NEW plan, NEW new, NEW c, NEW index, NEW s, NEW rt,
           ApplyCase(l, m, plan, new, c, index, s, rt)
    PROVE  /\ HasRun(ApplyTransitions(l, rt, plan, c, index), s)
           /\ ApplyTransitions(l, rt, plan, c, index).ran = rt.ran
           /\ ApplyTransitions(m, rt, new, c, index) = ApplyTransitions(l, rt, plan, c, index)
<1> DEFINE ts == plan.transitions
           n == Len(ts)
<1>0. /\ s \in Steps /\ HasRun(rt, s) /\ SameSources(l, m, s) /\ index \in Nat
      /\ plan.transitions \in Transits /\ new.transitions = plan.transitions
  BY DEF ApplyCase
<1>1. PICK f : ApplyTransitions(l, rt, plan, c, index) = f[n] /\ IsApplied(l, rt, ts, c, index, f)
  BY <1>0, ApplyPath
<1>2. PICK g : ApplyTransitions(m, rt, new, c, index) = g[n] /\ IsApplied(m, rt, ts, c, index, g)
  <2>1. new.transitions = ts /\ new.transitions \in Transits
    BY <1>0
  <2>2. \E g : /\ ApplyTransitions(m, rt, new, c, index) = g[Len(new.transitions)]
               /\ IsApplied(m, rt, new.transitions, c, index, g)
    BY <2>1, ApplyPath
  <2> QED BY <2>1, <2>2
<1>3. n \in Nat /\ \A i \in 1..n : ts[i].hash \in Hashes
  <2> DEFINE T == [after : Nat, hash : Hashes]
  <2>1. ts \in Seq(T)
    BY <1>0 DEF Transits
  <2> HIDE DEF ts, T
  <2>2. n \in Nat /\ \A i \in 1..n : ts[i] \in T
    BY <2>1
  <2> QED BY <2>2 DEF T
<1> DEFINE P(i) == HasRun(f[i], s) /\ f[i].ran = rt.ran /\ g[i] = f[i]
           Good == {i \in 0..n : P(i)}
<1> HIDE DEF ts, n
<1>4. 0 \in Good
  BY <1>0, <1>1, <1>2, <1>3 DEF IsApplied
<1>5. ASSUME NEW i \in 1..n, i - 1 \in Good PROVE i \in Good
  <2>1. HasRun(f[i - 1], s) /\ f[i - 1].ran = rt.ran /\ g[i - 1] = f[i - 1] /\ i \in 0..n
    BY <1>3, <1>5
  <2> DEFINE h == ts[i].hash
             x == f[i - 1]
  <2>2. h \in Hashes
    BY <1>3
  <2>3. /\ HasRun(ApplyTransition(l, x, h, index), s) /\ ApplyTransition(l, x, h, index).ran = x.ran
        /\ ApplyTransition(m, x, h, index) = ApplyTransition(l, x, h, index)
    <3> HIDE DEF x, h
    <3> QED BY <1>0, <2>1, <2>2, TransitHasRun DEF x
  <2>4. f[i] = (IF ts[i].after = c THEN ApplyTransition(l, x, h, index) ELSE x)
    BY <1>1 DEF IsApplied, n
  <2>5. g[i] = (IF ts[i].after = c THEN ApplyTransition(m, x, h, index) ELSE x)
    BY <1>2, <2>1 DEF IsApplied, n
  <2> HIDE DEF x, h
  <2>6. P(i)
    BY <2>1, <2>3, <2>4, <2>5 DEF x
  <2> QED BY <2>1, <2>6
<1> HIDE DEF Good
<1>6. n \in Good
  <2>1. \A i \in 0..n : i \in Good
    BY <1>3, <1>4, <1>5, StepByStep
  <2>2. n \in 0..n
    BY <1>3, <1>4, <1>5
  <2> QED BY <2>1, <2>2
<1>7. P(n)
  BY <1>6 DEF Good
<1> QED BY <1>1, <1>2, <1>7 DEF n

\* One more transition comes last.
LEMMA ApplyMore ==
    ASSUME NEW l, NEW rt, NEW plan, NEW new, NEW c, NEW index, NEW t \in [after : Nat, hash : Hashes],
           plan.transitions \in Transits, new.transitions = Append(plan.transitions, t)
    PROVE  ApplyTransitions(l, rt, new, c, index) =
             IF t.after = c
             THEN ApplyTransition(l, ApplyTransitions(l, rt, plan, c, index), t.hash, index)
             ELSE ApplyTransitions(l, rt, plan, c, index)
<1> DEFINE ts == plan.transitions
           us == new.transitions
           n == Len(ts)
<1>1. /\ n \in Nat /\ us \in Transits /\ Len(us) = n + 1 /\ us[n + 1] = t
      /\ \A i \in 1..n : us[i] = ts[i] /\ i \in 1..(n + 1)
      /\ n + 1 \in 1..(n + 1) /\ (n + 1) - 1 = n
  BY DEF Transits
<1>2. PICK f : ApplyTransitions(l, rt, plan, c, index) = f[n] /\ IsApplied(l, rt, ts, c, index, f)
  BY ApplyPath
<1>3. PICK g : ApplyTransitions(l, rt, new, c, index) = g[Len(us)] /\ IsApplied(l, rt, us, c, index, g)
  BY <1>1, ApplyPath
<1> DEFINE Good == {i \in 0..n : g[i] = f[i]}
<1> HIDE DEF ts, us, n
<1>4. 0 \in Good
  BY <1>1, <1>2, <1>3 DEF IsApplied
<1>5. ASSUME NEW i \in 1..n, i - 1 \in Good PROVE i \in Good
  <2>1. us[i] = ts[i] /\ i \in 1..Len(us) /\ g[i - 1] = f[i - 1] /\ i \in 0..n
    BY <1>1, <1>5
  <2>2. g[i] = f[i]
    BY <1>2, <1>3, <2>1 DEF IsApplied, n
  <2> QED BY <2>1, <2>2
<1> HIDE DEF Good
<1>6. n \in Good
  <2>1. \A i \in 0..n : i \in Good
    BY <1>1, <1>4, <1>5, StepByStep
  <2>2. n \in 0..n
    BY <1>1, <1>4, <1>5
  <2> QED BY <2>1, <2>2
<1>7. g[n] = f[n]
  BY <1>6 DEF Good
<1>8. g[n + 1] = IF t.after = c THEN ApplyTransition(l, g[n], t.hash, index) ELSE g[n]
  BY <1>1, <1>3 DEF IsApplied
<1>9. ApplyTransitions(l, rt, new, c, index) = g[n + 1]
  BY <1>1, <1>3
<1> QED BY <1>2, <1>7, <1>8, <1>9

\* No transition follows the cell.
LEMMA ApplyNone ==
    ASSUME NEW l, NEW rt, NEW plan, NEW c, NEW index, plan.transitions \in Transits,
           \A i \in 1..Len(plan.transitions) : plan.transitions[i].after # c
    PROVE  ApplyTransitions(l, rt, plan, c, index) = rt
<1> DEFINE ts == plan.transitions
           n == Len(ts)
<1>1. PICK f : ApplyTransitions(l, rt, plan, c, index) = f[n] /\ IsApplied(l, rt, ts, c, index, f)
  BY ApplyPath
<1>2. n \in Nat /\ \A i \in 1..n : ts[i].after # c
  BY DEF Transits
<1> DEFINE Good == {i \in 0..n : f[i] = rt}
<1> HIDE DEF ts, n
<1>3. 0 \in Good
  BY <1>1, <1>2 DEF IsApplied
<1>4. ASSUME NEW i \in 1..n, i - 1 \in Good PROVE i \in Good
  <2>1. f[i] = f[i - 1] /\ i \in 0..n
    BY <1>1, <1>2 DEF IsApplied, n
  <2> QED BY <1>4, <2>1
<1> HIDE DEF Good
<1>5. n \in Good
  <2>1. \A i \in 0..n : i \in Good
    BY <1>2, <1>3, <1>4, StepByStep
  <2>2. n \in 0..n
    BY <1>2, <1>3, <1>4
  <2> QED BY <2>1, <2>2
<1> QED BY <1>1, <1>5 DEF Good

\* Before the first cell the last of the transitions decides.
LEMMA ApplyFirst ==
    ASSUME NEW l, NEW plan, plan.transitions \in Transits, NEW h \in Hashes,
           \A i \in 1..Len(plan.transitions) : plan.transitions[i].after = NoCell
    PROVE  ApplyTransitions(l, NewRuntime(h), plan, NoCell, 0) =
             NewRuntime(IF plan.transitions = <<>> THEN h
                        ELSE plan.transitions[Len(plan.transitions)].hash)
<1> DEFINE ts == plan.transitions
           n == Len(ts)
           rt == NewRuntime(h)
<1>1. PICK f : ApplyTransitions(l, rt, plan, NoCell, 0) = f[n] /\ IsApplied(l, rt, ts, NoCell, 0, f)
  BY ApplyPath
<1>2. n \in Nat /\ (\A i \in 1..n : ts[i].after = NoCell) /\ (ts = <<>> <=> n = 0)
  BY DEF Transits
<1>3. ASSUME NEW a, NEW b PROVE ApplyTransition(l, NewRuntime(a), b, 0) = NewRuntime(b)
  <2> DEFINE x == NewRuntime(a)
             none == <<>>
             q == [x EXCEPT !.hash = b, !.vals = none]
  <2>1. x = [hash |-> a, ran |-> none, vals |-> none]
    BY DEF NewRuntime
  <2>2. x.hash = a /\ x.vals = none
    BY <2>1
  <2>3. q = [x EXCEPT !.hash = b, !.vals = none]
    OBVIOUS
  <2> HIDE DEF x, none, q
  <2>4. q = [hash |-> b, ran |-> none, vals |-> none]
    BY <2>1, <2>3
  <2>5. q = NewRuntime(b)
    BY <2>4 DEF NewRuntime, none
  <2>6. ApplyTransition(l, x, b, 0) = IF x.hash = b THEN x ELSE q
    <3>1. ApplyTransition(l, x, b, 0) =
            IF x.hash = b THEN x
            ELSE [x EXCEPT !.hash = b, !.vals = IF 0 = 0 THEN x.vals ELSE ReplaceStale(l, x.vals, b, 0)]
      BY Zenon DEF ApplyTransition
    <3> QED BY <2>2, <3>1 DEF q
  <2> QED BY <2>2, <2>5, <2>6 DEF x
<1> DEFINE at(i) == IF i = 0 THEN h ELSE ts[i].hash
           Good == {i \in 0..n : f[i] = NewRuntime(at(i))}
<1> HIDE DEF ts, n
<1>4. 0 \in Good
  BY <1>1, <1>2 DEF IsApplied
<1>5. ASSUME NEW i \in 1..n, i - 1 \in Good PROVE i \in Good
  <2>1. f[i] = ApplyTransition(l, f[i - 1], ts[i].hash, 0) /\ i \in 0..n /\ i # 0
    BY <1>1, <1>2 DEF IsApplied, n
  <2>2. f[i] = NewRuntime(at(i))
    BY <1>3, <1>5, <2>1
  <2> QED BY <2>1, <2>2
<1> HIDE DEF Good
<1>6. n \in Good
  <2>1. \A i \in 0..n : i \in Good
    BY <1>2, <1>4, <1>5, StepByStep
  <2>2. n \in 0..n
    BY <1>2, <1>4, <1>5
  <2> QED BY <2>1, <2>2
<1>7. f[n] = NewRuntime(at(n))
  BY <1>6 DEF Good
<1> QED BY <1>1, <1>2, <1>7 DEF n, ts

\* A plan with the same transitions, or with one more that follows none of these cells.
SameTransits(plan, new, s) ==
    \/ new.transitions = plan.transitions
    \/ \E t \in [after : Nat, hash : Hashes] :
          /\ new.transitions = Append(plan.transitions, t) /\ t.after # NoCell
          /\ \A i \in 1..Len(s) : t.after # s[i]

EitherCase(l, m, plan, new, steps, c, index, s, rt) ==
    /\ plan.transitions \in Transits /\ SameTransits(plan, new, steps) /\ index \in Nat
    /\ c = NoCell \/ \E i \in 1..Len(steps) : c = steps[i]
    /\ s \in Steps /\ HasRun(rt, s) /\ SameSources(l, m, s)

\* Transitions applied with either of two such plans do the same.
LEMMA ApplyEither ==
    ASSUME NEW l, NEW m, NEW plan, NEW new, NEW steps, NEW c, NEW index, NEW s, NEW rt,
           EitherCase(l, m, plan, new, steps, c, index, s, rt)
    PROVE  /\ HasRun(ApplyTransitions(l, rt, plan, c, index), s)
           /\ ApplyTransitions(l, rt, plan, c, index).ran = rt.ran
           /\ ApplyTransitions(m, rt, new, c, index) = ApplyTransitions(l, rt, plan, c, index)
<1>0. ApplyCase(l, m, plan, plan, c, index, s, rt)
  BY DEF EitherCase, ApplyCase
<1>1. /\ HasRun(ApplyTransitions(l, rt, plan, c, index), s)
      /\ ApplyTransitions(l, rt, plan, c, index).ran = rt.ran
      /\ ApplyTransitions(m, rt, plan, c, index) = ApplyTransitions(l, rt, plan, c, index)
  BY <1>0, ApplySame
<1>2. CASE new.transitions = plan.transitions
  <2>1. ApplyCase(l, m, plan, new, c, index, s, rt)
    BY <1>2 DEF EitherCase, ApplyCase
  <2> QED BY <2>1, ApplySame
<1>3. CASE new.transitions # plan.transitions
  <2>1. PICK t \in [after : Nat, hash : Hashes] :
           /\ new.transitions = Append(plan.transitions, t) /\ t.after # NoCell
           /\ \A i \in 1..Len(steps) : t.after # steps[i]
    BY <1>3 DEF EitherCase, SameTransits
  <2>2. t.after # c /\ plan.transitions \in Transits
    BY <2>1 DEF EitherCase
  <2>3. ApplyTransitions(m, rt, new, c, index) =
           IF t.after = c
           THEN ApplyTransition(m, ApplyTransitions(m, rt, plan, c, index), t.hash, index)
           ELSE ApplyTransitions(m, rt, plan, c, index)
    BY <2>1, <2>2, ApplyMore
  <2> QED BY <1>1, <2>2, <2>3
<1> QED BY <1>2, <1>3

\* The first cells of two plans are replayed alike.
PrefixCase(l, m, plan, new) ==
    /\ IsPlan(plan) /\ IsPlan(new) /\ new.hash = plan.hash
    /\ Len(plan.steps) <= Len(new.steps)
    /\ \A i \in 1..Len(plan.steps) : new.steps[i] = plan.steps[i]
    /\ SameSources(l, m, plan.steps) /\ SameTransits(plan, new, plan.steps)

\* The cells of the shorter plan are replayed alike with both.
LEMMA ReplayPrefix ==
    ASSUME NEW l, NEW m, NEW plan, NEW new, NEW f, NEW g,
           PrefixCase(l, m, plan, new), IsReplayed(l, plan, f), IsReplayed(m, new, g)
    PROVE  \A i \in 0..Len(plan.steps) : /\ HasRun(f[i], SubSeq(plan.steps, 1, i)) /\ g[i] = f[i]
<1> DEFINE s == plan.steps
           n == Len(s)
           P(i) == HasRun(f[i], SubSeq(s, 1, i)) /\ g[i] = f[i]
           Good == {i \in 0..n : P(i)}
<1>0. /\ IsPlan(plan) /\ IsPlan(new) /\ new.hash = plan.hash /\ n <= Len(new.steps)
      /\ \A i \in 1..n : new.steps[i] = s[i]
      /\ SameSources(l, m, s) /\ SameTransits(plan, new, s)
  BY DEF PrefixCase
<1>1. /\ n \in Nat /\ s \in Seq(Nat) /\ plan.hash \in Hashes /\ plan.transitions \in Transits
      /\ \A i \in 1..n : s[i] \in Nat /\ i \in 1..Len(new.steps) /\ new.steps[i] = s[i]
  BY <1>0 DEF IsPlan, Steps
<1>2. \A i \in 0..n : /\ SubSeq(s, 1, i) \in Steps /\ Len(SubSeq(s, 1, i)) = i
                      /\ \A j \in 1..i : SubSeq(s, 1, i)[j] = s[j] /\ j \in 1..n
  BY <1>1 DEF Steps
<1>3. \A i \in 0..n : SameSources(l, m, SubSeq(s, 1, i))
  BY <1>0, <1>1, <1>2 DEF SameSources
<1>4. /\ f[0] = ApplyTransitions(l, NewRuntime(plan.hash), plan, NoCell, 0)
      /\ g[0] = ApplyTransitions(m, NewRuntime(plan.hash), new, NoCell, 0)
  BY <1>0 DEF IsReplayed
<1>5. \A i \in 1..n : /\ f[i] = ApplyTransitions(l, Answered(f[i - 1], s[i], i), plan, s[i], i)
                      /\ g[i] = ApplyTransitions(m, Answered(g[i - 1], s[i], i), new, s[i], i)
  BY <1>1 DEF IsReplayed
<1>6. SameTransits(plan, new, s)
  BY <1>0
<1> HIDE DEF s, n
<1>7. 0 \in Good
  <2>1. HasRun(NewRuntime(plan.hash), <<>>) /\ SubSeq(s, 1, 0) = <<>> /\ 0 \in 0..n
    BY <1>1, NewHasRun DEF Names
  <2>2. SameSources(l, m, <<>>) /\ <<>> \in Steps
    BY <1>2, <1>3, <2>1
  <2> DEFINE x == NewRuntime(plan.hash)
             none == <<>>
  <2>3. EitherCase(l, m, plan, new, s, NoCell, 0, none, x)
    BY <1>1, <1>6, <2>1, <2>2 DEF EitherCase
  <2> HIDE DEF x, none
  <2>4. /\ HasRun(ApplyTransitions(l, x, plan, NoCell, 0), none)
        /\ ApplyTransitions(m, x, new, NoCell, 0) = ApplyTransitions(l, x, plan, NoCell, 0)
    BY <2>3, ApplyEither
  <2> QED BY <1>4, <2>1, <2>4 DEF x, none
<1>8. ASSUME NEW i \in 1..n, i - 1 \in Good PROVE i \in Good
  <2> DEFINE old == SubSeq(s, 1, i - 1)
             now == SubSeq(s, 1, i)
             c == s[i]
             x == f[i - 1]
             y == Answered(x, c, i)
  <2>1. HasRun(x, old) /\ g[i - 1] = x /\ i - 1 \in 0..n /\ i \in 0..n /\ c \in Nat
    BY <1>1, <1>8
  <2>2. now = Append(old, c) /\ old \in Steps /\ now \in Steps /\ Len(old) + 1 = i
    <3>1. now = Append(old, c)
      BY <1>1, <2>1
    <3> QED BY <1>1, <1>2, <2>1, <3>1
  <2>3. HasRun(y, now)
    <3>1. HasRun(SetIndexedResult(RunCell(x, c), Len(old) + 1, c), Append(old, c))
      <4> HIDE DEF x, c, old
      <4> QED BY <2>1, <2>2, CellHasRun
    <3> HIDE DEF x, c, old, now
    <3> QED BY <2>2, <3>1 DEF Answered
  <2>4. SameSources(l, m, now) /\ \E j \in 1..Len(s) : c = s[j]
    BY <1>3, <2>1 DEF n
  <2>5. f[i] = ApplyTransitions(l, y, plan, c, i) /\ g[i] = ApplyTransitions(m, y, new, c, i)
    BY <1>5, <2>1
  <2> HIDE DEF x, y, c, old, now
  <2>6. EitherCase(l, m, plan, new, s, c, i, now, y)
    BY <1>1, <1>6, <2>1, <2>2, <2>3, <2>4 DEF EitherCase
  <2>7. /\ HasRun(ApplyTransitions(l, y, plan, c, i), now)
        /\ ApplyTransitions(m, y, new, c, i) = ApplyTransitions(l, y, plan, c, i)
    BY <2>6, ApplyEither
  <2>8. P(i)
    BY <2>5, <2>7 DEF now
  <2> QED BY <2>1, <2>8
<1> HIDE DEF P
<1>9. \A i \in 0..n : i \in Good
  <2> HIDE DEF Good
  <2> QED BY <1>1, <1>7, <1>8, StepByStep
<1>10. \A i \in 0..n : P(i)
  BY <1>9
<1> QED BY <1>10 DEF P, n, s

\* Replaying runs the cells of the plan; what else is in the log does not matter.
LEMMA ReplaySame ==
    ASSUME NEW l, NEW m, NEW plan, NEW new, IsPlan(plan), IsPlan(new), new.hash = plan.hash,
           new.steps = plan.steps, SameSources(l, m, plan.steps),
           SameTransits(plan, new, plan.steps)
    PROVE  HasRun(Replay(l, plan), plan.steps) /\ Replay(m, new) = Replay(l, plan)
<1> DEFINE n == Len(plan.steps)
<1>1. /\ n \in Nat /\ n \in 0..n /\ plan.steps \in Steps /\ new.steps \in Steps
      /\ SubSeq(plan.steps, 1, n) = plan.steps /\ n <= Len(new.steps)
      /\ \A i \in 1..n : new.steps[i] = plan.steps[i]
  BY DEF IsPlan, Steps
<1>2. PICK f : Replay(l, plan) = f[n] /\ IsReplayed(l, plan, f)
  BY <1>1, ReplayPath
<1>3. PICK g : Replay(m, new) = g[Len(new.steps)] /\ IsReplayed(m, new, g)
  BY <1>1, ReplayPath
<1>4. \A i \in 0..Len(plan.steps) : HasRun(f[i], SubSeq(plan.steps, 1, i)) /\ g[i] = f[i]
  <2>1. PrefixCase(l, m, plan, new)
    BY <1>1 DEF PrefixCase
  <2> QED BY <1>2, <1>3, <2>1, ReplayPrefix
<1> QED BY <1>1, <1>2, <1>3, <1>4

\* One more cell comes last.
LEMMA ReplayUnfold ==
    ASSUME NEW l, NEW plan, NEW new, NEW c \in Nat, IsPlan(plan), IsPlan(new), new.hash = plan.hash,
           new.steps = Append(plan.steps, c), new.transitions = plan.transitions
    PROVE  Replay(l, new) = ApplyTransitions(l, Answered(Replay(l, plan), c, Len(plan.steps) + 1),
                                             new, c, Len(plan.steps) + 1)
<1> DEFINE n == Len(plan.steps)
<1>1. /\ n \in Nat /\ n \in 0..n /\ plan.steps \in Steps /\ new.steps \in Steps
      /\ Len(new.steps) = n + 1 /\ n <= Len(new.steps) /\ new.steps[n + 1] = c
      /\ \A i \in 1..n : new.steps[i] = plan.steps[i]
      /\ n + 1 \in 1..Len(new.steps) /\ (n + 1) - 1 = n
  BY DEF IsPlan, Steps
<1>2. PICK f : Replay(l, plan) = f[n] /\ IsReplayed(l, plan, f)
  BY <1>1, ReplayPath
<1>3. PICK g : Replay(l, new) = g[Len(new.steps)] /\ IsReplayed(l, new, g)
  BY <1>1, ReplayPath
<1>4. SameTransits(plan, new, plan.steps) /\ SameSources(l, l, plan.steps)
  BY DEF SameTransits, SameSources
<1>5. g[n] = f[n]
  <2>1. \A i \in 0..Len(plan.steps) : HasRun(f[i], SubSeq(plan.steps, 1, i)) /\ g[i] = f[i]
    <3>1. PrefixCase(l, l, plan, new)
      BY <1>1, <1>4 DEF PrefixCase
    <3> QED BY <1>2, <1>3, <3>1, ReplayPrefix
  <2> QED BY <1>1, <2>1
<1>6. g[n + 1] = ApplyTransitions(l, Answered(g[n], c, n + 1), new, c, n + 1)
  BY <1>1, <1>3 DEF IsReplayed
<1> QED BY <1>1, <1>2, <1>3, <1>5, <1>6

-----------------------------------------------------------------------------
(* The committed history at a head: the cells, the configuration, the runtime. *)

Known(l) == {NoCell} \cup MovedCells(l)

Chain(l, h) == IF h = NoCell THEN <<>> ELSE collectAncestorChain(l, branchForCell(l, h), h)
Lineage(l, h) == Cells(Chain(l, h))

\* The transitions in force at a head. The empty head is the root's.
InForce(l, h) ==
    IF h = NoCell THEN {i \in OnBranch(l, "RuntimeTransitioned", RootBranch) : l[i].cell = NoCell}
    ELSE visibleTransitions(l, branchForCell(l, h), h)
Config(l, h) == LatestHash(l, InForce(l, h))

\* The runtime replay builds.
Base(l, h) ==
    IF h = NoCell THEN NewRuntime(Config(l, h)) ELSE Replay(l, LoadReplayPlan(l, h))

\* Cells have sources, a session has a configuration, and transitions are made at heads.
BasisInv(l) ==
    /\ \A d \in 1..CellCount(l) : OfCell(l, "CellChecked", d) # {}
    /\ OfType(l, "RuntimeAttached") # {}
    /\ \A i \in OfType(l, "RuntimeTransitioned") :
          l[i].cell \in Known(l) /\ Created(l, l[i].branch)

\* The transitions at some positions, in order.
LEMMA BuildShape ==
    ASSUME NEW l \in Seq(Facts), NEW at \in SUBSET OfType(l, "RuntimeTransitioned")
    PROVE  LET ts == buildRuntimeTransitions(l, at)
           IN  /\ ts \in Transits /\ (ts = <<>> <=> at = {})
               /\ at # {} => ts[Len(ts)].hash = l[Max(at)].hash
               /\ \A k \in 1..Len(ts) : \E i \in at : ts[k].after = l[i].cell
<1> DEFINE o == InOrder(at)
           n == Cardinality(at)
           ts == buildRuntimeTransitions(l, at)
           fs == FactsAt(l, at)
           T == [after : Nat, hash : Hashes]
<1>1. /\ OfType(l, "RuntimeTransitioned") \in SUBSET DOMAIN l /\ DOMAIN l \in SUBSET Nat
      /\ \A S \in SUBSET DOMAIN l : IsFiniteSet(S)
  BY Positions
<1>2. at \in SUBSET Nat /\ IsFiniteSet(at)
  BY <1>1
<1>3. \A i \in at : [after |-> l[i].cell, hash |-> l[i].hash] \in T
  <2> TAKE i \in at
  <2>1. l[i] \in Facts /\ l[i].type = "RuntimeTransitioned"
    BY DEF OfType
  <2> QED BY <2>1 DEF Facts
<1>4. /\ n \in Nat /\ o \in [1..n -> at]
      /\ \A x \in at : \E i \in 1..n : o[i] = x
      /\ \A i, j \in 1..n : i < j => o[i] < o[j]
  BY <1>2, InOrderProperties
<1>5. fs = [k \in DOMAIN o |-> l[o[k]]]
  BY Zenon DEF FactsAt
<1>6. ts = [k \in DOMAIN fs |-> [after |-> fs[k].cell, hash |-> fs[k].hash]]
  BY Zenon DEF buildRuntimeTransitions
<1> HIDE DEF o, n, ts, fs, T
<1>7. DOMAIN o = 1..n /\ \A k \in 1..n : o[k] \in at
  BY <1>4
<1>8. DOMAIN fs = 1..n /\ \A k \in 1..n : fs[k] = l[o[k]]
  BY <1>5, <1>7
<1>9. ts = [k \in 1..n |-> [after |-> l[o[k]].cell, hash |-> l[o[k]].hash]]
  BY <1>6, <1>8
<1>10. /\ ts \in Seq(T) /\ Len(ts) = n
       /\ \A k \in 1..n : ts[k] = [after |-> l[o[k]].cell, hash |-> l[o[k]].hash]
  <2>1. \A k \in 1..n : [after |-> l[o[k]].cell, hash |-> l[o[k]].hash] \in T
    BY <1>3, <1>7
  <2>2. ts \in [1..n -> T]
    BY <1>9, <2>1
  <2> QED BY <1>4, <1>9, <2>2
<1>11. ts = <<>> <=> at = {}
  <2>1. at = {} => n = 0
    BY <1>4, <1>7
  <2>2. n = 0 => at = {}
    BY <1>4
  <2> QED BY <1>4, <1>10, <2>1, <2>2
<1>12. ASSUME at # {} PROVE ts[Len(ts)].hash = l[Max(at)].hash
  <2>1. Max(at) \in at /\ \A y \in at : y <= Max(at)
    BY <1>2, <1>12, FiniteMaxProperties
  <2>2. PICK k \in 1..n : o[k] = Max(at)
    BY <1>4, <2>1
  <2>3. k = n
    <3>1. n \in 1..n /\ o[n] \in at
      BY <1>4, <1>7
    <3>2. k < n => FALSE
      <4>1. k < n => o[k] < o[n]
        BY <1>4, <3>1
      <4>2. o[n] <= o[k] /\ o[n] \in Nat /\ o[k] \in Nat
        BY <1>2, <2>1, <2>2, <3>1
      <4> QED BY <4>1, <4>2
    <3> QED BY <1>4, <3>2
  <2> QED BY <1>10, <2>2, <2>3
<1>13. \A k \in 1..Len(ts) : \E i \in at : ts[k].after = l[i].cell
  BY <1>7, <1>10
<1>14. ts \in Transits
  BY <1>10 DEF Transits, T
<1> QED BY <1>11, <1>12, <1>13, <1>14 DEF ts

\* They are the same in a longer log; a new one comes last.
LEMMA BuildStays ==
    ASSUME NEW l \in Seq(Facts), NEW f \in Facts, NEW at \in SUBSET DOMAIN l
    PROVE  /\ buildRuntimeTransitions(Append(l, f), at) = buildRuntimeTransitions(l, at)
           /\ buildRuntimeTransitions(Append(l, f), at \cup {Len(l) + 1}) =
                 Append(buildRuntimeTransitions(l, at), [after |-> f.cell, hash |-> f.hash])
<1> DEFINE m == Append(l, f)
           p == at \cup {Len(l) + 1}
           fs == FactsAt(l, at)
           g(x) == [after |-> x.cell, hash |-> x.hash]
<1>1. fs \in Seq(Facts) /\ FactsAt(m, at) = fs /\ FactsAt(m, p) = Append(fs, f)
  BY FactsAtStays
<1>2. \A a, S : buildRuntimeTransitions(a, S) =
                  [k \in DOMAIN FactsAt(a, S) |-> g(FactsAt(a, S)[k])]
  BY Zenon DEF buildRuntimeTransitions
<1>3. /\ buildRuntimeTransitions(l, at) = [k \in DOMAIN fs |-> g(fs[k])]
      /\ buildRuntimeTransitions(m, at) = [k \in DOMAIN fs |-> g(fs[k])]
      /\ buildRuntimeTransitions(m, p) = [k \in DOMAIN Append(fs, f) |-> g(Append(fs, f)[k])]
  <2> HIDE DEF g, m, p
  <2> QED BY <1>1, <1>2 DEF fs
<1> HIDE DEF fs, g, m, p
<1>4. [k \in DOMAIN Append(fs, f) |-> g(Append(fs, f)[k])] = Append([k \in DOMAIN fs |-> g(fs[k])], g(f))
  <2> DEFINE n == Len(fs)
             a == [k \in DOMAIN Append(fs, f) |-> g(Append(fs, f)[k])]
             u == [k \in 1..n |-> g(fs[k])]
             X == {g(x) : x \in Facts}
  <2>1. /\ n \in Nat /\ DOMAIN fs = 1..n /\ DOMAIN Append(fs, f) = 1..(n + 1)
        /\ Append(fs, f)[n + 1] = f /\ (\A k \in 1..n : Append(fs, f)[k] = fs[k] /\ fs[k] \in Facts)
    BY <1>1
  <2>2. g(f) \in X /\ \A k \in 1..n : g(fs[k]) \in X
    BY <2>1
  <2> HIDE DEF X, n
  <2>3. u \in Seq(X) /\ Len(u) = n /\ \A k \in 1..n : u[k] = g(fs[k])
    BY <2>1, <2>2
  <2> HIDE DEF u
  <2>4. /\ Append(u, g(f)) \in Seq(X) /\ Len(Append(u, g(f))) = n + 1 /\ Append(u, g(f))[n + 1] = g(f)
        /\ \A k \in 1..n : Append(u, g(f))[k] = g(fs[k])
    BY <2>1, <2>2, <2>3
  <2>5. DOMAIN Append(u, g(f)) = 1..(n + 1)
    BY <2>1, <2>4
  <2>6. \A k \in 1..(n + 1) : Append(u, g(f))[k] = g(Append(fs, f)[k])
    <3> TAKE k \in 1..(n + 1)
    <3>1. k \in 1..n \/ k = n + 1
      BY <2>1
    <3> QED BY <2>1, <2>4, <3>1
  <2> DEFINE w == Append(u, g(f))
  <2>7. w \in Seq(X) /\ DOMAIN w = 1..(n + 1) /\ \A k \in 1..(n + 1) : w[k] = g(Append(fs, f)[k])
    BY <2>4, <2>5, <2>6
  <2>8. w = [k \in 1..(n + 1) |-> g(Append(fs, f)[k])]
    <3> HIDE DEF w
    <3>1. w = [k \in DOMAIN w |-> w[k]]
      BY <2>7
    <3> QED BY <2>7, <3>1
  <2> QED BY <2>1, <2>8 DEF u
<1> QED BY <1>3, <1>4 DEF g, m, p

\* A fact of a step, with what is known when it is appended.
Grown(l, f) ==
    /\ LogInv(l) /\ OrderInv(l) /\ BasisInv(l) /\ f \in Facts /\ LogInv(Append(l, f))
    /\ f.type = "CellChecked" => f.cell = CellCount(l) + 1
    /\ f.type = "RuntimeTransitioned" =>
          /\ f.cell \in Known(l) /\ Created(l, f.branch)
          /\ LoadHead(l, f.branch) \in {NoCell, f.cell}

\* What is known of two logs, one a fact longer than the other.
LEMMA KnownGrows ==
    ASSUME NEW l, NEW f, Grown(l, f)
    PROVE  /\ l \in Seq(Facts) /\ f \in Facts /\ Append(l, f) \in Seq(Facts)
           /\ Known(l) \subseteq Known(Append(l, f)) /\ \A h \in Known(l) : h \in Nat
<1>1. l \in Seq(Facts) /\ f \in Facts
  BY DEF Grown, LogInv
<1>2. Append(l, f) \in Seq(Facts) /\ MovedCells(l) \subseteq MovedCells(Append(l, f))
  BY <1>1, AppendFact, KnownStays
<1>3. \A i \in OfType(l, "HeadMoved") : l[i].cell \in Nat
  BY <1>1, Positions
<1>4. \A h \in MovedCells(l) : h \in Nat
  BY <1>3 DEF MovedCells
<1> QED BY <1>1, <1>2, <1>4 DEF Known, NoCell

\* Every fact of a step leaves sources, configuration and transitions as they must be.
LEMMA BasisStep ==
    ASSUME NEW l, NEW f, Grown(l, f)
    PROVE  BasisInv(Append(l, f))
<1> DEFINE m == Append(l, f)
           n == Len(l) + 1
<1>1. /\ l \in Seq(Facts) /\ f \in Facts /\ m \in Seq(Facts)
      /\ Known(l) \subseteq Known(m) /\ \A h \in Known(l) : h \in Nat
  BY KnownGrows
<1>2. /\ m[n] = f /\ \A i \in DOMAIN l : m[i] = l[i]
      /\ OfType(m, "RuntimeAttached") = OfType(l, "RuntimeAttached") \cup
            (IF f.type = "RuntimeAttached" THEN {n} ELSE {})
      /\ OfType(m, "RuntimeTransitioned") = OfType(l, "RuntimeTransitioned") \cup
            (IF f.type = "RuntimeTransitioned" THEN {n} ELSE {})
  BY <1>1, AppendFact
<1>3. \A c : OfCell(m, "CellChecked", c) = OfCell(l, "CellChecked", c) \cup
            (IF f.type = "CellChecked" /\ f.cell = c THEN {n} ELSE {})
  BY <1>1, AppendFact
<1>4. CellCount(m) = CellCount(l) + (IF f.type = "CellChecked" THEN 1 ELSE 0) /\ CellCount(l) \in Nat
  BY <1>1, AppendCounts
<1>5. OfType(l, "RuntimeTransitioned") \subseteq DOMAIN l
  BY DEF OfType
<1>6. BasisInv(l) /\ (f.type = "CellChecked" => f.cell = CellCount(l) + 1)
      /\ (f.type = "RuntimeTransitioned" => f.cell \in Known(l) /\ Created(l, f.branch))
  BY DEF Grown
<1>10. \A b : Created(l, b) => Created(m, b)
  BY <1>1, StartStays
<1> HIDE DEF m, n
<1>7. \A d \in 1..CellCount(m) : OfCell(m, "CellChecked", d) # {}
  <2> SUFFICES ASSUME NEW d \in 1..CellCount(m) PROVE OfCell(m, "CellChecked", d) # {}
    OBVIOUS
  <2>1. CASE d \in 1..CellCount(l)
    BY <1>3, <1>6, <2>1 DEF BasisInv
  <2>2. CASE d \notin 1..CellCount(l)
    <3>1. f.type = "CellChecked" /\ d = CellCount(l) + 1
      BY <1>4, <2>2
    <3> QED BY <1>3, <1>6, <3>1
  <2> QED BY <2>1, <2>2
<1>8. OfType(m, "RuntimeAttached") # {}
  BY <1>2, <1>6 DEF BasisInv
<1>9. \A i \in OfType(m, "RuntimeTransitioned") : m[i].cell \in Known(m) /\ Created(m, m[i].branch)
  <2> SUFFICES ASSUME NEW i \in OfType(m, "RuntimeTransitioned")
               PROVE m[i].cell \in Known(m) /\ Created(m, m[i].branch)
    OBVIOUS
  <2>1. CASE i \in OfType(l, "RuntimeTransitioned")
    BY <1>1, <1>2, <1>5, <1>6, <1>10, <2>1 DEF BasisInv
  <2>2. CASE i \notin OfType(l, "RuntimeTransitioned")
    BY <1>1, <1>2, <1>6, <1>10, <2>2
  <2> QED BY <2>1, <2>2
<1> QED BY <1>7, <1>8, <1>9 DEF BasisInv, m

\* The source of a cell that has one.
LEMMA SourceStays ==
    ASSUME NEW l, NEW f, Grown(l, f), NEW d \in 1..CellCount(l)
    PROVE  CellSource(Append(l, f), d) = CellSource(l, d)
<1> DEFINE m == Append(l, f)
           S == OfCell(l, "CellChecked", d)
<1>1. /\ l \in Seq(Facts) /\ f \in Facts /\ m \in Seq(Facts)
      /\ CellCount(l) \in Nat /\ (f.type = "CellChecked" => f.cell = CellCount(l) + 1)
      /\ S # {}
  BY KnownGrows, AppendCounts DEF Grown, BasisInv
<1>2. OfCell(m, "CellChecked", d) = S \cup
            (IF f.type = "CellChecked" /\ f.cell = d THEN {Len(l) + 1} ELSE {})
  BY <1>1, AppendFact
<1>3. OfCell(m, "CellChecked", d) = S
  <2>1. ~(f.type = "CellChecked" /\ f.cell = d)
    BY <1>1
  <2> HIDE DEF S, m
  <2> QED BY <1>2, <2>1
<1>4. S \in SUBSET DOMAIN l /\ DOMAIN l \in SUBSET Nat /\ IsFiniteSet(S)
      /\ \A i \in DOMAIN l : m[i] = l[i]
  BY <1>1, Positions, AppendFact
<1>5. Max(S) \in S
  BY <1>1, <1>4, FiniteMaxProperties
<1> QED BY <1>3, <1>4, <1>5 DEF CellSource

\* The configuration a session was started in is one for ever.
LEMMA AttachedStays ==
    ASSUME NEW l, NEW f, Grown(l, f)
    PROVE  AttachedHash(Append(l, f)) = AttachedHash(l) /\ AttachedHash(l) \in Hashes
<1> DEFINE m == Append(l, f)
           S == OfType(l, "RuntimeAttached")
           n == Len(l) + 1
<1>1. /\ l \in Seq(Facts) /\ f \in Facts /\ m \in Seq(Facts) /\ S # {}
  BY KnownGrows DEF Grown, BasisInv
<1>2. OfType(m, "RuntimeAttached") = S \/ OfType(m, "RuntimeAttached") = S \cup {n}
  <2>1. OfType(m, "RuntimeAttached") = S \cup (IF f.type = "RuntimeAttached" THEN {n} ELSE {})
    BY <1>1, AppendFact
  <2> HIDE DEF S, m, n
  <2> QED BY <2>1
<1>3. /\ S \in SUBSET DOMAIN l /\ DOMAIN l \in SUBSET Nat
      /\ n \in Nat /\ \A i \in DOMAIN l : m[i] = l[i] /\ i < n /\ l[i] \in Facts
  BY <1>1, Positions, AppendFact
<1>4. Min(S) \in S
  BY <1>1, <1>3, MinProperties
<1>5. Min(OfType(m, "RuntimeAttached")) = Min(S)
  BY <1>1, <1>2, <1>3, MinStays
<1>6. l[Min(S)] \in Facts /\ l[Min(S)].type = "RuntimeAttached"
  BY <1>3, <1>4 DEF OfType
<1>7. l[Min(S)].hash \in Hashes
  BY <1>6 DEF Facts
<1> QED BY <1>3, <1>4, <1>5, <1>7 DEF AttachedHash

\* The plan of a head.
LEMMA PlanShape ==
    ASSUME NEW l, LogInv(l), BasisInv(l), NEW c \in MovedCells(l)
    PROVE  LET plan == LoadReplayPlan(l, c)
           IN  /\ IsPlan(plan) /\ plan.hash = AttachedHash(l) /\ plan.steps = Lineage(l, c)
               /\ plan.transitions = buildRuntimeTransitions(l, InForce(l, c))
               /\ InForce(l, c) \in SUBSET OfType(l, "RuntimeTransitioned")
               /\ \A i \in 1..Len(Lineage(l, c)) : Lineage(l, c)[i] \in 1..CellCount(l)
               /\ c \in Nat \ {NoCell} /\ CellCount(l) \in Nat
<1> DEFINE plan == LoadReplayPlan(l, c)
           b == branchForCell(l, c)
           S == OfType(l, "RuntimeAttached")
<1>1. l \in Seq(Facts) /\ NumbersInv(l) /\ S # {}
  BY DEF LogInv, BasisInv
<1>2. c \in Nat /\ c # NoCell
  <2>1. PICK i \in OfType(l, "HeadMoved") : l[i].cell = c
    BY DEF MovedCells
  <2> QED BY <1>1, <2>1, HeadsAreCells, Positions
<1>3. /\ plan.hash = AttachedHash(l) /\ plan.steps = Cells(collectAncestorChain(l, b, c))
      /\ plan.transitions = buildRuntimeTransitions(l, visibleTransitions(l, b, c))
  BY DEF LoadReplayPlan, PlanOf
<1>4. /\ Lineage(l, c) = Cells(collectAncestorChain(l, b, c))
      /\ InForce(l, c) = visibleTransitions(l, b, c)
  BY <1>2 DEF Lineage, Chain, InForce
<1>5. InForce(l, c) \in SUBSET OfType(l, "RuntimeTransitioned")
  BY <1>4 DEF visibleTransitions, VisibleOn
<1>6. plan.transitions \in Transits
  BY <1>1, <1>3, <1>4, <1>5, BuildShape
<1>7. plan.steps \in Seq(CommittedCells(l))
  BY StepsAreCommitted
<1>8. \A d \in CommittedCells(l) : d \in 1..CellCount(l)
  BY <1>1 DEF CommittedCells, NumbersInv
<1>9. CellCount(l) \in Nat
  BY <1>1, Positions DEF CellCount
<1>10. AttachedHash(l) \in Hashes
  <2>1. S \in SUBSET DOMAIN l /\ DOMAIN l \in SUBSET Nat /\ \A i \in DOMAIN l : l[i] \in Facts
    BY <1>1, Positions
  <2>2. Min(S) \in S
    BY <1>1, <2>1, MinProperties
  <2>3. l[Min(S)] \in Facts /\ l[Min(S)].type = "RuntimeAttached"
    BY <2>1, <2>2 DEF OfType
  <2> QED BY <2>3 DEF Facts, AttachedHash
<1> HIDE DEF plan, S
<1>11. /\ \A i \in 1..Len(plan.steps) : plan.steps[i] \in 1..CellCount(l)
       /\ plan.steps \in Steps
  <2> DEFINE X == CommittedCells(l)
             p == plan.steps
  <2>1. p \in Seq(X) /\ \A d \in X : d \in 1..CellCount(l) /\ d \in Nat
    BY <1>7, <1>8, <1>9
  <2> HIDE DEF X, p
  <2>2. p \in Seq(Nat) /\ \A i \in 1..Len(p) : p[i] \in X
    BY <2>1
  <2> QED BY <2>1, <2>2 DEF p, Steps
<1>12. IsPlan(plan)
  BY <1>3, <1>6, <1>10, <1>11 DEF IsPlan
<1> QED BY <1>2, <1>3, <1>4, <1>5, <1>9, <1>11, <1>12 DEF plan

\* The cells of a head stay what they are.
LEMMA LineageStays ==
    ASSUME NEW l, NEW f, Grown(l, f), NEW h \in Known(l)
    PROVE  /\ Chain(Append(l, f), h) = Chain(l, h) /\ Lineage(Append(l, f), h) = Lineage(l, h)
           /\ SameSources(l, Append(l, f), Lineage(l, h))
           /\ h \in MovedCells(l) =>
                 branchForCell(Append(l, f), h) = branchForCell(l, h)
<1> DEFINE m == Append(l, f)
<1>1. /\ LogInv(l) /\ LogInv(m) /\ BasisInv(l) /\ f \in Facts /\ l \in Seq(Facts)
  BY DEF Grown, LogInv
<1>2. CASE h = NoCell
  <2>1. Chain(m, h) = <<>> /\ Chain(l, h) = <<>>
    BY <1>2 DEF Chain
  <2>2. Lineage(m, h) = <<>> /\ Lineage(l, h) = <<>>
    BY <2>1, <1>1, CellsOf DEF Lineage
  <2>3. h \notin MovedCells(l)
    BY <1>1, <1>2, HeadsAreCells DEF MovedCells
  <2> QED BY <2>1, <2>2, <2>3 DEF SameSources
<1>3. CASE h # NoCell
  <2>1. h \in MovedCells(l)
    BY <1>3 DEF Known
  <2> DEFINE b == branchForCell(l, h)
  <2>2. b \in Nat /\ Created(l, b) /\ h \in Nat /\ CommittedOn(l, b, h)
    BY <1>1, <2>1, MovedPlace
  <2>3. CommittedOn(m, b, h)
    BY <1>1, <2>2, KnownStays
  <2>4. branchForCell(m, h) = b
    BY <1>1, <2>3, BranchForCell
  <2>5. collectAncestorChain(m, b, h) = collectAncestorChain(l, b, h)
    BY <1>1, <2>2, ChainStays
  <2>6. Chain(m, h) = Chain(l, h)
    BY <1>3, <2>4, <2>5 DEF Chain
  <2>7. Lineage(m, h) = Lineage(l, h)
    BY <2>6 DEF Lineage
  <2>8. \A i \in 1..Len(Lineage(l, h)) : Lineage(l, h)[i] \in 1..CellCount(l)
    BY <1>1, <2>1, PlanShape
  <2>9. SameSources(l, m, Lineage(l, h))
    BY <2>8, SourceStays DEF SameSources
  <2> QED BY <2>4, <2>6, <2>7, <2>9
<1> QED BY <1>2, <1>3

\* The empty head has no history.
LEMMA EmptyLineage ==
    ASSUME NEW l
    PROVE  Chain(l, NoCell) = <<>> /\ Lineage(l, NoCell) = <<>>
<1>1. Chain(l, NoCell) = <<>>
  BY DEF Chain
<1>2. <<>> \in Seq(Facts) /\ SessionStarted \in Facts
  BY FactShapes
<1>3. Cells(<<>>) = <<>>
  BY <1>2, CellsOf
<1> QED BY <1>1, <1>3 DEF Lineage

\* Only a transition made at a head itself comes into force there, and it comes last.
LEMMA InForceStep ==
    ASSUME NEW l, NEW f, Grown(l, f), NEW h \in Known(l)
    PROVE  /\ InForce(l, h) \in SUBSET OfType(l, "RuntimeTransitioned")
           /\ \/ InForce(Append(l, f), h) = InForce(l, h)
              \/ /\ f.type = "RuntimeTransitioned" /\ f.cell = h
                 /\ InForce(Append(l, f), h) = InForce(l, h) \cup {Len(l) + 1}
<1> DEFINE m == Append(l, f)
           n == Len(l) + 1
<1>1. /\ LogInv(l) /\ LogInv(m) /\ OrderInv(l) /\ BasisInv(l) /\ f \in Facts /\ l \in Seq(Facts)
      /\ f.type = "RuntimeTransitioned" => LoadHead(l, f.branch) \in {NoCell, f.cell}
  BY DEF Grown, LogInv
<1>2. CASE h = NoCell
  <2>1. /\ InForce(l, h) = {i \in OnBranch(l, "RuntimeTransitioned", RootBranch) : l[i].cell = NoCell}
        /\ InForce(m, h) = {i \in OnBranch(m, "RuntimeTransitioned", RootBranch) : m[i].cell = NoCell}
    BY <1>2 DEF InForce
  <2>2. /\ OnBranch(m, "RuntimeTransitioned", RootBranch) =
             OnBranch(l, "RuntimeTransitioned", RootBranch) \cup
                (IF f.type = "RuntimeTransitioned" /\ f.branch = RootBranch THEN {n} ELSE {})
        /\ m[n] = f /\ \A i \in DOMAIN l : m[i] = l[i]
    BY <1>1, AppendFact
  <2>3. /\ OnBranch(l, "RuntimeTransitioned", RootBranch) \in SUBSET DOMAIN l
        /\ OnBranch(l, "RuntimeTransitioned", RootBranch) \in SUBSET OfType(l, "RuntimeTransitioned")
    BY DEF OnBranch, OfType
  <2> HIDE DEF m, n
  <2>4. InForce(m, h) = InForce(l, h) \cup
           (IF f.type = "RuntimeTransitioned" /\ f.branch = RootBranch /\ f.cell = NoCell
            THEN {n} ELSE {})
    BY <2>1, <2>2, <2>3
  <2> QED BY <1>2, <2>1, <2>3, <2>4 DEF m, n
<1>3. CASE h # NoCell
  <2> DEFINE b == branchForCell(l, h)
  <2>1. h \in MovedCells(l)
    BY <1>3 DEF Known
  <2>2. b \in Nat /\ Created(l, b) /\ h \in Nat /\ CommittedOn(l, b, h)
    BY <1>1, <2>1, MovedPlace
  <2>3. branchForCell(m, h) = b
    BY <2>1, LineageStays
  <2>4. InForce(l, h) = visibleTransitions(l, b, h) /\ InForce(m, h) = visibleTransitions(m, b, h)
    BY <1>3, <2>3 DEF InForce
  <2> DEFINE later == visibleTransitions(m, b, h)
             at == visibleTransitions(l, b, h)
  <2>5. at \in SUBSET DOMAIN l /\ (later = at \/ (later = at \cup {n} /\ f.type = "RuntimeTransitioned"))
    BY <1>1, <2>2, VisibleStays
  <2>6. at \in SUBSET OfType(l, "RuntimeTransitioned")
    BY DEF visibleTransitions, VisibleOn
  <2>7. ASSUME later = at \cup {n}, f.type = "RuntimeTransitioned" PROVE f.cell = h
    <3>1. /\ LoadReplayPlan(l, h).transitions = buildRuntimeTransitions(l, at)
          /\ LoadReplayPlan(m, h).transitions = buildRuntimeTransitions(m, later)
      BY <2>3 DEF LoadReplayPlan, PlanOf
    <3>2. buildRuntimeTransitions(m, later) =
            Append(buildRuntimeTransitions(l, at), [after |-> f.cell, hash |-> f.hash])
      BY <1>1, <2>5, <2>7, BuildStays
    <3>3. buildRuntimeTransitions(l, at) \in Transits
      BY <1>1, <2>6, BuildShape
    <3>4. f.hash \in Hashes /\ f.cell \in Nat
      BY <1>1, <2>7 DEF Facts
    <3>5. buildRuntimeTransitions(m, later) # buildRuntimeTransitions(l, at)
      <4> DEFINE u == buildRuntimeTransitions(l, at)
                 t == [after |-> f.cell, hash |-> f.hash]
                 X == [after : Nat, hash : Hashes]
      <4>1. u \in Seq(X) /\ t \in X
        BY <3>3, <3>4 DEF Transits
      <4> HIDE DEF u, t, X
      <4>2. Len(Append(u, t)) # Len(u)
        BY <4>1
      <4> QED BY <3>2, <4>2 DEF u, t
    <3>6. LoadReplayPlan(m, h).transitions # LoadReplayPlan(l, h).transitions
      BY <3>1, <3>5
    <3> QED BY <1>1, <2>1, <3>6, PlanStep
  <2> QED BY <2>4, <2>5, <2>6, <2>7
<1> QED BY <1>2, <1>3

\* A configuration is one of the known ones, and replay runs the lineage.
LEMMA BaseHasRun ==
    ASSUME NEW l, LogInv(l), BasisInv(l), NEW h \in Known(l)
    PROVE  /\ InForce(l, h) \in SUBSET OfType(l, "RuntimeTransitioned")
           /\ Config(l, h) \in Hashes /\ Lineage(l, h) \in Steps
           /\ HasRun(Base(l, h), Lineage(l, h))
<1> DEFINE at == InForce(l, h)
           R == OfType(l, "RuntimeTransitioned")
           S == OfType(l, "RuntimeAttached")
<1>1. l \in Seq(Facts)
  BY DEF LogInv
<1>2. at \in SUBSET R
  <2>1. CASE h = NoCell
    BY <2>1 DEF InForce, OnBranch
  <2>2. CASE h # NoCell
    BY <2>2, PlanShape DEF Known
  <2> QED BY <2>1, <2>2
<1>3. /\ R \in SUBSET DOMAIN l /\ S \in SUBSET DOMAIN l /\ DOMAIN l \in SUBSET Nat
      /\ \A i \in DOMAIN l : l[i] \in Facts
      /\ \A Q \in SUBSET DOMAIN l : IsFiniteSet(Q)
  BY <1>1, Positions
<1>4. AttachedHash(l) \in Hashes
  <2>1. S # {}
    BY DEF BasisInv
  <2>2. Min(S) \in S
    BY <1>3, <2>1, MinProperties
  <2>3. l[Min(S)] \in Facts /\ l[Min(S)].type = "RuntimeAttached"
    BY <1>3, <2>2 DEF OfType
  <2> QED BY <2>3 DEF Facts, AttachedHash
<1>5. at # {} => l[Max(at)].hash \in Hashes
  <2> SUFFICES ASSUME at # {} PROVE l[Max(at)].hash \in Hashes
    OBVIOUS
  <2>1. at \in SUBSET DOMAIN l /\ at \in SUBSET Nat /\ IsFiniteSet(at)
    BY <1>2, <1>3
  <2>2. Max(at) \in at
    BY <2>1, FiniteMaxProperties
  <2>3. l[Max(at)] \in Facts /\ l[Max(at)].type = "RuntimeTransitioned"
    BY <1>2, <1>3, <2>1, <2>2 DEF OfType
  <2> QED BY <2>3 DEF Facts
<1>6. Config(l, h) \in Hashes
  BY <1>4, <1>5 DEF Config, LatestHash
<1>7. CASE h = NoCell
  <2>1. Lineage(l, h) = <<>>
    BY <1>7, EmptyLineage
  <2>2. Base(l, h) = NewRuntime(Config(l, h))
    BY <1>7 DEF Base
  <2>3. HasRun(Base(l, h), <<>>)
    BY <1>6, <2>2, NewHasRun DEF Names
  <2> QED BY <1>2, <1>6, <2>1, <2>3 DEF Steps
<1>8. CASE h # NoCell
  <2> DEFINE plan == LoadReplayPlan(l, h)
  <2>1. h \in MovedCells(l)
    BY <1>8 DEF Known
  <2>2. IsPlan(plan) /\ plan.steps = Lineage(l, h)
    BY <2>1, PlanShape
  <2>3. SameSources(l, l, plan.steps) /\ SameTransits(plan, plan, plan.steps)
    BY DEF SameSources, SameTransits
  <2>4. HasRun(Replay(l, plan), plan.steps)
    BY <2>2, <2>3, ReplaySame
  <2> QED BY <1>2, <1>6, <1>8, <2>2, <2>4 DEF Base, IsPlan
<1> QED BY <1>7, <1>8

\* The configuration given by old transitions is the same in a longer log.
LEMMA ConfigStays ==
    ASSUME NEW l, NEW f, Grown(l, f), NEW at \in SUBSET DOMAIN l
    PROVE  LatestHash(Append(l, f), at) = LatestHash(l, at)
<1>1. l \in Seq(Facts) /\ f \in Facts
  BY DEF Grown, LogInv
<1>2. CASE at = {}
  BY <1>2, AttachedStays DEF LatestHash
<1>3. CASE at # {}
  <2>1. DOMAIN l \in SUBSET Nat /\ IsFiniteSet(at) /\ \A i \in DOMAIN l : Append(l, f)[i] = l[i]
    BY <1>1, Positions, AppendFact
  <2>2. Max(at) \in at
    BY <1>3, <2>1, FiniteMaxProperties
  <2> QED BY <1>3, <2>1, <2>2 DEF LatestHash
<1> QED BY <1>2, <1>3

\* Without a transition at a head, replay builds the same runtime.
LEMMA BaseStays ==
    ASSUME NEW l, NEW f, Grown(l, f), NEW h \in Known(l),
           InForce(Append(l, f), h) = InForce(l, h)
    PROVE  Base(Append(l, f), h) = Base(l, h) /\ Config(Append(l, f), h) = Config(l, h)
<1> DEFINE m == Append(l, f)
<1>1. /\ LogInv(l) /\ LogInv(m) /\ BasisInv(l) /\ BasisInv(m) /\ f \in Facts /\ l \in Seq(Facts)
      /\ InForce(l, h) \in SUBSET OfType(l, "RuntimeTransitioned")
      /\ OfType(l, "RuntimeTransitioned") \in SUBSET DOMAIN l
  BY BasisStep, InForceStep, Positions DEF Grown, LogInv
<1>2. Config(m, h) = Config(l, h)
  BY <1>1, ConfigStays DEF Config
<1>3. CASE h = NoCell
  BY <1>2, <1>3 DEF Base
<1>4. CASE h # NoCell
  <2> DEFINE plan == LoadReplayPlan(l, h)
             new == LoadReplayPlan(m, h)
  <2>1. h \in MovedCells(l) /\ h \in MovedCells(m)
    <3>1. h \in Known(m)
      BY KnownGrows
    <3> QED BY <1>4, <3>1 DEF Known
  <2>2. /\ IsPlan(plan) /\ plan.hash = AttachedHash(l) /\ plan.steps = Lineage(l, h)
        /\ plan.transitions = buildRuntimeTransitions(l, InForce(l, h))
    BY <1>1, <2>1, PlanShape
  <2>3. /\ IsPlan(new) /\ new.hash = AttachedHash(m) /\ new.steps = Lineage(m, h)
        /\ new.transitions = buildRuntimeTransitions(m, InForce(m, h))
    BY <1>1, <2>1, PlanShape
  <2>4. /\ AttachedHash(m) = AttachedHash(l) /\ Lineage(m, h) = Lineage(l, h)
        /\ SameSources(l, m, Lineage(l, h))
    BY AttachedStays, LineageStays
  <2>5. buildRuntimeTransitions(m, InForce(l, h)) = buildRuntimeTransitions(l, InForce(l, h))
    BY <1>1, BuildStays
  <2>6. new.transitions = plan.transitions
    BY <2>2, <2>3, <2>5
  <2> HIDE DEF plan, new
  <2>7. SameTransits(plan, new, plan.steps)
    BY <2>6 DEF SameTransits
  <2>8. new.hash = plan.hash /\ new.steps = plan.steps /\ SameSources(l, m, plan.steps)
    BY <2>2, <2>3, <2>4
  <2>9. Replay(m, new) = Replay(l, plan)
    BY <2>2, <2>3, <2>7, <2>8, ReplaySame
  <2> QED BY <1>2, <1>4, <2>9 DEF Base, plan, new
<1> QED BY <1>3, <1>4

\* What cannot be replayed never can.
Fails(l, h) == h # NoCell /\ ReplayFails(l, LoadReplayPlan(l, h))

\* A history cannot be replayed when one of its cells cannot.
LEMMA FailsIs ==
    ASSUME NEW l, LogInv(l), BasisInv(l), NEW h \in Known(l)
    PROVE  Fails(l, h) <=> \E i \in 1..Len(Lineage(l, h)) :
                              CellSource(l, Lineage(l, h)[i]) \in {"once", "sealLast"}
<1>1. l \in Seq(Facts)
  BY DEF LogInv
<1>2. CASE h = NoCell
  <2>1. Lineage(l, h) = <<>>
    BY <1>2, EmptyLineage
  <2> QED BY <1>2, <2>1 DEF Fails
<1>3. CASE h # NoCell
  <2>1. LoadReplayPlan(l, h).steps = Lineage(l, h) /\ Lineage(l, h) \in Seq(Nat)
    BY <1>3, PlanShape DEF Known, IsPlan, Steps
  <2>2. DOMAIN Lineage(l, h) = 1..Len(Lineage(l, h))
    BY <2>1
  <2> QED BY <1>3, <2>1, <2>2 DEF Fails, ReplayFails
<1> QED BY <1>2, <1>3

\* Whether it can never changes.
LEMMA FailsStays ==
    ASSUME NEW l, NEW f, Grown(l, f), NEW h \in Known(l)
    PROVE  Fails(Append(l, f), h) <=> Fails(l, h)
<1> DEFINE m == Append(l, f)
<1>1. LogInv(l) /\ BasisInv(l) /\ LogInv(m) /\ BasisInv(m) /\ h \in Known(m)
  BY BasisStep, KnownGrows DEF Grown
<1>2. Lineage(m, h) = Lineage(l, h) /\ SameSources(l, m, Lineage(l, h))
  BY LineageStays
<1>3. /\ Fails(l, h) <=> \E i \in 1..Len(Lineage(l, h)) :
                              CellSource(l, Lineage(l, h)[i]) \in {"once", "sealLast"}
      /\ Fails(m, h) <=> \E i \in 1..Len(Lineage(m, h)) :
                              CellSource(m, Lineage(m, h)[i]) \in {"once", "sealLast"}
  BY <1>1, FailsIs
<1> HIDE DEF m
<1> QED BY <1>2, <1>3 DEF SameSources, m

\* The history of a handle that may write is the line of its branch.
LEMMA HandleLine ==
    ASSUME NEW l, LogInv(l), NEW b \in Nat, NEW h, AtHead(l, b, h),
           LoadHead(l, b) \in {NoCell, h}
    PROVE  /\ Inherited(l, b) \in Seq(Facts) /\ Own(l, b) \in Seq(Facts)
           /\ Chain(l, h) = Inherited(l, b) \o Own(l, b)
<1>1. Created(l, b) /\ l \in Seq(Facts)
  BY DEF AtHead, LogInv
<1>2. Inherited(l, b) \in Seq(Facts) /\ Own(l, b) \in Seq(Facts)
  BY <1>1, LineParts
<1>3. CASE LoadHead(l, b) # NoCell
  <2>1. h = LoadHead(l, b) /\ h # NoCell /\ CommittedOn(l, b, h) /\ h \in Nat
    BY <1>3, HeadCommitted
  <2>2. branchForCell(l, h) = b
    BY <2>1, BranchForCell
  <2>3. Chain(l, h) = collectAncestorChain(l, b, h)
    BY <2>1, <2>2 DEF Chain
  <2>4. Own(l, b) = committedCellsUpTo(l, b, h)
    BY <1>3, <2>1 DEF Own
  <2> QED BY <1>1, <1>2, <2>1, <2>3, <2>4, ChainParts
<1>4. CASE LoadHead(l, b) = NoCell
  <2>1. OnBranch(l, "HeadMoved", b) = {} /\ Own(l, b) = <<>>
    BY <1>4, HeadCommitted DEF Own
  <2>2. h = Start(l, b)
    BY <2>1 DEF AtHead
  <2>3. Inherited(l, b) \o Own(l, b) = Inherited(l, b)
    BY <1>2, <2>1
  <2>4. CASE b = RootBranch
    <3>1. Inherited(l, b) = <<>> /\ h = NoCell
      BY <1>1, <2>2, <2>4, InheritedUnfold DEF Start
    <3> QED BY <1>2, <2>3, <3>1, EmptyLineage
  <2>5. CASE b # RootBranch
    <3> DEFINE k == ForkOf(l, b)
               created == OnBranch(l, "BranchCreated", b)
    <3>1. created # {}
      BY <1>1, <2>5 DEF Created
    <3>2. CommittedOn(l, k.branch, k.stop)
      BY <3>1, ForkProperties
    <3>3. k.stop = l[Min(created)].cell
      BY DEF ForkOf, ForkedFrom
    <3>4. h = k.stop
      BY <2>2, <2>5, <3>3 DEF Start
    <3>5. h # NoCell
      <4>1. PICK i \in OfCell(l, "CellCommitted", h) : l[i].branch = k.branch
        BY <3>2, <3>4 DEF CommittedOn
      <4>2. h \in 1..CellCount(l)
        BY <4>1 DEF OfCell, LogInv, NumbersInv
      <4> QED BY <4>2 DEF NoCell
    <3>6. branchForCell(l, h) = k.branch
      BY <3>2, <3>4, BranchForCell
    <3>7. Inherited(l, b) = collectAncestorChain(l, k.branch, k.stop)
      BY <1>1, <2>5, InheritedUnfold
    <3> QED BY <1>2, <2>3, <3>4, <3>5, <3>6, <3>7 DEF Chain
  <2> QED BY <2>4, <2>5
<1> QED BY <1>3, <1>4

\* The head moves: its cell joins the history.
LEMMA MoveLineage ==
    ASSUME SessionInv, SessionInv', OwnInv, NEW s \in Handles, MoveStep(s)
    PROVE  LET r == st[s]
               f == CellCommitted(r.branch, r.cell)
           IN  /\ Chain(log, r.head) \in Seq(Facts) /\ f \in Facts
               /\ Chain(log', r.cell) = Append(Chain(log, r.head), f)
               /\ Lineage(log, r.head) \in Seq(Nat) /\ r.cell \in Nat \ {NoCell}
               /\ Lineage(log', r.cell) = Append(Lineage(log, r.head), r.cell)
               /\ r.cell \in MovedCells(log') /\ branchForCell(log', r.cell) = r.branch
<1> DEFINE r == st[s]
           b == r.branch
           h == r.head
           c == r.cell
           f == CellCommitted(b, c)
           g == HeadMoved(b, h, c)
<1>1. LogInv(log) /\ LogInv(log') /\ HandleInv(log, r) /\ log \in Seq(Facts)
  BY DEF SessionInv, LogInv
<1>2. r.pc = "move" /\ log' = Append(log, g)
  BY DEF MoveStep
<1>3. /\ b \in Nat /\ h \in Nat /\ c \in Nat /\ AtHead(log, b, h)
      /\ LoadHead(log, b) \in {NoCell, h} /\ CommittedOn(log, b, c) /\ c \in 1..CellCount(log)
  BY <1>1, <1>2 DEF HandleInv, IsHandle
<1>4. f \in Facts /\ f.cell = c /\ g \in Facts /\ g.type = "HeadMoved" /\ g.cell = c
  BY <1>3, FactShapes DEF CellCommitted, HeadMoved
<1>5. /\ LoadHead(log', b) = c /\ Own(log', b) = Append(Own(log, b), f) /\ Created(log, b)
  BY OwnMove
<1> HIDE DEF f, g, b, h, c
<1>6. /\ Inherited(log, b) \in Seq(Facts) /\ Own(log, b) \in Seq(Facts)
      /\ Chain(log, h) = Inherited(log, b) \o Own(log, b)
  BY <1>1, <1>3, HandleLine
<1>7. Inherited(log', b) = Inherited(log, b)
  BY <1>1, <1>2, <1>3, <1>4, <1>5, InheritedStays
<1>8. c # NoCell
  BY <1>3 DEF NoCell
<1>9. c \in MovedCells(log')
  BY <1>1, <1>5, <1>8, HeadCommitted
<1>10. AtHead(log', b, c)
  <2>1. OnBranch(log', "HeadMoved", b) # {} /\ Created(log', b)
    BY <1>1, <1>5, <1>8, HeadCommitted
  <2> QED BY <2>1 DEF AtHead
<1>11. Chain(log', c) = Inherited(log', b) \o Own(log', b)
  BY <1>1, <1>3, <1>5, <1>10, HandleLine
<1>12. Chain(log', c) = Append(Chain(log, h), f) /\ Chain(log, h) \in Seq(Facts)
  <2> DEFINE u == Inherited(log, b)
             v == Own(log, b)
  <2>1. u \in Seq(Facts) /\ v \in Seq(Facts)
    BY <1>6
  <2> HIDE DEF u, v
  <2>2. u \o Append(v, f) = Append(u \o v, f) /\ u \o v \in Seq(Facts)
    BY <1>4, <2>1
  <2> QED BY <1>5, <1>6, <1>7, <1>11, <2>2 DEF u, v
<1>13. /\ Lineage(log', c) = Append(Lineage(log, h), c) /\ Lineage(log, h) \in Seq(Nat)
  BY <1>4, <1>12, CellsOf DEF Lineage
<1>14. branchForCell(log', c) = b
  <2>1. CommittedOn(log', b, c)
    BY <1>1, <1>2, <1>3, <1>4, KnownStays
  <2> QED BY <1>1, <2>1, BranchForCell
<1> QED BY <1>3, <1>4, <1>8, <1>9, <1>12, <1>13, <1>14 DEF b, c, f, h

-----------------------------------------------------------------------------
(* What a step does to a handle and its runtimes. *)

\* The runtime the cell of a submit runs on.
Running(r) == IF Fresh THEN r.eval ELSE r.rt

Keeps(r, q) == q.open = r.open /\ q.branch = r.branch /\ q.head = r.head /\ q.index = r.index

\* In a mode with a fresh runtime per submit, the handle's own is left alone.
Spares(r, q) == Fresh => q.rt = r.rt /\ q.dirty = r.dirty

Checks(s, q) ==
    LET r == st[s]
        c == CellCount(log) + 1
    IN  /\ Turn /\ r.open /\ Writable(s)
        /\ \E k \in Kinds : log' = Append(log, CellChecked(r.branch, c, k))
        /\ Keeps(r, q) /\ Spares(r, q) /\ q.pc = "eval" /\ q.cell = c /\ q.dirty \in BOOLEAN
        /\ Running(q) = IF NeedsReplay(s) THEN Rebuilt(log', s) ELSE r.rt
        /\ q.hash = IF ~Fresh /\ r.dirty THEN Rebuilt(log', s).hash ELSE r.hash
        /\ NeedsReplay(s) => Rebuildable(log', s)

Evaluates(s, q) ==
    LET r == st[s]
    IN  /\ r.pc = "eval" /\ log' = Append(log, CellEvaluated(r.branch, r.cell))
        /\ Keeps(r, q) /\ Spares(r, q) /\ q.pc = "commit" /\ q.cell = r.cell /\ q.hash = r.hash
        /\ q.dirty = r.dirty /\ Running(q) = RunCell(Running(r), r.cell)

FailsCell(s, q) ==
    LET r == st[s]
    IN  /\ r.pc \in {"eval", "commit"}
        /\ log' = log \/ log' = Append(log, CellFailed(r.branch, r.head))
        /\ Keeps(r, q) /\ Spares(r, q) /\ q.pc = "idle" /\ q.hash = r.hash
        /\ q.dirty \in BOOLEAN /\ (~Fresh => q.dirty)

CommitsCell(s, q) ==
    LET r == st[s]
    IN  /\ r.pc = "commit" /\ log' = Append(log, CellCommitted(r.branch, r.cell))
        /\ Keeps(r, q) /\ Spares(r, q) /\ q.pc = "move" /\ q.cell = r.cell /\ q.hash = r.hash
        /\ q.dirty = r.dirty /\ Running(q) = Running(r)

MovesHead(s, q) ==
    LET r == st[s]
    IN  /\ r.pc = "move" /\ log' = Append(log, HeadMoved(r.branch, r.head, r.cell))
        /\ q.open = r.open /\ q.branch = r.branch /\ q.head = r.cell /\ q.pc = "idle"
        /\ q.hash = IF Fresh THEN Running(r).hash ELSE r.hash
        /\ Sealed(log, Running(r)) => q.dirty = TRUE /\ q.index = r.index
        /\ ~Sealed(log, Running(r)) =>
              /\ q.dirty = FALSE /\ q.index = r.index + 1
              /\ q.rt = SetIndexedResult(Running(r), r.index + 1, r.cell)
        /\ born' = [born EXCEPT ![r.cell] = Running(r).ran]

Places(q, b, c, rt, index) ==
    /\ q.open /\ q.pc = "idle" /\ q.branch = b /\ q.head = c /\ q.hash = rt.hash
    /\ q.index = index /\ q.dirty = FALSE /\ q.rt = rt

Loads(q, b, c) ==
    LET plan == LoadReplayPlan(log, c)
    IN  c \in MovedCells(log) /\ Places(q, b, c, Replay(log, plan), Len(plan.steps))

Opens(q) ==
    LET cur == LoadSessionState(log)
    IN  IF cur.head = NoCell THEN Places(q, cur.branch, NoCell, NewRuntime(cur.hash), 0)
        ELSE Loads(q, cur.branch, cur.head)

TransitsTo(s, q) ==
    LET r == st[s]
        rt == IF r.dirty THEN Rebuilt(log, s) ELSE r.rt
        hash == IF r.dirty THEN rt.hash ELSE r.hash
    IN  /\ Turn /\ r.open /\ Writable(s)
        /\ r.dirty => Rebuildable(log, s)
        /\ OwnBoundary(r.branch) \/ TransitionOnFork
        /\ Keeps(r, q) /\ q.pc = "idle"
        /\ \/ log' = log /\ q.dirty = FALSE /\ q.rt = rt /\ q.hash = hash
           \/ log' = log /\ q.dirty = TRUE /\ q.hash = hash
           \/ \E h \in Hashes :
                 /\ log' = Append(log, RuntimeTransitioned(r.branch, r.head, h))
                 /\ q.dirty = FALSE /\ q.hash = h
                 /\ q.rt = ApplyTransition(log, rt, h, r.index)

\* A rebuilt runtime: what changes in the handle.
LEMMA CleanedFields ==
    ASSUME NEW l, NEW s, IsHandle(st[s]), st[s].dirty \in BOOLEAN
    PROVE  LET r == st[s]
               q == Cleaned(l, s)
           IN  /\ IsHandle(q) /\ Keeps(r, q) /\ q.pc = r.pc /\ q.cell = r.cell /\ q.eval = r.eval
               /\ q.dirty = FALSE /\ q.rt = (IF r.dirty THEN Rebuilt(l, s) ELSE r.rt)
               /\ q.hash = IF r.dirty THEN Rebuilt(l, s).hash ELSE r.hash
<1> DEFINE r == st[s]
           q == Cleaned(l, s)
           rt == Rebuilt(l, s)
<1>1. /\ r = [open |-> r.open, pc |-> r.pc, branch |-> r.branch, head |-> r.head,
              hash |-> r.hash, index |-> r.index, dirty |-> r.dirty, rt |-> r.rt,
              cell |-> r.cell, eval |-> r.eval]
      /\ r.dirty \in BOOLEAN
  BY DEF IsHandle
<1>2. q = IF r.dirty THEN [r EXCEPT !.rt = rt, !.hash = rt.hash, !.dirty = FALSE] ELSE r
  BY DEF Cleaned, Adopt
<1>3. IsHandle(q)
  BY CleanedHandle
<1> HIDE DEF r, q, rt
<1>4. CASE r.dirty
  <2> DEFINE hash == rt.hash
  <2>1. q = [r EXCEPT !.rt = rt, !.hash = hash, !.dirty = FALSE]
    BY <1>2, <1>4
  <2> HIDE DEF hash
  <2>2. q = [open |-> r.open, pc |-> r.pc, branch |-> r.branch, head |-> r.head,
              hash |-> hash, index |-> r.index, dirty |-> FALSE, rt |-> rt,
              cell |-> r.cell, eval |-> r.eval]
    BY <1>1, <2>1
  <2>3. /\ Keeps(r, q) /\ q.pc = r.pc /\ q.cell = r.cell /\ q.eval = r.eval
        /\ q.dirty = FALSE /\ q.rt = rt /\ q.hash = hash
    BY <2>2 DEF Keeps
  <2> QED BY <1>3, <1>4, <2>3 DEF r, q, rt, hash
<1>5. CASE ~r.dirty
  <2>1. q = r /\ r.dirty = FALSE
    BY <1>1, <1>2, <1>5
  <2>2. Keeps(r, r)
    BY DEF Keeps
  <2> QED BY <1>3, <1>5, <2>1, <2>2 DEF r, q, rt
<1> QED BY <1>4, <1>5

\* The runtime a cell is going to run on: what changes in the handle.
LEMMA PreparedFields ==
    ASSUME NEW l, NEW s, IsHandle(st[s]), st[s].dirty \in BOOLEAN
    PROVE  LET r == st[s]
               q == Prepared(l, s)
           IN  /\ IsHandle(q) /\ Keeps(r, q) /\ Spares(r, q) /\ q.dirty \in BOOLEAN
               /\ Running(q) = (IF NeedsReplay(s) THEN Rebuilt(l, s) ELSE r.rt)
               /\ q.hash = IF ~Fresh /\ r.dirty THEN Rebuilt(l, s).hash ELSE r.hash
<1> DEFINE r == st[s]
           q == Prepared(l, s)
           rt == Rebuilt(l, s)
           p == Cleaned(l, s)
<1>1. /\ r = [open |-> r.open, pc |-> r.pc, branch |-> r.branch, head |-> r.head,
              hash |-> r.hash, index |-> r.index, dirty |-> r.dirty, rt |-> r.rt,
              cell |-> r.cell, eval |-> r.eval]
      /\ r.dirty \in BOOLEAN
  BY DEF IsHandle
<1>2. q = IF Fresh THEN [r EXCEPT !.eval = rt] ELSE p
  BY DEF Prepared
<1>3. IsHandle(q)
  BY CleanedHandle
<1>4. /\ Keeps(r, p) /\ p.dirty = FALSE /\ p.rt = (IF r.dirty THEN rt ELSE r.rt)
      /\ p.hash = IF r.dirty THEN rt.hash ELSE r.hash
  BY CleanedFields
<1> HIDE DEF r, q, rt, p
<1>5. CASE Fresh
  <2>1. q = [r EXCEPT !.eval = rt]
    BY <1>2, <1>5
  <2>2. q = [open |-> r.open, pc |-> r.pc, branch |-> r.branch, head |-> r.head,
              hash |-> r.hash, index |-> r.index, dirty |-> r.dirty, rt |-> r.rt,
              cell |-> r.cell, eval |-> rt]
    BY <1>1, <2>1
  <2>3. Keeps(r, q) /\ Spares(r, q) /\ q.dirty \in BOOLEAN /\ q.eval = rt /\ q.hash = r.hash
    BY <1>1, <2>2 DEF Keeps, Spares
  <2> QED BY <1>3, <1>5, <2>3 DEF r, q, rt, Running, NeedsReplay
<1>6. CASE ~Fresh
  <2>1. q = p /\ q.dirty \in BOOLEAN
    BY <1>2, <1>4, <1>6
  <2> QED BY <1>3, <1>4, <1>6, <2>1 DEF r, q, rt, Running, NeedsReplay, Spares
<1> QED BY <1>5, <1>6

\* A handle that was just loaded.
LEMMA InstallFields ==
    ASSUME NEW b, NEW h, NEW rt, NEW index
    PROVE  Places(Install(b, h, rt, index), b, h, rt, index)
<1> DEFINE r == Install(b, h, rt, index)
           hash == rt.hash
           none == NoRuntime
<1>1. r = [[open |-> FALSE, pc |-> "idle", branch |-> NoBranch, head |-> NoCell,
            hash |-> "none", index |-> 0, dirty |-> FALSE, rt |-> none,
            cell |-> NoCell, eval |-> none]
           EXCEPT !.open = TRUE, !.branch = b, !.head = h, !.hash = hash,
                  !.index = index, !.rt = rt]
  BY Zenon DEF Install, Closed
<1> HIDE DEF r, hash, none
<1>2. r = [open |-> TRUE, pc |-> "idle", branch |-> b, head |-> h, hash |-> hash,
           index |-> index, dirty |-> FALSE, rt |-> rt, cell |-> NoCell, eval |-> none]
  BY <1>1
<1>3. /\ r.open /\ r.pc = "idle" /\ r.branch = b /\ r.head = h /\ r.hash = hash
      /\ r.index = index /\ r.dirty = FALSE /\ r.rt = rt
  BY <1>2
<1> QED BY <1>3 DEF Places, r, hash

\* The end of a submit that does not commit.
LEMMA FailFields ==
    ASSUME NEW s, NEW r, IsHandle(r), r.dirty \in BOOLEAN
    PROVE  LET q == Idle([r EXCEPT !.dirty = @ \/ ~Fresh])
           IN  /\ Keeps(r, q) /\ Spares(r, q) /\ q.pc = "idle" /\ q.hash = r.hash
               /\ q.dirty \in BOOLEAN /\ (~Fresh => q.dirty)
<1> DEFINE d == r.dirty \/ ~Fresh
           p == [r EXCEPT !.dirty = d]
           none == NoRuntime
           q == Idle(p)
<1>1. /\ r = [open |-> r.open, pc |-> r.pc, branch |-> r.branch, head |-> r.head,
              hash |-> r.hash, index |-> r.index, dirty |-> r.dirty, rt |-> r.rt,
              cell |-> r.cell, eval |-> r.eval]
      /\ r.dirty \in BOOLEAN
  BY DEF IsHandle
<1>2. q = [p EXCEPT !.pc = "idle", !.cell = NoCell, !.eval = none] /\ p = [r EXCEPT !.dirty = d]
  BY DEF Idle
<1>3. d \in BOOLEAN /\ (~Fresh => d) /\ (Fresh => d = r.dirty)
  BY <1>1
<1> HIDE DEF d, p, none, q
<1>4. p = [open |-> r.open, pc |-> r.pc, branch |-> r.branch, head |-> r.head,
              hash |-> r.hash, index |-> r.index, dirty |-> d, rt |-> r.rt,
              cell |-> r.cell, eval |-> r.eval]
  BY <1>1, <1>2
<1>5. q = [open |-> r.open, pc |-> "idle", branch |-> r.branch, head |-> r.head,
              hash |-> r.hash, index |-> r.index, dirty |-> d, rt |-> r.rt,
              cell |-> NoCell, eval |-> none]
  BY <1>2, <1>4
<1>6. /\ Keeps(r, q) /\ q.rt = r.rt /\ q.dirty = d /\ q.pc = "idle" /\ q.hash = r.hash
  BY <1>5 DEF Keeps
<1> QED BY <1>3, <1>6 DEF q, p, d, Spares

Waits ==
    /\ st' = st /\ born' = born
    /\ \/ log' = log
       \/ \E b \in Nat, k \in Kinds : log' = Append(log, CellChecked(b, CellCount(log) + 1, k))
       \/ \E c \in MovedCells(log) : log' = Append(log, BranchCreated(NextBranch, c))

\* The first append of a submit, by what it does to the handle.
LEMMA CheckHandle ==
    ASSUME NEW s \in Handles, IsHandle(st[s]), st[s].dirty \in BOOLEAN,
           NEW k \in Kinds, SubmitCheck(s, k)
    PROVE  born' = born /\ (Waits \/ \E q : st' = [st EXCEPT ![s] = q] /\ Checks(s, q))
<1> DEFINE r == st[s]
           c == NextCell
           l == Append(log, CellChecked(r.branch, c, k))
           p == Prepared(l, s)
           q == [p EXCEPT !.pc = "eval", !.cell = c]
<1>1. c = CellCount(log) + 1
  BY DEF NextCell, CellCount
<1>2. /\ Turn /\ r.open /\ Writable(s) /\ born' = born
      /\ \/ log' = log /\ st' = st
         \/ log' = l /\ st' = st
         \/ /\ log' = l /\ st' = [st EXCEPT ![s] = q]
            /\ NeedsReplay(s) => Rebuildable(l, s)
  BY DEF SubmitCheck
<1>3. /\ IsHandle(p) /\ Keeps(r, p) /\ Spares(r, p) /\ p.dirty \in BOOLEAN
      /\ Running(p) = (IF NeedsReplay(s) THEN Rebuilt(l, s) ELSE r.rt)
      /\ p.hash = IF ~Fresh /\ r.dirty THEN Rebuilt(l, s).hash ELSE r.hash
  BY PreparedFields
<1>4. q = [p EXCEPT !.pc = "eval", !.cell = c]
  OBVIOUS
<1>5. r.branch \in Nat
  BY DEF IsHandle
<1> HIDE DEF p, q, c
<1>6. q = [open |-> p.open, pc |-> "eval", branch |-> p.branch, head |-> p.head,
           hash |-> p.hash, index |-> p.index, dirty |-> p.dirty, rt |-> p.rt,
           cell |-> c, eval |-> p.eval]
  BY <1>3, <1>4 DEF IsHandle
<1>7. /\ q.open = p.open /\ q.branch = p.branch /\ q.head = p.head /\ q.index = p.index
      /\ q.rt = p.rt /\ q.dirty = p.dirty /\ q.eval = p.eval /\ q.hash = p.hash
      /\ q.pc = "eval" /\ q.cell = c
  BY <1>6
<1>8. Keeps(r, q) /\ Spares(r, q) /\ q.dirty \in BOOLEAN /\ Running(q) = Running(p)
  BY <1>3, <1>7 DEF Keeps, Spares, Running
<1> HIDE DEF l
<1>9. CASE log' = l /\ st' = [st EXCEPT ![s] = q] /\ (NeedsReplay(s) => Rebuildable(l, s))
  <2>1. \E x \in Kinds : log' = Append(log, CellChecked(r.branch, c, x))
    BY <1>9 DEF l
  <2>2. /\ Running(q) = (IF NeedsReplay(s) THEN Rebuilt(log', s) ELSE r.rt)
        /\ q.hash = (IF ~Fresh /\ r.dirty THEN Rebuilt(log', s).hash ELSE r.hash)
        /\ (NeedsReplay(s) => Rebuildable(log', s))
    BY <1>3, <1>7, <1>8, <1>9
  <2>3. Checks(s, q)
    BY Zenon, <1>1, <1>2, <1>7, <1>8, <2>1, <2>2 DEF Checks
  <2> QED BY <1>2, <1>9, <2>3
<1>10. CASE st' = st /\ (log' = log \/ log' = l)
  BY <1>1, <1>2, <1>5, <1>10 DEF Waits, l
<1> QED BY <1>2, <1>9, <1>10

\* The second append.
LEMMA EvalHandle ==
    ASSUME NEW s \in Handles, IsHandle(st[s]), st[s].dirty \in BOOLEAN, SubmitEval(s)
    PROVE  /\ born' = born
           /\ \E q : st' = [st EXCEPT ![s] = q] /\ (Evaluates(s, q) \/ FailsCell(s, q))
<1> DEFINE r == st[s]
           c == r.cell
           ranE == RunCell(r.eval, c)
           ranR == RunCell(r.rt, c)
           p == IF Fresh THEN [r EXCEPT !.eval = ranE] ELSE [r EXCEPT !.rt = ranR]
           q == [p EXCEPT !.pc = "commit"]
<1>1. /\ r.pc = "eval" /\ born' = born
      /\ \/ FailSubmit(s, p)
         \/ log' = Append(log, CellEvaluated(p.branch, c)) /\ st' = [st EXCEPT ![s] = q]
  BY DEF SubmitEval, FailSubmit
<1>2. /\ r = [open |-> r.open, pc |-> r.pc, branch |-> r.branch, head |-> r.head,
              hash |-> r.hash, index |-> r.index, dirty |-> r.dirty, rt |-> r.rt,
              cell |-> r.cell, eval |-> r.eval]
      /\ r.dirty \in BOOLEAN /\ r.open \in BOOLEAN /\ r.branch \in Nat /\ r.head \in Nat
      /\ r.cell \in Nat /\ r.pc \in {"idle", "eval", "commit", "move"}
  BY DEF IsHandle
<1>3. /\ p = (IF Fresh THEN [r EXCEPT !.eval = ranE] ELSE [r EXCEPT !.rt = ranR])
      /\ q = [p EXCEPT !.pc = "commit"]
  BY Zenon
<1>4. Running(r) = IF Fresh THEN r.eval ELSE r.rt
  BY DEF Running
<1>5. RunCell(Running(r), c) = IF Fresh THEN ranE ELSE ranR
  BY <1>4
<1> HIDE DEF r, c, ranE, ranR, p, q
<1>6. p = [open |-> r.open, pc |-> r.pc, branch |-> r.branch, head |-> r.head,
           hash |-> r.hash, index |-> r.index, dirty |-> r.dirty,
           rt |-> IF Fresh THEN r.rt ELSE ranR,
           cell |-> r.cell, eval |-> IF Fresh THEN ranE ELSE r.eval]
  <2>1. CASE Fresh
    <3>1. p = [r EXCEPT !.eval = ranE]
      BY <1>3, <2>1
    <3> QED BY <1>2, <2>1, <3>1
  <2>2. CASE ~Fresh
    <3>1. p = [r EXCEPT !.rt = ranR]
      BY <1>3, <2>2
    <3> QED BY <1>2, <2>2, <3>1
  <2> QED BY <2>1, <2>2
<1>7. /\ p = [open |-> p.open, pc |-> p.pc, branch |-> p.branch, head |-> p.head,
              hash |-> p.hash, index |-> p.index, dirty |-> p.dirty, rt |-> p.rt,
              cell |-> p.cell, eval |-> p.eval]
      /\ p.open = r.open /\ p.branch = r.branch /\ p.head = r.head /\ p.index = r.index
      /\ p.pc = r.pc /\ p.hash = r.hash /\ p.dirty = r.dirty /\ p.cell = r.cell
      /\ p.rt = (IF Fresh THEN r.rt ELSE ranR) /\ p.eval = (IF Fresh THEN ranE ELSE r.eval)
  BY <1>6
<1>8. IsHandle(p) /\ p.dirty \in BOOLEAN /\ Keeps(r, p) /\ Spares(r, p)
  BY <1>2, <1>7 DEF IsHandle, Keeps, Spares
<1>9. CASE FailSubmit(s, p)
  <2> DEFINE x == Idle([p EXCEPT !.dirty = @ \/ ~Fresh])
  <2>1. /\ st' = [st EXCEPT ![s] = x]
        /\ log' = log \/ log' = Append(log, CellFailed(p.branch, p.head))
    BY Zenon, <1>9 DEF FailSubmit
  <2>2. /\ Keeps(p, x) /\ Spares(p, x) /\ x.pc = "idle" /\ x.hash = p.hash
        /\ x.dirty \in BOOLEAN /\ (~Fresh => x.dirty)
    BY <1>8, FailFields
  <2> HIDE DEF x
  <2>3. Keeps(r, x) /\ Spares(r, x) /\ x.hash = r.hash
    BY <1>7, <1>8, <2>2 DEF Keeps, Spares
  <2>4. FailsCell(s, x)
    BY <1>1, <1>7, <2>1, <2>2, <2>3 DEF FailsCell, r
  <2> QED BY <1>1, <2>1, <2>4
<1>10. CASE log' = Append(log, CellEvaluated(p.branch, c)) /\ st' = [st EXCEPT ![s] = q]
  <2>1. q = [open |-> p.open, pc |-> "commit", branch |-> p.branch, head |-> p.head,
             hash |-> p.hash, index |-> p.index, dirty |-> p.dirty, rt |-> p.rt,
             cell |-> p.cell, eval |-> p.eval]
    BY <1>3, <1>7
  <2>2. /\ q.open = p.open /\ q.branch = p.branch /\ q.head = p.head /\ q.index = p.index
        /\ q.rt = p.rt /\ q.dirty = p.dirty /\ q.eval = p.eval /\ q.hash = p.hash
        /\ q.pc = "commit" /\ q.cell = p.cell
    BY <2>1
  <2>3. Keeps(r, q) /\ Spares(r, q) /\ Running(q) = RunCell(Running(r), c)
    BY <1>5, <1>7, <1>8, <2>2 DEF Keeps, Spares, Running
  <2>4. Evaluates(s, q)
    BY <1>1, <1>7, <1>10, <2>2, <2>3 DEF Evaluates, r, c
  <2> QED BY <1>1, <1>10, <2>4
<1> QED BY <1>1, <1>9, <1>10

\* The third append.
LEMMA CommitHandle ==
    ASSUME NEW s \in Handles, IsHandle(st[s]), st[s].dirty \in BOOLEAN, SubmitCommit(s)
    PROVE  /\ born' = born
           /\ \E q : st' = [st EXCEPT ![s] = q] /\ (CommitsCell(s, q) \/ FailsCell(s, q))
<1> DEFINE r == st[s]
           q == [r EXCEPT !.pc = "move"]
<1>1. /\ r.pc = "commit" /\ born' = born
      /\ \/ FailSubmit(s, r)
         \/ log' = Append(log, CellCommitted(r.branch, r.cell)) /\ st' = [st EXCEPT ![s] = q]
  BY DEF SubmitCommit, FailSubmit
<1>2. /\ r = [open |-> r.open, pc |-> r.pc, branch |-> r.branch, head |-> r.head,
              hash |-> r.hash, index |-> r.index, dirty |-> r.dirty, rt |-> r.rt,
              cell |-> r.cell, eval |-> r.eval]
      /\ IsHandle(r) /\ r.dirty \in BOOLEAN
  BY DEF IsHandle
<1>3. q = [r EXCEPT !.pc = "move"]
  OBVIOUS
<1> HIDE DEF r, q
<1>4. CASE FailSubmit(s, r)
  <2> DEFINE x == Idle([r EXCEPT !.dirty = @ \/ ~Fresh])
  <2>1. /\ st' = [st EXCEPT ![s] = x]
        /\ log' = log \/ log' = Append(log, CellFailed(r.branch, r.head))
    BY Zenon, <1>4 DEF FailSubmit
  <2>2. /\ Keeps(r, x) /\ Spares(r, x) /\ x.pc = "idle" /\ x.hash = r.hash
        /\ x.dirty \in BOOLEAN /\ (~Fresh => x.dirty)
    BY <1>2, FailFields
  <2> HIDE DEF x
  <2>3. FailsCell(s, x)
    BY <1>1, <2>1, <2>2 DEF FailsCell, r
  <2> QED BY <1>1, <2>1, <2>3
<1>5. CASE log' = Append(log, CellCommitted(r.branch, r.cell)) /\ st' = [st EXCEPT ![s] = q]
  <2>1. q = [open |-> r.open, pc |-> "move", branch |-> r.branch, head |-> r.head,
             hash |-> r.hash, index |-> r.index, dirty |-> r.dirty, rt |-> r.rt,
             cell |-> r.cell, eval |-> r.eval]
    BY <1>2, <1>3
  <2>2. /\ q.rt = r.rt /\ q.eval = r.eval
        /\ Keeps(r, q) /\ q.dirty = r.dirty /\ q.hash = r.hash /\ q.pc = "move" /\ q.cell = r.cell
    BY <2>1 DEF Keeps
  <2>3. Spares(r, q) /\ Running(q) = Running(r)
    BY <2>2 DEF Spares, Running
  <2>4. CommitsCell(s, q)
    BY <1>1, <1>5, <2>2, <2>3 DEF CommitsCell, r
  <2> QED BY <1>1, <1>5, <2>4
<1> QED BY <1>1, <1>4, <1>5

\* The last append.
LEMMA HeadHandle ==
    ASSUME "HeadMoved" \notin AppendFaults, NEW s \in Handles, IsHandle(st[s]), SubmitMove(s)
    PROVE  \E q : st' = [st EXCEPT ![s] = q] /\ MovesHead(s, q)
<1> DEFINE z == st[s]
           c == z.cell
           rt == IF Fresh THEN z.eval ELSE z.rt
           hash == IF Fresh THEN rt.hash ELSE z.hash
           r == [z EXCEPT !.head = c, !.dirty = FALSE, !.rt = rt, !.hash = hash]
           index == r.index + 1
           set == SetIndexedResult(rt, z.index + 1, c)
           e == [r EXCEPT !.dirty = TRUE]
           o == [r EXCEPT !.index = index, !.rt = set]
           ie == Idle(e)
           io == Idle(o)
           none == NoRuntime
           seal == Sealed(log, rt)
<1>1. /\ z.pc = "move" /\ log' = Append(log, HeadMoved(z.branch, z.head, c))
      /\ (seal => st' = [st EXCEPT ![s] = ie]) /\ (~seal => st' = [st EXCEPT ![s] = io])
      /\ born' = [born EXCEPT ![c] = rt.ran]
  <2>1. ~Fault("HeadMoved")
    BY DEF Fault
  <2> QED BY <2>1 DEF SubmitMove
<1>2. z = [open |-> z.open, pc |-> z.pc, branch |-> z.branch, head |-> z.head,
           hash |-> z.hash, index |-> z.index, dirty |-> z.dirty, rt |-> z.rt,
           cell |-> z.cell, eval |-> z.eval]
  BY DEF IsHandle
<1>3. /\ r = [z EXCEPT !.head = c, !.dirty = FALSE, !.rt = rt, !.hash = hash]
      /\ e = [r EXCEPT !.dirty = TRUE] /\ o = [r EXCEPT !.index = index, !.rt = set]
      /\ ie = [e EXCEPT !.pc = "idle", !.cell = NoCell, !.eval = none]
      /\ io = [o EXCEPT !.pc = "idle", !.cell = NoCell, !.eval = none]
  BY Zenon DEF Idle
<1>4. rt = Running(z) /\ hash = (IF Fresh THEN Running(z).hash ELSE z.hash) /\ index = r.index + 1
      /\ set = SetIndexedResult(rt, z.index + 1, c) /\ c = z.cell
  BY DEF Running
<1>5. seal <=> Sealed(log, rt)
  OBVIOUS
<1> HIDE DEF z, c, rt, hash, r, index, set, e, o, ie, io, none, seal
<1>6. r = [open |-> z.open, pc |-> z.pc, branch |-> z.branch, head |-> c,
           hash |-> hash, index |-> z.index, dirty |-> FALSE, rt |-> rt,
           cell |-> z.cell, eval |-> z.eval]
  BY <1>2, <1>3
<1>7. r.index = z.index
  BY <1>6
<1>8. e = [open |-> z.open, pc |-> z.pc, branch |-> z.branch, head |-> c,
           hash |-> hash, index |-> z.index, dirty |-> TRUE, rt |-> rt,
           cell |-> z.cell, eval |-> z.eval]
  BY <1>3, <1>6
<1>9. o = [open |-> z.open, pc |-> z.pc, branch |-> z.branch, head |-> c,
           hash |-> hash, index |-> index, dirty |-> FALSE, rt |-> set,
           cell |-> z.cell, eval |-> z.eval]
  BY <1>3, <1>6
<1>10. ie = [open |-> z.open, pc |-> "idle", branch |-> z.branch, head |-> c,
             hash |-> hash, index |-> z.index, dirty |-> TRUE, rt |-> rt,
             cell |-> NoCell, eval |-> none]
  BY <1>3, <1>8
<1>11. io = [open |-> z.open, pc |-> "idle", branch |-> z.branch, head |-> c,
             hash |-> hash, index |-> index, dirty |-> FALSE, rt |-> set,
             cell |-> NoCell, eval |-> none]
  BY <1>3, <1>9
<1>12. CASE seal
  <2>1. /\ ie.open = z.open /\ ie.branch = z.branch /\ ie.head = c /\ ie.pc = "idle"
        /\ ie.hash = hash /\ ie.dirty = TRUE /\ ie.index = z.index
    BY <1>10
  <2>2. MovesHead(s, ie)
    BY <1>1, <1>4, <1>5, <1>12, <2>1 DEF MovesHead, z
  <2> QED BY <1>1, <1>12, <2>2
<1>13. CASE ~seal
  <2>1. /\ io.open = z.open /\ io.branch = z.branch /\ io.head = c /\ io.pc = "idle"
        /\ io.hash = hash /\ io.dirty = FALSE /\ io.index = index /\ io.rt = set
    BY <1>11
  <2>2. MovesHead(s, io)
    BY <1>1, <1>4, <1>5, <1>7, <1>13, <2>1 DEF MovesHead, z
  <2> QED BY <1>1, <1>13, <2>2
<1> QED BY <1>12, <1>13

\* A handle loaded for a head.
LEMMA LoadedFields ==
    ASSUME NEW b, NEW c \in MovedCells(log)
    PROVE  Loads(Loaded(b, c), b, c)
<1> DEFINE plan == LoadReplayPlan(log, c)
<1>1. Loaded(b, c) = Install(b, c, Replay(log, plan), Len(plan.steps))
  BY Zenon DEF Loaded, LoadedFrom
<1> HIDE DEF plan
<1>2. Places(Loaded(b, c), b, c, Replay(log, plan), Len(plan.steps))
  BY <1>1, InstallFields
<1> QED BY <1>2 DEF Loads, plan

\* A restore, by what it does to the handle.
LEMMA RestoreHandle ==
    ASSUME NEW s \in Handles, NEW c \in 1..MaxCells, Restore(s, c)
    PROVE  /\ born' = born /\ Turn /\ c \in MovedCells(log)
           /\ \/ Waits
              \/ \E q : /\ st' = [st EXCEPT ![s] = q] /\ Loads(q, branchForCell(log, c), c)
                        /\ log' = Append(log, RestoreCompleted(c, NoBranch))
<1>1. /\ Turn /\ c \in MovedCells(log) /\ born' = born
      /\ \/ log' = log /\ st' = st
         \/ /\ log' = Append(log, RestoreCompleted(c, NoBranch))
            /\ st' = [st EXCEPT ![s] = Loaded(branchForCell(log, c), c)]
  BY DEF Restore, Replayable
<1>2. Loads(Loaded(branchForCell(log, c), c), branchForCell(log, c), c)
  BY <1>1, LoadedFields
<1> QED BY <1>1, <1>2 DEF Waits

\* A fork.
LEMMA ForkHandle ==
    ASSUME NEW s \in Handles, NEW c \in 1..MaxCells, Fork(s, c)
    PROVE  /\ born' = born /\ Turn /\ c \in MovedCells(log)
           /\ \/ Waits
              \/ \E q : /\ st' = [st EXCEPT ![s] = q] /\ Loads(q, NextBranch, c)
                        /\ log' = Append(Append(log, BranchCreated(NextBranch, c)),
                                         RestoreCompleted(c, NextBranch))
<1> DEFINE b == NextBranch
           m == Append(log, BranchCreated(b, c))
<1>1. /\ Turn /\ c \in MovedCells(log) /\ born' = born
      /\ \/ log' = log /\ st' = st
         \/ log' = m /\ st' = st
         \/ log' = Append(m, RestoreCompleted(c, b)) /\ st' = [st EXCEPT ![s] = Loaded(b, c)]
  BY DEF Fork, Replayable
<1>2. Loads(Loaded(b, c), b, c)
  BY <1>1, LoadedFields
<1> HIDE DEF b
<1> QED BY <1>1, <1>2 DEF Waits, b

\* The cursor is at the empty head, or at a cell that was a head.
LEMMA CursorCell ==
    ASSUME NEW l, LogInv(l)
    PROVE  LoadSessionState(l).head = NoCell \/ LoadSessionState(l).head \in MovedCells(l)
<1> DEFINE M == Moves(l)
<1>1. l \in Seq(Facts) /\ HeadsInv(l)
  BY DEF LogInv
<1>2. LoadSessionState(l).head = IF M = {} THEN NoCell ELSE l[Max(M)].cell
  BY Zenon DEF LoadSessionState, StateAt, Moves
<1>3. M \in SUBSET DOMAIN l /\ DOMAIN l \in SUBSET Nat /\ \A S \in SUBSET DOMAIN l : IsFiniteSet(S)
  BY <1>1, Positions DEF Moves
<1>4. \A i \in M : l[i].cell \in MovedCells(l)
  BY <1>1 DEF Moves, MovedCells, HeadsInv
<1>5. M # {} => Max(M) \in M
  BY <1>3, FiniteMaxProperties
<1> QED BY <1>2, <1>4, <1>5

\* Opening a session.
LEMMA OpenHandle ==
    ASSUME LogInv(log), NEW s \in Handles, Open(s)
    PROVE  /\ born' = born /\ Turn /\ log' = log
           /\ \E q : st' = [st EXCEPT ![s] = q] /\ Opens(q)
<1> DEFINE cur == LoadSessionState(log)
           q == IF cur.head = NoCell THEN Install(cur.branch, NoCell, NewRuntime(cur.hash), 0)
                ELSE Loaded(cur.branch, cur.head)
<1>1. born' = born /\ Turn /\ log' = log /\ st' = [st EXCEPT ![s] = q]
  BY DEF Open
<1>2. cur.head = NoCell \/ cur.head \in MovedCells(log)
  BY CursorCell
<1> HIDE DEF cur
<1>3. CASE cur.head = NoCell
  <2>1. Places(q, cur.branch, NoCell, NewRuntime(cur.hash), 0)
    BY <1>3, InstallFields
  <2>2. Opens(q)
    <3> HIDE DEF q
    <3> QED BY <1>3, <2>1 DEF Opens, cur
  <2> QED BY <1>1, <2>2
<1>4. CASE cur.head # NoCell
  <2>1. Loads(q, cur.branch, cur.head)
    BY <1>2, <1>4, LoadedFields
  <2>2. Opens(q)
    <3> HIDE DEF q
    <3> QED BY <1>4, <2>1 DEF Opens, cur
  <2> QED BY <1>1, <2>2
<1> QED BY <1>3, <1>4

\* A runtime transition.
LEMMA TransitHandle ==
    ASSUME NEW s \in Handles, IsHandle(st[s]), st[s].dirty \in BOOLEAN,
           NEW h \in Hashes, Transition(s, h)
    PROVE  /\ born' = born
           /\ \E q : st' = [st EXCEPT ![s] = q] /\ TransitsTo(s, q)
<1> DEFINE r == st[s]
           p == Cleaned(log, s)
           rt == IF r.dirty THEN Rebuilt(log, s) ELSE r.rt
           hash == IF r.dirty THEN rt.hash ELSE r.hash
           new == ApplyTransition(log, p.rt, h, p.index)
           d == [p EXCEPT !.rt = new, !.dirty = TRUE]
           t == [p EXCEPT !.rt = new, !.hash = h]
<1>1. /\ Turn /\ r.open /\ Writable(s) /\ (r.dirty => Rebuildable(log, s))
      /\ OwnBoundary(r.branch) \/ TransitionOnFork
      /\ born' = born
      /\ \/ st' = [st EXCEPT ![s] = p] /\ log' = log
         \/ st' = [st EXCEPT ![s] = d] /\ log' = log
         \/ st' = [st EXCEPT ![s] = t] /\ log' = Append(log, RuntimeTransitioned(p.branch, p.head, h))
  BY DEF Transition
<1>2. /\ IsHandle(p) /\ Keeps(r, p) /\ p.pc = r.pc /\ p.dirty = FALSE
      /\ p.rt = (IF r.dirty THEN Rebuilt(log, s) ELSE r.rt)
      /\ p.hash = IF r.dirty THEN Rebuilt(log, s).hash ELSE r.hash
  BY CleanedFields
<1>3. r.pc = "idle"
  BY <1>1 DEF Turn
<1>4. p.rt = rt /\ p.hash = hash /\ p.index = r.index /\ p.branch = r.branch /\ p.head = r.head
  BY <1>2 DEF Keeps
<1>5. d = [p EXCEPT !.rt = new, !.dirty = TRUE] /\ t = [p EXCEPT !.rt = new, !.hash = h]
  OBVIOUS
<1>6. new = ApplyTransition(log, rt, h, r.index)
  BY <1>4
<1>7. \A q : (/\ Keeps(r, q) /\ q.pc = "idle"
              /\ \/ log' = log /\ q.dirty = FALSE /\ q.rt = rt /\ q.hash = hash
                 \/ log' = log /\ q.dirty = TRUE /\ q.hash = hash
                 \/ \E x \in Hashes :
                       /\ log' = Append(log, RuntimeTransitioned(r.branch, r.head, x))
                       /\ q.dirty = FALSE /\ q.hash = x
                       /\ q.rt = ApplyTransition(log, rt, x, r.index)) => TransitsTo(s, q)
  BY Zenon, <1>1 DEF TransitsTo
<1> HIDE DEF p, rt, hash, new, d, t
<1>8. /\ d = [open |-> p.open, pc |-> p.pc, branch |-> p.branch, head |-> p.head,
              hash |-> p.hash, index |-> p.index, dirty |-> TRUE, rt |-> new,
              cell |-> p.cell, eval |-> p.eval]
      /\ t = [open |-> p.open, pc |-> p.pc, branch |-> p.branch, head |-> p.head,
              hash |-> h, index |-> p.index, dirty |-> p.dirty, rt |-> new,
              cell |-> p.cell, eval |-> p.eval]
  BY <1>2, <1>5 DEF IsHandle
<1>9. /\ Keeps(p, d) /\ d.pc = p.pc /\ d.dirty = TRUE /\ d.hash = p.hash
      /\ Keeps(p, t) /\ t.pc = p.pc /\ t.dirty = p.dirty /\ t.hash = h /\ t.rt = new
  BY <1>8 DEF Keeps
<1>10. /\ Keeps(r, d) /\ d.pc = "idle" /\ d.hash = hash
       /\ Keeps(r, t) /\ t.pc = "idle" /\ t.dirty = FALSE /\ p.pc = "idle"
  BY <1>2, <1>3, <1>4, <1>9 DEF Keeps
<1>11. CASE st' = [st EXCEPT ![s] = p] /\ log' = log
  <2>1. TransitsTo(s, p)
    BY <1>2, <1>4, <1>7, <1>10, <1>11
  <2> QED BY <1>1, <1>11, <2>1
<1>12. CASE st' = [st EXCEPT ![s] = d] /\ log' = log
  <2>1. TransitsTo(s, d)
    BY <1>7, <1>9, <1>10, <1>12
  <2> QED BY <1>1, <1>12, <2>1
<1>13. CASE st' = [st EXCEPT ![s] = t] /\ log' = Append(log, RuntimeTransitioned(p.branch, p.head, h))
  <2>1. TransitsTo(s, t)
    BY <1>4, <1>6, <1>7, <1>9, <1>10, <1>13
  <2> QED BY <1>1, <1>13, <2>1
<1> QED BY <1>1, <1>11, <1>12, <1>13

HandleNext(s, q) ==
    \/ /\ born' = born
       /\ Checks(s, q) \/ Evaluates(s, q) \/ FailsCell(s, q) \/ CommitsCell(s, q) \/ TransitsTo(s, q)
    \/ MovesHead(s, q)
    \/ /\ born' = born /\ Turn
       /\ \E c \in MovedCells(log) :
             \/ /\ Loads(q, branchForCell(log, c), c)
                /\ log' = Append(log, RestoreCompleted(c, NoBranch))
             \/ /\ Loads(q, NextBranch, c)
                /\ log' = Append(Append(log, BranchCreated(NextBranch, c)),
                                 RestoreCompleted(c, NextBranch))
    \/ born' = born /\ Turn /\ log' = log /\ Opens(q)
    \/ born' = born /\ log' = log /\ ~q.open /\ q.dirty = FALSE

\* Every step: the handles wait, or one of them does something.
LEMMA NextHandles ==
    ASSUME "HeadMoved" \notin AppendFaults, SessionInv, \A s \in Handles : st[s].dirty \in BOOLEAN,
           [Next]_vars
    PROVE  /\ mode' = mode
           /\ Waits \/ \E s \in Handles : \E q : st' = [st EXCEPT ![s] = q] /\ HandleNext(s, q)
<1>1. CASE vars' = vars
  BY <1>1 DEF vars, Waits
<1>2. CASE Next
  <2>1. mode' = mode
    BY <1>2 DEF Next
  <2>2. PICK s \in Handles :
           \/ \E k \in Kinds : SubmitCheck(s, k)
           \/ SubmitEval(s) \/ SubmitCommit(s) \/ SubmitMove(s)
           \/ \E c \in 1..MaxCells : Restore(s, c) \/ Fork(s, c)
           \/ Open(s) \/ Stop(s)
           \/ \E h \in Hashes : Transition(s, h)
    BY <1>2 DEF Next
  <2>3. LogInv(log) /\ IsHandle(st[s]) /\ st[s].dirty \in BOOLEAN
    BY DEF SessionInv, HandleInv
  <2> SUFFICES Waits \/ \E q : st' = [st EXCEPT ![s] = q] /\ HandleNext(s, q)
    BY <2>1
  <2>4. CASE \E k \in Kinds : SubmitCheck(s, k)
    BY <2>3, <2>4, CheckHandle DEF HandleNext
  <2>5. CASE SubmitEval(s)
    BY <2>3, <2>5, EvalHandle DEF HandleNext
  <2>6. CASE SubmitCommit(s)
    BY <2>3, <2>6, CommitHandle DEF HandleNext
  <2>7. CASE SubmitMove(s)
    BY <2>3, <2>7, HeadHandle DEF HandleNext
  <2>8. CASE \E c \in 1..MaxCells : Restore(s, c)
    BY <2>8, RestoreHandle DEF HandleNext
  <2>9. CASE \E c \in 1..MaxCells : Fork(s, c)
    BY <2>9, ForkHandle DEF HandleNext
  <2>10. CASE Open(s)
    BY <2>3, <2>10, OpenHandle DEF HandleNext
  <2>11. CASE Stop(s)
    <3>1. st' = [st EXCEPT ![s] = Closed] /\ log' = log /\ born' = born
      BY <2>11 DEF Stop
    <3>2. ~Closed.open /\ Closed.dirty = FALSE
      BY DEF Closed
    <3> QED BY <3>1, <3>2 DEF HandleNext
  <2>12. CASE \E h \in Hashes : Transition(s, h)
    BY <2>3, <2>12, TransitHandle DEF HandleNext
  <2> QED BY <2>2, <2>4, <2>5, <2>6, <2>7, <2>8, <2>9, <2>10, <2>11, <2>12
<1> QED BY <1>1, <1>2

-----------------------------------------------------------------------------
(* What the runtimes of a handle have run. *)

\* One handle at a time, and transitions only where replay finds them.
Single == (\A s, t \in Handles : s = t) /\ ~TransitionOnFork

At(l, h, rt) == HasRun(rt, Lineage(l, h)) /\ (Single => rt = Base(l, h))

GoodHash(l) == \A h \in Known(l) : Base(l, h).hash = Config(l, h)

HandleRuns(l, r) ==
    /\ r.dirty \in BOOLEAN
    /\ r.open =>
       /\ r.head \in Known(l) /\ r.hash \in Names /\ (Single => r.hash = Config(l, r.head))
       /\ r.index = Len(Lineage(l, r.head)) \/ (r.pc = "idle" /\ r.dirty /\ Fails(l, r.head))
       /\ ~r.dirty /\ (r.pc = "idle" \/ Fresh) => At(l, r.head, r.rt)
       /\ r.pc = "eval" => At(l, r.head, Running(r))
       /\ r.pc \in {"commit", "move"} =>
             \E rt : At(l, r.head, rt) /\ Running(r) = RunCell(rt, r.cell)

\* What a handle has run stays what replay would run, whatever else is appended, but for
\* a transition another handle makes at the same head.
LEMMA RunsStay ==
    ASSUME NEW l, NEW f, Grown(l, f), NEW r, HandleRuns(l, r),
           f.type = "RuntimeTransitioned" => ~Single
    PROVE  HandleRuns(Append(l, f), r)
<1> DEFINE m == Append(l, f)
           h == r.head
<1>1. CASE ~r.open
  BY <1>1 DEF HandleRuns
<1>2. CASE r.open
  <2>1. h \in Known(l) /\ h \in Known(m)
    BY <1>2, KnownGrows DEF HandleRuns
  <2>2. Lineage(m, h) = Lineage(l, h) /\ (Fails(m, h) <=> Fails(l, h))
    BY <2>1, LineageStays, FailsStays
  <2>3. Single => InForce(m, h) = InForce(l, h)
    BY <2>1, InForceStep
  <2>4. Single => Base(m, h) = Base(l, h) /\ Config(m, h) = Config(l, h)
    BY <2>1, <2>3, BaseStays
  <2>5. \A rt : At(l, h, rt) => At(m, h, rt)
    BY <2>2, <2>4 DEF At
  <2> HIDE DEF m
  <2>6. HandleRuns(m, r)
    BY <1>2, <2>1, <2>2, <2>4, <2>5 DEF HandleRuns
  <2> QED BY <2>6 DEF m
<1> QED BY <1>1, <1>2

\* The runtimes of the heads there were stay the same when there is no transition.
LEMMA GoodStays ==
    ASSUME NEW l, NEW f, Grown(l, f), GoodHash(l), f.type # "RuntimeTransitioned",
           NEW h \in Known(l)
    PROVE  /\ Base(Append(l, f), h).hash = Config(Append(l, f), h)
           /\ Base(Append(l, f), h) = Base(l, h)
<1>1. InForce(Append(l, f), h) = InForce(l, h)
  BY InForceStep
<1>2. Base(Append(l, f), h) = Base(l, h) /\ Config(Append(l, f), h) = Config(l, h)
  BY <1>1, BaseStays
<1> QED BY <1>2 DEF GoodHash

\* A rebuilt runtime has run the history of the head.
LEMMA RebuiltAt ==
    ASSUME NEW l, LogInv(l), BasisInv(l), Single => GoodHash(l),
           NEW s, st[s].open, HandleRuns(l, st[s])
    PROVE  LET r == st[s]
               rt == Rebuilt(l, s)
           IN  /\ At(l, r.head, rt) /\ rt.hash \in Names
               /\ Single => rt.hash = Config(l, r.head)
               /\ Rebuildable(l, s) => ~Fails(l, r.head)
<1> DEFINE r == st[s]
           h == r.head
           rt == Rebuilt(l, s)
<1>1. h \in Known(l) /\ r.hash \in Names /\ (Single => r.hash = Config(l, h))
  BY DEF HandleRuns
<1>2. HasRun(Base(l, h), Lineage(l, h)) /\ (Single => Base(l, h).hash = Config(l, h))
  BY <1>1, BaseHasRun DEF GoodHash
<1>3. CASE h = NoCell
  <2>1. rt = NewRuntime(r.hash) /\ Base(l, h) = NewRuntime(Config(l, h)) /\ ~Fails(l, h)
    BY <1>3 DEF Rebuilt, Base, Fails
  <2>2. HasRun(rt, <<>>) /\ Lineage(l, h) = <<>>
    BY <1>1, <1>3, <2>1, NewHasRun, EmptyLineage
  <2>3. At(l, h, rt)
    BY <1>1, <2>1, <2>2 DEF At
  <2>4. rt.hash = r.hash
    BY <2>1 DEF NewRuntime
  <2> QED BY <1>1, <2>1, <2>3, <2>4
<1>4. CASE h # NoCell
  <2>1. rt = Base(l, h)
    BY <1>4 DEF Rebuilt, Base
  <2>2. At(l, h, rt)
    BY <1>2, <2>1 DEF At
  <2>3. rt.hash \in Names
    BY <1>2, <2>1 DEF HasRun
  <2>4. Rebuildable(l, s) => ~Fails(l, h)
    BY <1>4 DEF Rebuildable, Fails
  <2> QED BY <1>2, <2>1, <2>2, <2>3, <2>4
<1> QED BY <1>3, <1>4

-----------------------------------------------------------------------------
(* The transitions in force, by path and chain. *)

OnPath(segs, b, i) == \E k \in DOMAIN segs : segs[k].branch = b /\ i <= segs[k].cutoff

Follows(chain, b, c) ==
    IF c = NoCell THEN b = IF chain = <<>> THEN RootBranch ELSE chain[1].branch
    ELSE \E j \in DOMAIN chain : chain[j].branch = b /\ chain[j].cell = c

\* The transitions on the path to a branch that follow a cell of a chain.
PathSet(l, b, chain) ==
    {i \in OfType(l, "RuntimeTransitioned") :
       /\ l[i].branch = b \/ OnPath(Above(l, b), l[i].branch, i)
       /\ Follows(chain, l[i].branch, l[i].cell)}

\* The transitions in force at a cell are those on its path that follow a cell of its lineage.
LEMMA VisibleSet ==
    ASSUME NEW l, LogInv(l), NEW b \in Nat, Created(l, b), NEW c \in Nat
    PROVE  visibleTransitions(l, b, c) = PathSet(l, b, collectAncestorChain(l, b, c))
<1> DEFINE g == [branch |-> b, stop |-> c, cutoff |-> Len(l)]
           segs == Segments(l, b, c)
           up == Above(l, b)
           n == Len(up)
           chain == collectAncestorChain(l, b, c)
           R == OfType(l, "RuntimeTransitioned")
<1>1. l \in Seq(Facts) /\ b \in Nat \ {0}
  BY CreatedNumber DEF LogInv
<1>2. up \in Seq(Forks(l, b))
  BY <1>1, AboveIsSequence
<1>3. segs = Append(up, g) /\ g.branch = b /\ g.cutoff = Len(l)
  BY DEF Segments
<1>4. ChainOf(l, segs) = chain
  BY Zenon DEF collectAncestorChain
<1>5. visibleTransitions(l, b, c) = {i \in R : Visible(l, segs, chain, i)}
  <2> HIDE DEF segs, chain
  <2> QED BY <1>4 DEF visibleTransitions, VisibleOn, segs
<1>6. \A i \in R : i <= Len(l)
  BY <1>1, Positions
<1> HIDE DEF g, segs, up, chain
<1>7. \A i : Visible(l, segs, chain, i)
               <=> OnPath(segs, l[i].branch, i) /\ Follows(chain, l[i].branch, l[i].cell)
  BY Zenon DEF Visible, OnPath, Follows
<1>8. \A i \in R : \A x : OnPath(segs, x, i) <=> (x = b \/ OnPath(up, x, i))
  <2> SUFFICES ASSUME NEW i \in R, NEW x PROVE OnPath(segs, x, i) <=> (x = b \/ OnPath(up, x, i))
    OBVIOUS
  <2>1. /\ n \in Nat /\ DOMAIN up = 1..n /\ DOMAIN segs = 1..(n + 1) /\ segs[n + 1] = g
        /\ \A k \in 1..n : segs[k] = up[k]
    BY <1>2, <1>3
  <2>2. i <= Len(l)
    BY <1>6
  <2>3. \A k \in 1..(n + 1) : k \in 1..n \/ k = n + 1
    BY <2>1
  <2>4. \A k \in 1..n : k \in 1..(n + 1)
    BY <2>1
  <2>5. n + 1 \in 1..(n + 1)
    BY <2>1
  <2> HIDE DEF n
  <2> QED BY <1>3, <2>1, <2>2, <2>3, <2>4, <2>5 DEF OnPath
<1> HIDE DEF R
<1>9. visibleTransitions(l, b, c) =
         {i \in R : /\ l[i].branch = b \/ OnPath(up, l[i].branch, i)
                    /\ Follows(chain, l[i].branch, l[i].cell)}
  BY <1>5, <1>7, <1>8
<1> QED BY <1>9 DEF PathSet, R, up, chain

\* The path to a branch goes on from where it was forked.
LEMMA PathFork ==
    ASSUME NEW l, LogInv(l), NEW b \in Nat, OnBranch(l, "BranchCreated", b) # {},
           NEW x, NEW i
    PROVE  OnPath(Above(l, b), x, i)
              <=> \/ OnPath(Above(l, ForkOf(l, b).branch), x, i)
                  \/ x = ForkOf(l, b).branch /\ i <= ForkOf(l, b).cutoff
<1> DEFINE k == ForkOf(l, b)
           up == Above(l, k.branch)
           n == Len(up)
<1>1. k.branch \in 1..(b - 1) /\ b # 0
  BY ForkProperties
<1>2. Above(l, b) = Append(up, k)
  BY <1>1, AboveUnfold
<1>3. k.branch \in Nat \ {0} /\ up \in Seq(Forks(l, k.branch))
  BY <1>1, AboveIsSequence
<1> HIDE DEF k, up
<1>4. /\ n \in Nat /\ DOMAIN up = 1..n /\ DOMAIN Append(up, k) = 1..(n + 1)
      /\ Append(up, k)[n + 1] = k /\ \A j \in 1..n : Append(up, k)[j] = up[j]
  BY <1>3
<1>5. /\ \A j \in 1..(n + 1) : j \in 1..n \/ j = n + 1
      /\ \A j \in 1..n : j \in 1..(n + 1)
      /\ n + 1 \in 1..(n + 1)
  BY <1>4
<1> HIDE DEF n
<1> QED BY <1>2, <1>4, <1>5 DEF OnPath, k, up

-----------------------------------------------------------------------------
(* A cell is the last of its own lineage, and only there. *)

\* What a branch inherits was committed on other branches.
LEMMA InheritedElsewhere ==
    ASSUME NEW l, LogInv(l), NEW b \in Nat, Created(l, b)
    PROVE  Inherited(l, b) \in Seq({l[i] : i \in {j \in OfType(l, "CellCommitted") : l[j].branch # b}})
<1> DEFINE X == {l[i] : i \in {j \in OfType(l, "CellCommitted") : l[j].branch # b}}
           up == Above(l, b)
           n == Len(up)
           ss == [i \in DOMAIN up |-> committedCellsUpTo(l, up[i].branch, up[i].stop)]
<1>1. l \in Seq(Facts) /\ b \in Nat \ {0}
  BY CreatedNumber DEF LogInv
<1>2. up \in Seq(Forks(l, b))
  BY <1>1, AboveIsSequence
<1>3. \A k \in Forks(l, b) : k.branch # b
  BY <1>1 DEF Forks
<1>4. \A k \in Forks(l, b) : committedCellsUpTo(l, k.branch, k.stop) \in Seq(X)
  <2> TAKE k \in Forks(l, b)
  <2> DEFINE Y == {l[j] : j \in OnBranch(l, "CellCommitted", k.branch)}
  <2>1. committedCellsUpTo(l, k.branch, k.stop) \in Seq(Y)
    BY <1>1, CommitsAreCommits
  <2>2. Y \subseteq X
    BY <1>3 DEF OnBranch, OfType
  <2> HIDE DEF X, Y
  <2> QED BY <2>1, <2>2
<1>5. Inherited(l, b) = FlattenSeq(ss)
  BY Zenon DEF Inherited, ChainOf
<1> DEFINE Z == Seq(X)
<1> HIDE DEF up, X, n
<1>6. n \in Nat /\ DOMAIN up = 1..n /\ \A i \in 1..n : up[i] \in Forks(l, b)
  BY <1>2 DEF n
<1>7. ss \in Seq(Z)
  <2>1. \A i \in 1..n : committedCellsUpTo(l, up[i].branch, up[i].stop) \in Z
    BY <1>4, <1>6
  <2> HIDE DEF Z
  <2> QED BY <1>6, <2>1
<1> HIDE DEF ss
<1>8. FlattenSeq(ss) \in Seq(X)
  BY <1>7, FlattenRange
<1> QED BY <1>5, <1>8 DEF X

\* The last cell of a lineage is the head, and it was committed on the branch of the head.
LEMMA LineageLast ==
    ASSUME NEW l, LogInv(l), NEW c \in MovedCells(l)
    PROVE  /\ \E front \in Seq(Nat) : /\ Lineage(l, c) = Append(front, c)
                                      /\ \A i \in 1..Len(front) : front[i] # c
           /\ Chain(l, c) \in Seq(Facts) /\ Chain(l, c) # <<>>
           /\ \E j \in DOMAIN Chain(l, c) : /\ Chain(l, c)[j].branch = branchForCell(l, c)
                                            /\ Chain(l, c)[j].cell = c
<1> DEFINE b == branchForCell(l, c)
           u == Inherited(l, b)
           com == Commits(l, b)
           at == {i \in DOMAIN com : com[i].cell = c}
           k == Min(at)
           v == SubSeq(com, 1, k)
<1>1. /\ l \in Seq(Facts) /\ NumbersInv(l) /\ b \in Nat /\ Created(l, b) /\ c \in Nat
      /\ CommittedOn(l, b, c) /\ c # NoCell
  <2>1. PICK i \in OfType(l, "HeadMoved") : l[i].cell = c
    BY DEF MovedCells
  <2> QED BY <2>1, HeadsAreCells, MovedPlace DEF LogInv
<1>2. /\ com \in Seq(Facts) /\ DOMAIN com \in SUBSET Nat
      /\ \A i \in DOMAIN com : \E p \in OnBranch(l, "CellCommitted", b) : com[i] = l[p]
      /\ \A i, j \in DOMAIN com : com[i].cell = com[j].cell => i = j
  <2>1. /\ com \in Seq(Facts)
        /\ \A i \in DOMAIN com : \E p \in OnBranch(l, "CellCommitted", b) : com[i] = l[p]
        /\ \A i, j \in DOMAIN com : com[i].cell = com[j].cell => i = j
    BY CommitsDistinct
  <2>2. DOMAIN com \in SUBSET Nat
    <3> HIDE DEF com
    <3> QED BY <2>1
  <2> QED BY <2>1, <2>2
<1>3. at # {}
  BY <1>1, CommitListed
<1>4. committedCellsUpTo(l, b, c) = v
  <2>1. committedCellsUpTo(l, b, c) = SubSeq(com, 1, IF at = {} THEN Len(com) ELSE Min(at))
    BY Zenon DEF committedCellsUpTo, UpTo
  <2> QED BY <1>3, <2>1
<1>5. Chain(l, c) = u \o v
  <2>1. collectAncestorChain(l, b, c) = u \o v
    BY <1>1, <1>4, ChainParts
  <2> QED BY <1>1, <2>1 DEF Chain
<1> HIDE DEF com
<1>6. k \in at
  BY <1>2, <1>3, MinProperties
<1> HIDE DEF k
<1>7. k \in DOMAIN com /\ com[k].cell = c
  BY <1>6
<1> HIDE DEF at
<1>8. /\ v \in Seq(Facts) /\ Len(v) = k /\ k \in Nat \ {0} /\ v[k].cell = c /\ v[k].branch = b
      /\ \A i \in 1..(k - 1) : v[i].cell # c
  <2>1. k \in 1..Len(com) /\ Len(com) \in Nat /\ DOMAIN com = 1..Len(com)
    BY <1>2, <1>7
  <2>2. v \in Seq(Facts) /\ Len(v) = k /\ \A i \in 1..k : v[i] = com[i] /\ i \in DOMAIN com
    BY <1>2, <2>1
  <2>3. k \in 1..k
    BY <2>1
  <2>4. com[k].branch = b
    BY <1>2, <1>7 DEF OnBranch
  <2>5. \A i \in 1..(k - 1) : i \in 1..k /\ i # k
    BY <2>1
  <2> HIDE DEF v
  <2> QED BY <1>2, <1>7, <2>1, <2>2, <2>3, <2>4, <2>5
<1> HIDE DEF v
<1> DEFINE X == {l[i] : i \in {j \in OfType(l, "CellCommitted") : l[j].branch # b}}
<1>9. u \in Seq(X)
  BY <1>1, InheritedElsewhere
<1>10. \A f \in X : f \in Facts /\ f.cell # c
  <2> TAKE f \in X
  <2>1. PICK i \in OfType(l, "CellCommitted") : l[i].branch # b /\ f = l[i]
    OBVIOUS
  <2>2. PICK j \in OfCell(l, "CellCommitted", c) : l[j].branch = b
    BY <1>1 DEF CommittedOn
  <2>3. j \in OfType(l, "CellCommitted") /\ l[j].cell = c
    BY <2>2 DEF OfCell
  <2>4. l[i].cell # c
    BY <1>1, <2>1, <2>2, <2>3 DEF NumbersInv
  <2>5. l[i] \in Facts
    BY <1>1, Positions
  <2> QED BY <2>1, <2>4, <2>5
<1> HIDE DEF X, u
<1>11. u \in Seq(Facts) /\ \A i \in 1..Len(u) : u[i].cell # c
  BY <1>9, <1>10
<1> DEFINE w == u \o v
           n == Len(u) + k
<1>12. /\ w \in Seq(Facts) /\ Len(w) = n /\ n \in Nat \ {0} /\ w[n] = v[k]
       /\ \A i \in 1..(n - 1) : w[i].cell # c
  <2>1. /\ w \in Seq(Facts) /\ Len(w) = n /\ n \in Nat \ {0}
        /\ \A i \in 1..n : w[i] = IF i <= Len(u) THEN u[i] ELSE v[i - Len(u)]
    BY <1>8, <1>11
  <2>2. n \in 1..n /\ ~(n <= Len(u)) /\ n - Len(u) = k
    BY <1>8, <1>11
  <2>3. w[n] = v[k]
    BY <2>1, <2>2
  <2>4. ASSUME NEW i \in 1..(n - 1) PROVE w[i].cell # c
    <3>1. i \in 1..n /\ (i <= Len(u) => i \in 1..Len(u)) /\ (~(i <= Len(u)) => i - Len(u) \in 1..(k - 1))
      BY <1>8, <1>11
    <3> HIDE DEF w, n
    <3> QED BY <1>8, <1>11, <2>1, <2>4, <3>1
  <2> QED BY <2>1, <2>3, <2>4
<1> HIDE DEF w, n
<1>13. Chain(l, c) = w
  BY <1>5 DEF w
<1>14. Lineage(l, c) = Cells(w)
  BY <1>13 DEF Lineage
<1>15. Cells(w) \in Seq(Nat) /\ Len(Cells(w)) = n /\ \A i \in 1..n : Cells(w)[i] = w[i].cell
  BY <1>12, <1>8, CellsOf, FactShapes
<1>16. \E front \in Seq(Nat) : /\ Cells(w) = Append(front, c)
                               /\ \A i \in 1..Len(front) : front[i] # c
  <2> DEFINE x == Cells(w)
             front == SubSeq(x, 1, n - 1)
  <2>1. x \in Seq(Nat) /\ Len(x) = n /\ \A i \in 1..n : x[i] = w[i].cell
    BY <1>15
  <2> HIDE DEF x
  <2>2. /\ front \in Seq(Nat) /\ Len(front) = n - 1 /\ \A i \in 1..(n - 1) : front[i] = x[i] /\ i \in 1..n
    BY <1>12, <2>1
  <2>3. x[n] = c
    BY <1>8, <1>12, <2>1
  <2>4. \A i \in 1..(n - 1) : front[i] # c
    BY <1>12, <2>1, <2>2
  <2>5. x = Append(front, c)
    <3> DEFINE y == Append(front, c)
    <3> HIDE DEF front
    <3>1. y \in Seq(Nat) /\ Len(y) = n /\ y[n] = c /\ \A i \in 1..(n - 1) : y[i] = front[i]
      BY <1>1, <1>12, <2>2
    <3> HIDE DEF y
    <3>2. \A i \in 1..n : x[i] = y[i]
      <4> TAKE i \in 1..n
      <4>1. i = n \/ i \in 1..(n - 1)
        BY <1>12
      <4> QED BY <2>2, <2>3, <3>1, <4>1
    <3>3. x = y
      BY <2>1, <3>1, <3>2
    <3> QED BY <3>3 DEF y
  <2> HIDE DEF front
  <2>6. Cells(w) = Append(front, c)
    BY <2>5 DEF x
  <2> QED BY <2>2, <2>4, <2>6
<1>17. n \in DOMAIN w /\ w[n].branch = b /\ w[n].cell = c /\ w # <<>>
  BY <1>8, <1>12
<1> QED BY <1>12, <1>13, <1>14, <1>16, <1>17

-----------------------------------------------------------------------------
(* Where the cursor is, and the configuration there. *)

\* A branch without cells of its own; every transition is older than it.
Headless(l, b, h) ==
    /\ b # RootBranch /\ OnBranch(l, "BranchCreated", b) # {} /\ OnBranch(l, "HeadMoved", b) = {}
    /\ h \in MovedCells(l) /\ h = Start(l, b)
    /\ \A i \in OfType(l, "RuntimeTransitioned") :
          l[i].branch # b /\ i <= Min(OnBranch(l, "BranchCreated", b))

Place(l, b, h) ==
    /\ b \in Nat
    /\ \/ b = RootBranch /\ h = NoCell
       \/ h \in MovedCells(l) /\ CommittedOn(l, b, h)
       \/ Headless(l, b, h)

\* Nothing is above the root.
LEMMA RootAbove ==
    ASSUME NEW l, LogInv(l)
    PROVE  Above(l, RootBranch) = <<>> /\ \A x, i : ~OnPath(<<>>, x, i)
<1>1. OnBranch(l, "BranchCreated", RootBranch) = {}
  <2>1. \A i \in OfType(l, "BranchCreated") : RootBranch < l[i].branch
    BY DEF LogInv, NumbersInv
  <2> QED BY <2>1 DEF OnBranch, RootBranch
<1>2. RootBranch \in Nat \ {0}
  BY DEF RootBranch
<1>3. Above(l, RootBranch) = <<>>
  BY <1>1, <1>2, AboveUnfold
<1>4. DOMAIN <<>> = {}
  OBVIOUS
<1> QED BY <1>3, <1>4 DEF OnPath

\* At a place of the cursor, the transitions in force are those on the path to the branch.
LEMMA PlaceInForce ==
    ASSUME NEW l, LogInv(l), NEW b, NEW h, Place(l, b, h)
    PROVE  /\ InForce(l, h) = PathSet(l, b, Chain(l, h))
           /\ h # NoCell => \E j \in DOMAIN Chain(l, h) : Chain(l, h)[j].cell = h
           /\ (b = RootBranch /\ h = NoCell) \/ h \in MovedCells(l)
           /\ Chain(l, h) = <<>> => b = RootBranch /\ h = NoCell
<1> DEFINE R == OfType(l, "RuntimeTransitioned")
<1>1. CASE b = RootBranch /\ h = NoCell
  <2>1. Chain(l, h) = <<>> /\ Above(l, b) = <<>> /\ \A x, i : ~OnPath(<<>>, x, i)
    BY <1>1, EmptyLineage, RootAbove
  <2>2. InForce(l, h) = {i \in OnBranch(l, "RuntimeTransitioned", RootBranch) : l[i].cell = NoCell}
    BY <1>1 DEF InForce
  <2>3. DOMAIN <<>> = {}
    OBVIOUS
  <2>4. PathSet(l, b, Chain(l, h)) =
           {i \in R : l[i].branch = RootBranch /\ Follows(<<>>, l[i].branch, l[i].cell)}
    BY <1>1, <2>1 DEF PathSet
  <2>5. \A c : Follows(<<>>, RootBranch, c) <=> c = NoCell
    BY <2>3 DEF Follows
  <2>6. InForce(l, h) = PathSet(l, b, Chain(l, h))
    BY <2>2, <2>4, <2>5 DEF OnBranch
  <2> QED BY <1>1, <2>6
<1>2. CASE h \in MovedCells(l) /\ CommittedOn(l, b, h)
  <2>1. branchForCell(l, h) = b /\ Created(l, b) /\ h \in Nat /\ b \in Nat /\ h # NoCell
    <3>1. PICK i \in OfType(l, "HeadMoved") : l[i].cell = h
      BY <1>2 DEF MovedCells
    <3> QED BY <1>2, <3>1, HeadsAreCells, MovedPlace, BranchForCell
  <2>2. /\ InForce(l, h) = visibleTransitions(l, b, h)
        /\ Chain(l, h) = collectAncestorChain(l, b, h)
    BY <2>1 DEF InForce, Chain
  <2>3. InForce(l, h) = PathSet(l, b, Chain(l, h))
    BY <2>1, <2>2, VisibleSet
  <2> QED BY <1>2, <2>1, <2>3, LineageLast
<1>3. CASE Headless(l, b, h)
  <2> DEFINE k == ForkOf(l, b)
             p == k.branch
             created == OnBranch(l, "BranchCreated", b)
  <2>1. b \in Nat /\ created # {} /\ b # RootBranch /\ h \in MovedCells(l)
    BY <1>3 DEF Place, Headless
  <2>2. /\ CommittedOn(l, p, k.stop) /\ Created(l, p) /\ p \in 1..(b - 1)
        /\ k.stop = l[Min(created)].cell /\ k.cutoff = Min(created)
    BY <2>1, ForkProperties DEF ForkOf, ForkedFrom
  <2>3. h = k.stop
    BY <1>3, <2>1, <2>2 DEF Headless, Start
  <2>4. h \in Nat /\ h # NoCell /\ branchForCell(l, h) = p /\ p \in Nat
    <3>1. PICK i \in OfType(l, "HeadMoved") : l[i].cell = h
      BY <2>1 DEF MovedCells
    <3>2. h \in Nat /\ h # NoCell
      BY <2>1, <3>1, HeadsAreCells, MovedPlace
    <3> QED BY <2>1, <2>2, <2>3, <3>2, BranchForCell
  <2>5. /\ InForce(l, h) = visibleTransitions(l, p, h)
        /\ Chain(l, h) = collectAncestorChain(l, p, h)
    BY <2>4 DEF InForce, Chain
  <2>6. InForce(l, h) = PathSet(l, p, Chain(l, h))
    BY <2>2, <2>4, <2>5, VisibleSet
  <2>7. \A x, i : OnPath(Above(l, b), x, i) <=> (OnPath(Above(l, p), x, i) \/ (x = p /\ i <= k.cutoff))
    BY <2>1, PathFork
  <2>8. \A i \in R : l[i].branch # b /\ i <= k.cutoff
    BY <1>3, <2>2 DEF Headless
  <2> HIDE DEF k, p
  <2>9. \A i \in R : (l[i].branch = b \/ OnPath(Above(l, b), l[i].branch, i))
                        <=> (l[i].branch = p \/ OnPath(Above(l, p), l[i].branch, i))
    BY <2>7, <2>8
  <2>10. PathSet(l, b, Chain(l, h)) = PathSet(l, p, Chain(l, h))
    BY <2>9 DEF PathSet
  <2> QED BY <2>1, <2>4, <2>6, <2>10, LineageLast
<1> QED BY <1>1, <1>2, <1>3 DEF Place

\* What the store answers at the cursor is the configuration of the head.
LEMMA CursorConfig ==
    ASSUME NEW l, LogInv(l), NEW b, NEW h, Place(l, b, h), Commits(l, b) = Own(l, b)
    PROVE  loadActiveRuntime(l, b, h) = Config(l, h)
<1>1. CASE b = RootBranch /\ h = NoCell
  BY <1>1 DEF loadActiveRuntime, Config, InForce
<1>2. CASE h \in MovedCells(l) /\ CommittedOn(l, b, h)
  <2>1. branchForCell(l, h) = b /\ h # NoCell
    <3>1. PICK i \in OfType(l, "HeadMoved") : l[i].cell = h
      BY <1>2 DEF MovedCells
    <3> QED BY <1>2, <3>1, HeadsAreCells, BranchForCell
  <2> QED BY <2>1 DEF loadActiveRuntime, Config, InForce
<1>3. CASE Headless(l, b, h)
  <2>1. /\ b \in Nat /\ Created(l, b) /\ h \in MovedCells(l) /\ h = Start(l, b)
        /\ OnBranch(l, "HeadMoved", b) = {}
    BY <1>3 DEF Place, Headless, Created
  <2>2. h \in Nat /\ h # NoCell
    <3>1. PICK i \in OfType(l, "HeadMoved") : l[i].cell = h
      BY <2>1 DEF MovedCells
    <3> QED BY <2>1, <3>1, HeadsAreCells, MovedPlace
  <2>3. LoadHead(l, b) = NoCell /\ AtHead(l, b, h)
    BY <2>1 DEF LoadHead, AtHead
  <2>4. Own(l, b) = <<>>
    BY <2>3 DEF Own
  <2>5. Inherited(l, b) \in Seq(Facts) /\ Chain(l, h) = Inherited(l, b) \o Own(l, b)
    BY <2>1, <2>3, HandleLine
  <2>6. committedCellsUpTo(l, b, h) = <<>>
    <3>1. Commits(l, b) = <<>>
      BY <2>4
    <3>2. committedCellsUpTo(l, b, h) = UpTo(<<>>, h)
      BY <3>1 DEF committedCellsUpTo
    <3>3. UpTo(<<>>, h) = SubSeq(<<>>, 1, 0)
      <4>1. {i \in DOMAIN <<>> : <<>>[i].cell = h} = {}
        OBVIOUS
      <4> DEFINE at == {i \in DOMAIN <<>> : <<>>[i].cell = h}
      <4>2. UpTo(<<>>, h) = SubSeq(<<>>, 1, IF at = {} THEN Len(<<>>) ELSE Min(at))
        BY Zenon DEF UpTo
      <4> HIDE DEF at
      <4> QED BY <4>1, <4>2 DEF at
    <3> QED BY <3>2, <3>3
  <2>7. collectAncestorChain(l, b, h) = Chain(l, h)
    <3>1. collectAncestorChain(l, b, h) = Inherited(l, b) \o <<>>
      BY <2>1, <2>2, <2>6, ChainParts
    <3> QED BY <2>4, <2>5, <3>1
  <2>8. visibleTransitions(l, b, h) = PathSet(l, b, Chain(l, h))
    BY <2>1, <2>2, <2>7, VisibleSet
  <2>9. visibleTransitions(l, b, h) = InForce(l, h)
    BY <2>8, PlaceInForce
  <2> QED BY <2>2, <2>9 DEF loadActiveRuntime, Config
<1> QED BY <1>1, <1>2, <1>3 DEF Place

\* A transition at the cursor is in force there.
LEMMA TransitInForce ==
    ASSUME NEW l, NEW f, Grown(l, f), f.type = "RuntimeTransitioned", NEW b, NEW h,
           f.branch = b, f.cell = h, Place(l, b, h), ~Headless(l, b, h)
    PROVE  InForce(Append(l, f), h) = InForce(l, h) \cup {Len(l) + 1}
<1> DEFINE m == Append(l, f)
           n == Len(l) + 1
<1>1. /\ LogInv(l) /\ LogInv(m) /\ l \in Seq(Facts) /\ f \in Facts /\ h \in Known(l) /\ m \in Seq(Facts)
  BY AppendFact DEF Grown, LogInv
<1>2. /\ n \in OfType(m, "RuntimeTransitioned") /\ m[n] = f /\ n \notin OfType(l, "RuntimeTransitioned")
  <2>1. /\ OfType(m, "RuntimeTransitioned") = OfType(l, "RuntimeTransitioned") \cup
              (IF f.type = "RuntimeTransitioned" THEN {n} ELSE {})
        /\ m[n] = f /\ n \notin DOMAIN l
    BY <1>1, AppendFact
  <2> QED BY <2>1 DEF OfType
<1>3. Place(m, b, h)
  BY <1>1, KnownStays DEF Place
<1>4. Chain(m, h) = Chain(l, h)
  BY <1>1, LineageStays
<1>5. InForce(m, h) = PathSet(m, b, Chain(l, h))
  BY <1>1, <1>3, <1>4, PlaceInForce
<1>6. Follows(Chain(l, h), b, h)
  <2>1. CASE h = NoCell
    <3>1. b = RootBranch
      <4>1. h \notin MovedCells(l)
        BY <1>1, <2>1, HeadsAreCells DEF MovedCells
      <4> QED BY <4>1, <1>1, PlaceInForce
    <3> QED BY <2>1, <3>1, EmptyLineage DEF Follows
  <2>2. CASE h # NoCell
    <3>1. h \in MovedCells(l) /\ CommittedOn(l, b, h) /\ b \in Nat
      BY <2>2 DEF Place
    <3>2. branchForCell(l, h) = b
      BY <1>1, <3>1, BranchForCell
    <3> QED BY <1>1, <2>2, <3>1, <3>2, LineageLast DEF Follows
  <2> QED BY <2>1, <2>2
<1>7. n \in InForce(m, h)
  <2> HIDE DEF m, n
  <2> QED BY <1>2, <1>5, <1>6 DEF PathSet
<1>8. InForce(l, h) \in SUBSET OfType(l, "RuntimeTransitioned")
  BY <1>1, InForceStep
<1> QED BY <1>1, <1>2, <1>7, <1>8, InForceStep

\* One more cell in a chain: what followed the others still does.
LEMMA FollowsMore ==
    ASSUME NEW u \in Seq(Facts), NEW f \in Facts, u = <<>> => f.branch = RootBranch,
           NEW x, NEW d, d # f.cell
    PROVE  Follows(Append(u, f), x, d) <=> Follows(u, x, d)
<1> DEFINE n == Len(u)
           w == Append(u, f)
<1>1. /\ n \in Nat /\ DOMAIN u = 1..n /\ DOMAIN w = 1..(n + 1) /\ w[n + 1] = f
      /\ \A j \in 1..n : w[j] = u[j]
  OBVIOUS
<1>2. w # <<>> /\ (u = <<>> => n = 0) /\ (u # <<>> => n # 0)
  OBVIOUS
<1>3. \A j \in 1..(n + 1) : j \in 1..n \/ j = n + 1
  BY <1>1
<1>4. \A j \in 1..n : j \in 1..(n + 1)
  BY <1>1
<1>5. (n # 0 => 1 \in 1..n) /\ (n = 0 => n + 1 = 1)
  BY <1>1
<1> SUFFICES Follows(w, x, d) <=> Follows(u, x, d)
  BY DEF w
<1> HIDE DEF w, n
<1>6. CASE d = NoCell
  <2>1. Follows(w, x, d) <=> x = w[1].branch
    BY <1>2, <1>6 DEF Follows
  <2>2. Follows(u, x, d) <=> x = IF u = <<>> THEN RootBranch ELSE u[1].branch
    BY <1>6 DEF Follows
  <2>3. CASE u = <<>>
    BY <1>1, <1>2, <1>5, <2>1, <2>2, <2>3
  <2>4. CASE u # <<>>
    BY <1>1, <1>2, <1>5, <2>1, <2>2, <2>4
  <2> QED BY <2>3, <2>4
<1>7. CASE d # NoCell
  <2>1. Follows(w, x, d) <=> \E j \in 1..(n + 1) : w[j].branch = x /\ w[j].cell = d
    BY <1>1, <1>7 DEF Follows
  <2>2. Follows(u, x, d) <=> \E j \in 1..n : u[j].branch = x /\ u[j].cell = d
    BY <1>1, <1>7 DEF Follows
  <2> QED BY <1>1, <1>3, <1>4, <2>1, <2>2
<1> QED BY <1>6, <1>7

\* The head moves, and no configuration changes.
LEMMA MoveInForce ==
    ASSUME SessionInv, SessionInv', OwnInv, BasisInv(log), NEW s \in Handles, MoveStep(s),
           Place(log, st[s].branch, st[s].head), st[s].cell \notin Known(log)
    PROVE  InForce(log', st[s].cell) = InForce(log, st[s].head)
<1> DEFINE r == st[s]
           b == r.branch
           h == r.head
           c == r.cell
           f == CellCommitted(b, c)
           g == HeadMoved(b, h, c)
           R == OfType(log, "RuntimeTransitioned")
           u == Chain(log, h)
<1>1. LogInv(log) /\ LogInv(log') /\ HandleInv(log, r) /\ log \in Seq(Facts)
  BY DEF SessionInv, LogInv
<1>2. r.pc = "move" /\ log' = Append(log, g)
  BY DEF MoveStep
<1>3. /\ b \in Nat /\ h \in Nat /\ c \in Nat /\ Created(log, b) /\ CommittedOn(log, b, c)
  BY <1>1, <1>2 DEF HandleInv, IsHandle, AtHead
<1>4. /\ g \in Facts /\ g.type = "HeadMoved" /\ f.branch = b /\ f.cell = c
  BY <1>3, FactShapes DEF CellCommitted, HeadMoved
<1>5. /\ u \in Seq(Facts) /\ f \in Facts /\ Chain(log', c) = Append(u, f)
      /\ c \in MovedCells(log')
  BY MoveLineage
<1> HIDE DEF f, g, b, h, c, u
<1>6. CommittedOn(log', b, c)
  BY <1>1, <1>2, <1>3, <1>4, KnownStays
<1>7. Place(log', b, c)
  BY <1>3, <1>5, <1>6 DEF Place
<1>8. /\ InForce(log', c) = PathSet(log', b, Append(u, f))
      /\ InForce(log, h) = PathSet(log, b, u)
      /\ u = <<>> => b = RootBranch
  <2>1. Place(log, b, h) /\ u = Chain(log, h)
    BY DEF b, h, u
  <2>2. InForce(log, h) = PathSet(log, b, u) /\ (u = <<>> => b = RootBranch)
    BY <1>1, <2>1, PlaceInForce
  <2>3. InForce(log', c) = PathSet(log', b, Chain(log', c))
    BY <1>1, <1>7, PlaceInForce
  <2> QED BY <1>5, <2>2, <2>3
<1>9. /\ OfType(log', "RuntimeTransitioned") = R
      /\ \A i \in DOMAIN log : log'[i] = log[i]
  <2>1. /\ \A t : OfType(Append(log, g), t) = OfType(log, t) \cup
                       (IF g.type = t THEN {Len(log) + 1} ELSE {})
        /\ \A i \in DOMAIN log : Append(log, g)[i] = log[i]
    <3> HIDE DEF R
    <3> QED BY <1>1, <1>4, AppendFact
  <2>2. g.type # "RuntimeTransitioned"
    BY <1>4
  <2> QED BY <1>2, <2>1, <2>2
<1>10. Above(log', b) = Above(log, b)
  BY <1>1, <1>2, <1>3, <1>4, AboveStays
<1>11. \A i \in R : log[i].cell # c /\ i \in DOMAIN log
  BY DEF BasisInv, OfType, c
<1>12. \A i \in R : Follows(Append(u, f), log[i].branch, log[i].cell)
                      <=> Follows(u, log[i].branch, log[i].cell)
  <2>1. ASSUME NEW x, NEW d, d # c PROVE Follows(Append(u, f), x, d) <=> Follows(u, x, d)
    BY <1>4, <1>5, <1>8, <2>1, FollowsMore
  <2> QED BY <1>11, <2>1
<1>13. PathSet(log', b, Append(u, f)) = PathSet(log, b, u)
  <2>1. PathSet(log', b, Append(u, f)) =
          {i \in R : /\ log'[i].branch = b \/ OnPath(Above(log, b), log'[i].branch, i)
                     /\ Follows(Append(u, f), log'[i].branch, log'[i].cell)}
    BY <1>9, <1>10 DEF PathSet
  <2> QED BY <2>1, <1>9, <1>11, <1>12 DEF PathSet
<1> QED BY <1>8, <1>13 DEF c, h

-----------------------------------------------------------------------------
(* What replay builds after a transition, and after a move of the head. *)

\* A transition before the first cell makes a new runtime in its configuration.
LEMMA FreshTransit ==
    ASSUME NEW l, NEW a, NEW b
    PROVE  ApplyTransition(l, NewRuntime(a), b, 0) = NewRuntime(b)
<1> DEFINE x == NewRuntime(a)
           none == <<>>
           q == [x EXCEPT !.hash = b, !.vals = none]
<1>1. x = [hash |-> a, ran |-> none, vals |-> none]
  BY DEF NewRuntime
<1>2. x.hash = a /\ x.vals = none
  BY <1>1
<1>3. q = [x EXCEPT !.hash = b, !.vals = none]
  OBVIOUS
<1>4. ApplyTransition(l, x, b, 0) =
        IF x.hash = b THEN x
        ELSE [x EXCEPT !.hash = b, !.vals = IF 0 = 0 THEN x.vals ELSE ReplaceStale(l, x.vals, b, 0)]
  BY Zenon DEF ApplyTransition
<1>5. ApplyTransition(l, x, b, 0) = IF x.hash = b THEN x ELSE q
  BY <1>2, <1>4
<1> HIDE DEF x, none, q
<1>6. q = [hash |-> b, ran |-> none, vals |-> none]
  BY <1>1, <1>3
<1>7. q = NewRuntime(b)
  BY <1>6 DEF NewRuntime, none
<1> QED BY <1>2, <1>5, <1>7 DEF x

\* A later transition is the one a configuration comes from.
LEMMA LaterConfig ==
    ASSUME NEW l, NEW f, Grown(l, f), NEW at \in SUBSET DOMAIN l
    PROVE  LatestHash(Append(l, f), at \cup {Len(l) + 1}) = f.hash
<1> DEFINE m == Append(l, f)
           n == Len(l) + 1
           more == at \cup {n}
<1>1. /\ l \in Seq(Facts) /\ f \in Facts
  BY DEF Grown, LogInv
<1>2. /\ m[n] = f /\ n \in Nat /\ \A i \in DOMAIN l : i < n
  BY <1>1, AppendFact
<1>3. DOMAIN l \in SUBSET Nat /\ IsFiniteSet(at)
  BY <1>1, Positions
<1>4. more \in SUBSET Nat /\ IsFiniteSet(more) /\ more # {} /\ n \in more
  BY <1>2, <1>3, FS_AddElement
<1> HIDE DEF m, n
<1>5. Max(more) = n
  <2>1. \A y \in more : y <= n
    BY <1>2, <1>3
  <2>2. Max(more) \in more /\ \A y \in more : y <= Max(more)
    <3> HIDE DEF more
    <3> QED BY <1>4, FiniteMaxProperties
  <2>3. Max(more) <= n /\ n <= Max(more) /\ Max(more) \in Nat
    <3> HIDE DEF more
    <3> QED BY <1>4, <2>1, <2>2
  <2> HIDE DEF more
  <2> QED BY <1>2, <2>3
<1> QED BY <1>2, <1>4, <1>5 DEF LatestHash, m, n

\* Two plans that end with the same cell, in two logs that agree on its history.
TailCase(l, m, plan, new, front, c) ==
    /\ IsPlan(plan) /\ IsPlan(new) /\ new.hash = plan.hash
    /\ front \in Steps /\ c \in Nat /\ c # NoCell /\ \A i \in 1..Len(front) : front[i] # c
    /\ plan.steps = Append(front, c) /\ new.steps = Append(front, c)
    /\ SameSources(l, m, Append(front, c))

\* A transition after the last cell of a plan comes after everything else.
LEMMA ReplayTransit ==
    ASSUME NEW l, NEW m, NEW plan, NEW new, NEW front, NEW c, TailCase(l, m, plan, new, front, c),
           NEW t \in [after : Nat, hash : Hashes], t.after = c,
           new.transitions = Append(plan.transitions, t)
    PROVE  /\ Replay(m, new) = ApplyTransition(l, Replay(l, plan), t.hash, Len(front) + 1)
           /\ Replay(m, new).hash = t.hash
<1> DEFINE k == Len(front) + 1
           s == Append(front, c)
           pf == [hash |-> plan.hash, steps |-> front, transitions |-> plan.transitions]
           nf == [hash |-> new.hash, steps |-> front, transitions |-> new.transitions]
<1>1. /\ IsPlan(plan) /\ IsPlan(new) /\ new.hash = plan.hash
      /\ front \in Steps /\ c \in Nat /\ c # NoCell /\ \A i \in 1..Len(front) : front[i] # c
      /\ plan.steps = s /\ new.steps = s /\ SameSources(l, m, s)
  BY DEF TailCase
<1>2. /\ pf.hash = plan.hash /\ pf.steps = front /\ pf.transitions = plan.transitions
      /\ nf.hash = plan.hash /\ nf.steps = front /\ nf.transitions = new.transitions
  BY <1>1
<1> HIDE DEF pf, nf
<1>3. IsPlan(pf) /\ IsPlan(nf) /\ nf.hash = pf.hash /\ nf.steps = pf.steps
  BY <1>1, <1>2 DEF IsPlan
<1>4. /\ k \in Nat /\ s \in Steps /\ Len(s) = k /\ s[k] = c
      /\ \A i \in 1..Len(front) : s[i] = front[i] /\ i \in 1..k
  BY <1>1 DEF Steps
<1>5. SameSources(l, m, front)
  BY <1>1, <1>4 DEF SameSources
<1>6. SameTransits(pf, nf, front)
  BY <1>1, <1>2 DEF SameTransits
<1>7. HasRun(Replay(l, pf), front) /\ Replay(m, nf) = Replay(l, pf)
  <2>1. SameSources(l, m, pf.steps) /\ SameTransits(pf, nf, pf.steps)
    BY <1>2, <1>5, <1>6
  <2>2. HasRun(Replay(l, pf), pf.steps) /\ Replay(m, nf) = Replay(l, pf)
    BY <1>3, <2>1, ReplaySame
  <2> QED BY <1>2, <2>2
<1> DEFINE z == Replay(l, pf)
           x == Answered(z, c, k)
           y == ApplyTransitions(l, x, plan, c, k)
<1>8. Replay(l, plan) = y
  <2>1. plan.hash = pf.hash /\ plan.steps = Append(pf.steps, c) /\ plan.transitions = pf.transitions
    BY <1>1, <1>2
  <2> QED BY <1>1, <1>2, <1>3, <2>1, ReplayUnfold
<1>9. Replay(m, new) = ApplyTransitions(m, x, new, c, k)
  <2>1. new.hash = nf.hash /\ new.steps = Append(nf.steps, c) /\ new.transitions = nf.transitions
    BY <1>1, <1>2
  <2>2. Replay(m, new) = ApplyTransitions(m, Answered(Replay(m, nf), c, Len(nf.steps) + 1),
                                          new, c, Len(nf.steps) + 1)
    BY <1>1, <1>3, <2>1, ReplayUnfold
  <2> QED BY <1>2, <1>7, <2>2
<1> HIDE DEF z
<1>10. HasRun(x, s)
  BY <1>1, <1>7, CellHasRun DEF Answered, z
<1> HIDE DEF x, k, s
<1>11. HasRun(y, s) /\ ApplyTransitions(m, x, plan, c, k) = y
  <2>1. ApplyCase(l, m, plan, plan, c, k, s, x)
    BY <1>1, <1>4, <1>10 DEF ApplyCase, IsPlan
  <2> QED BY <2>1, ApplySame
<1>12. ApplyTransitions(m, x, new, c, k) = ApplyTransition(m, y, t.hash, k)
  BY <1>1, <1>11, ApplyMore DEF IsPlan
<1> HIDE DEF y
<1>13. t.hash \in Hashes
  OBVIOUS
<1>14. /\ ApplyTransition(l, y, t.hash, k).hash = t.hash
       /\ ApplyTransition(m, y, t.hash, k) = ApplyTransition(l, y, t.hash, k)
  BY <1>1, <1>4, <1>11, <1>13, TransitHasRun
<1> QED BY <1>8, <1>9, <1>12, <1>14 DEF k

\* A cell is the last of its lineage, and occurs once.
LEMMA LineageFront ==
    ASSUME NEW l, LogInv(l), NEW c \in MovedCells(l)
    PROVE  \E front \in Seq(Nat) : /\ Lineage(l, c) = Append(front, c)
                                   /\ \A i \in 1..Len(front) : front[i] # c
  BY LineageLast

\* A transition at a head is the last thing replay to it does.
LEMMA TransitBase ==
    ASSUME NEW l, NEW f, Grown(l, f), f.type = "RuntimeTransitioned",
           InForce(Append(l, f), f.cell) = InForce(l, f.cell) \cup {Len(l) + 1}
    PROVE  LET h == f.cell
               m == Append(l, f)
           IN  /\ Config(m, h) = f.hash /\ Base(m, h).hash = f.hash
               /\ Base(m, h) = ApplyTransition(l, Base(l, h), f.hash, Len(Lineage(l, h)))
<1> DEFINE h == f.cell
           m == Append(l, f)
           n == Len(l) + 1
           at == InForce(l, h)
           t == [after |-> h, hash |-> f.hash]
<1>1. /\ LogInv(l) /\ LogInv(m) /\ BasisInv(l) /\ BasisInv(m) /\ f \in Facts /\ l \in Seq(Facts)
      /\ h \in Known(l) /\ h \in Known(m)
  BY BasisStep, KnownGrows DEF Grown, LogInv
<1>2. at \in SUBSET OfType(l, "RuntimeTransitioned") /\ at \in SUBSET DOMAIN l
  BY <1>1, InForceStep, Positions
<1>3. Config(m, h) = f.hash
  BY <1>1, <1>2, LaterConfig DEF Config
<1>4. f.hash \in Hashes /\ h \in Nat
  BY <1>1 DEF Facts
<1>5. t \in [after : Nat, hash : Hashes] /\ t.after = h /\ t.hash = f.hash
  BY <1>4
<1>6. CASE h = NoCell
  <2>1. Base(m, h) = NewRuntime(f.hash) /\ Base(l, h) = NewRuntime(Config(l, h))
    BY <1>3, <1>6 DEF Base
  <2>2. Lineage(l, h) = <<>>
    BY <1>6, EmptyLineage
  <2>3. Len(Lineage(l, h)) = 0
    BY <2>2
  <2>4. NewRuntime(f.hash).hash = f.hash
    BY DEF NewRuntime
  <2> HIDE DEF h, m
  <2> QED BY <1>3, <2>1, <2>3, <2>4, FreshTransit DEF h, m
<1>7. CASE h # NoCell
  <2> DEFINE plan == LoadReplayPlan(l, h)
             new == LoadReplayPlan(m, h)
             s == Lineage(l, h)
  <2>1. h \in MovedCells(l) /\ h \in MovedCells(m)
    BY <1>1, <1>7 DEF Known
  <2>2. /\ IsPlan(plan) /\ plan.hash = AttachedHash(l) /\ plan.steps = s
        /\ plan.transitions = buildRuntimeTransitions(l, at)
    BY <1>1, <2>1, PlanShape
  <2>3. /\ IsPlan(new) /\ new.hash = AttachedHash(m) /\ new.steps = Lineage(m, h)
        /\ new.transitions = buildRuntimeTransitions(m, at \cup {n})
    <3>1. /\ IsPlan(new) /\ new.hash = AttachedHash(m) /\ new.steps = Lineage(m, h)
          /\ new.transitions = buildRuntimeTransitions(m, InForce(m, h))
      BY <1>1, <2>1, PlanShape
    <3>2. InForce(m, h) = at \cup {n}
      OBVIOUS
    <3> HIDE DEF new, at, m, n, h
    <3> QED BY <3>1, <3>2
  <2>4. /\ AttachedHash(m) = AttachedHash(l) /\ Lineage(m, h) = s /\ SameSources(l, m, s)
    BY <1>1, AttachedStays, LineageStays
  <2>5. new.transitions = Append(plan.transitions, t)
    BY <1>1, <1>2, <2>2, <2>3, BuildStays
  <2>6. PICK front \in Seq(Nat) : s = Append(front, h) /\ \A i \in 1..Len(front) : front[i] # h
    <3> HIDE DEF h
    <3>1. \E front \in Seq(Nat) : /\ Lineage(l, h) = Append(front, h)
                                  /\ \A i \in 1..Len(front) : front[i] # h
      BY <1>1, <2>1, LineageFront
    <3> QED BY <3>1 DEF s
  <2>7. Base(l, h) = Replay(l, plan) /\ Base(m, h) = Replay(m, new)
    BY <1>7 DEF Base
  <2> HIDE DEF plan, new, s, t, h, m, n, at
  <2>8. /\ TailCase(l, m, plan, new, front, h)
        /\ new.transitions = Append(plan.transitions, t)
    BY <1>4, <1>7, <2>2, <2>3, <2>4, <2>5, <2>6 DEF TailCase, Steps
  <2>9. /\ Replay(m, new) = ApplyTransition(l, Replay(l, plan), t.hash, Len(front) + 1)
        /\ Replay(m, new).hash = t.hash
    BY <1>5, <2>8, ReplayTransit
  <2>10. Len(s) = Len(front) + 1
    BY <1>4, <2>6
  <2> QED BY <1>3, <1>5, <2>7, <2>9, <2>10 DEF s, h, m
<1> QED BY <1>6, <1>7

\* The transitions before the first cell are the first thing replay applies.
LEMMA ReplayNothing ==
    ASSUME NEW l, NEW plan, IsPlan(plan), plan.steps = <<>>,
           \A i \in 1..Len(plan.transitions) : plan.transitions[i].after = NoCell
    PROVE  Replay(l, plan) =
             NewRuntime(IF plan.transitions = <<>> THEN plan.hash
                        ELSE plan.transitions[Len(plan.transitions)].hash)
<1>1. plan.steps \in Steps /\ Len(plan.steps) = 0
  BY DEF IsPlan
<1>2. PICK f : Replay(l, plan) = f[Len(plan.steps)] /\ IsReplayed(l, plan, f)
  BY <1>1, ReplayPath
<1>3. Replay(l, plan) = ApplyTransitions(l, NewRuntime(plan.hash), plan, NoCell, 0)
  BY <1>1, <1>2 DEF IsReplayed
<1> QED BY <1>3, ApplyFirst DEF IsPlan

\* A plan with one more cell, which no transition follows.
LEMMA ReplayOneMore ==
    ASSUME NEW l, NEW plan, NEW new, NEW c \in Nat, IsPlan(plan), IsPlan(new),
           new.hash = plan.hash, new.steps = Append(plan.steps, c),
           new.transitions = plan.transitions,
           \A i \in 1..Len(new.transitions) : new.transitions[i].after # c
    PROVE  Replay(l, new) = Answered(Replay(l, plan), c, Len(plan.steps) + 1)
<1> DEFINE x == Answered(Replay(l, plan), c, Len(plan.steps) + 1)
<1>1. Replay(l, new) = ApplyTransitions(l, x, new, c, Len(plan.steps) + 1)
  BY ReplayUnfold
<1> HIDE DEF x
<1>2. ApplyTransitions(l, x, new, c, Len(plan.steps) + 1) = x
  BY ApplyNone DEF IsPlan
<1> QED BY <1>1, <1>2 DEF x

\* The head moves: replay answers for one cell more.
LEMMA MoveBase ==
    ASSUME SessionInv, SessionInv', OwnInv, NEW s \in Handles, MoveStep(s),
           Grown(log, HeadMoved(st[s].branch, st[s].head, st[s].cell)),
           st[s].head \in Known(log), st[s].cell \notin Known(log),
           InForce(log', st[s].cell) = InForce(log, st[s].head)
    PROVE  LET h == st[s].head
               c == st[s].cell
           IN  /\ Base(log', c) = Answered(Base(log, h), c, Len(Lineage(log, h)) + 1)
               /\ Config(log', c) = Config(log, h)
<1> DEFINE h == st[s].head
           c == st[s].cell
           g == HeadMoved(st[s].branch, h, c)
           at == InForce(log, h)
           cells == Lineage(log, h)
           new == LoadReplayPlan(log', c)
           pf == [hash |-> new.hash, steps |-> cells, transitions |-> new.transitions]
<1>1. /\ LogInv(log) /\ LogInv(log') /\ BasisInv(log) /\ log \in Seq(Facts) /\ g \in Facts
      /\ log' = Append(log, g) /\ h \in Known(log)
  BY DEF SessionInv, LogInv, MoveStep, Grown
<1>2. BasisInv(log')
  BY <1>1, BasisStep
<1>3. /\ cells \in Seq(Nat) /\ c \in Nat \ {NoCell} /\ Lineage(log', c) = Append(cells, c)
      /\ c \in MovedCells(log')
  BY MoveLineage
<1>4. /\ IsPlan(new) /\ new.hash = AttachedHash(log') /\ new.steps = Append(cells, c)
      /\ new.transitions = buildRuntimeTransitions(log', at)
  BY <1>1, <1>2, <1>3, PlanShape
<1>5. /\ AttachedHash(log') = AttachedHash(log) /\ AttachedHash(log) \in Hashes
      /\ SameSources(log, log', cells)
  BY <1>1, AttachedStays, LineageStays
<1>6. at \in SUBSET OfType(log, "RuntimeTransitioned") /\ at \in SUBSET DOMAIN log
  BY <1>1, InForceStep, Positions
<1>7. new.transitions = buildRuntimeTransitions(log, at)
  BY <1>1, <1>4, <1>6, BuildStays
<1>8. Config(log', c) = Config(log, h)
  BY <1>1, <1>6, ConfigStays DEF Config
<1>9. /\ pf.hash = new.hash /\ pf.steps = cells /\ pf.transitions = new.transitions
  OBVIOUS
<1>10. Base(log', c) = Replay(log', new)
  BY <1>3 DEF Base
<1>11. st[s].cell \notin Known(log)
  OBVIOUS
<1> HIDE DEF pf, new, g, at, c, h, cells
<1>12. IsPlan(pf)
  BY <1>3, <1>4, <1>9 DEF IsPlan, Steps
<1> DEFINE ts == buildRuntimeTransitions(log, at)
<1>13. /\ ts \in Transits /\ (ts = <<>> <=> at = {})
       /\ at # {} => ts[Len(ts)].hash = log[Max(at)].hash
       /\ \A k \in 1..Len(ts) : \E i \in at : ts[k].after = log[i].cell
  BY <1>1, <1>6, BuildShape
<1> HIDE DEF ts
<1>14. \A k \in 1..Len(ts) : ts[k].after # c
  <2>1. \A i \in at : log[i].cell \in Known(log)
    BY <1>1, <1>6 DEF BasisInv
  <2> QED BY <1>11, <1>13, <2>1 DEF c
<1>15. new.transitions = ts
  BY <1>7 DEF ts
<1>16. Replay(log', new) = Answered(Replay(log', pf), c, Len(cells) + 1)
  <2>1. /\ new.hash = pf.hash /\ new.steps = Append(pf.steps, c) /\ new.transitions = pf.transitions
        /\ \A i \in 1..Len(new.transitions) : new.transitions[i].after # c
    BY <1>4, <1>9, <1>14, <1>15
  <2>2. Replay(log', new) = Answered(Replay(log', pf), c, Len(pf.steps) + 1)
    BY <1>3, <1>4, <1>12, <2>1, ReplayOneMore
  <2> QED BY <1>9, <2>2
<1>17. Replay(log', pf) = Base(log, h)
  <2>1. CASE h = NoCell
    <3>1. cells = <<>>
      BY <2>1, EmptyLineage DEF cells
    <3>2. \A i \in at : log[i].cell = NoCell
      BY <2>1 DEF at, InForce
    <3>3. \A k \in 1..Len(pf.transitions) : pf.transitions[k].after = NoCell
      BY <1>9, <1>13, <1>15, <3>2
    <3>4. Replay(log', pf) = NewRuntime(IF pf.transitions = <<>> THEN pf.hash
                                        ELSE pf.transitions[Len(pf.transitions)].hash)
      BY <1>9, <1>12, <3>1, <3>3, ReplayNothing
    <3>5. Replay(log', pf) = NewRuntime(IF at = {} THEN AttachedHash(log) ELSE log[Max(at)].hash)
      BY <1>4, <1>5, <1>9, <1>13, <1>15, <3>4
    <3> QED BY <2>1, <3>5 DEF Base, Config, LatestHash, at
  <2>2. CASE h # NoCell
    <3> DEFINE plan == LoadReplayPlan(log, h)
    <3>1. h \in MovedCells(log)
      BY <1>1, <2>2 DEF Known
    <3>2. /\ IsPlan(plan) /\ plan.hash = AttachedHash(log) /\ plan.steps = cells
          /\ plan.transitions = ts
      BY <1>1, <3>1, PlanShape DEF cells, ts, at
    <3>3. Base(log, h) = Replay(log, plan)
      BY <2>2 DEF Base
    <3> HIDE DEF plan
    <3>4. /\ pf.hash = plan.hash /\ pf.steps = plan.steps /\ pf.transitions = plan.transitions
          /\ SameSources(log, log', plan.steps)
      BY <1>4, <1>5, <1>9, <1>15, <3>2
    <3>5. SameTransits(plan, pf, plan.steps)
      BY <3>4 DEF SameTransits
    <3>6. Replay(log', pf) = Replay(log, plan)
      BY <1>12, <3>2, <3>4, <3>5, ReplaySame
    <3> QED BY <3>3, <3>6
  <2> QED BY <2>1, <2>2
<1> QED BY <1>8, <1>10, <1>16, <1>17 DEF c, h, cells

\* A runtime that leaves $last read-only has run a cell that cannot be replayed.
LEMMA SealedFails ==
    ASSUME SessionInv, SessionInv', OwnInv, NEW s \in Handles, MoveStep(s),
           Grown(log, HeadMoved(st[s].branch, st[s].head, st[s].cell)),
           st[s].head \in Known(log),
           NEW rt, HasRun(rt, Lineage(log, st[s].head)), Sealed(log, RunCell(rt, st[s].cell))
    PROVE  Fails(log', st[s].cell)
<1> DEFINE h == st[s].head
           c == st[s].cell
           g == HeadMoved(st[s].branch, h, c)
           cells == Lineage(log, h)
           more == Append(cells, c)
           ran == Append(rt.ran, [cell |-> c, hash |-> rt.hash])
<1>1. /\ LogInv(log) /\ LogInv(log') /\ BasisInv(log) /\ log \in Seq(Facts) /\ g \in Facts
      /\ log' = Append(log, g) /\ h \in Known(log) /\ HandleInv(log, st[s]) /\ st[s].pc = "move"
  BY DEF SessionInv, LogInv, MoveStep, Grown
<1>2. BasisInv(log')
  BY <1>1, BasisStep
<1>3. /\ cells \in Seq(Nat) /\ c \in Nat \ {NoCell} /\ Lineage(log', c) = more
      /\ c \in MovedCells(log')
  BY MoveLineage
<1>4. /\ RunCell(rt, c).ran = ran
      /\ rt.ran \in Seq([cell : Nat, hash : Names]) /\ Len(rt.ran) = Len(cells) /\ rt.hash \in Names
      /\ \A i \in 1..Len(cells) : rt.ran[i].cell = cells[i]
  <2>1. cells \in Steps /\ c \in Nat /\ HasRun(rt, cells)
    BY <1>3 DEF Steps
  <2> HIDE DEF cells, c, ran
  <2>2. RunCell(rt, c).ran = Append(rt.ran, [cell |-> c, hash |-> rt.hash])
    BY <2>1, CellHasRun
  <2> QED BY <2>1, <2>2 DEF HasRun, ran
<1>5. PICK i \in DOMAIN ran : CellSource(log, ran[i].cell) = "sealLast"
  BY <1>4 DEF Sealed
<1>6. /\ DOMAIN ran = 1..(Len(cells) + 1) /\ Len(cells) \in Nat
      /\ \A k \in 1..Len(cells) : ran[k] = rt.ran[k]
      /\ ran[Len(cells) + 1] = [cell |-> c, hash |-> rt.hash]
  BY <1>3, <1>4
<1>7. /\ Len(more) = Len(cells) + 1 /\ more[Len(cells) + 1] = c
      /\ \A k \in 1..Len(cells) : more[k] = cells[k]
  BY <1>3
<1>8. \A k \in 1..Len(cells) : cells[k] \in 1..CellCount(log)
  <2>1. CASE h = NoCell
    <3>1. cells = <<>>
      BY <2>1, EmptyLineage
    <3> QED BY <3>1
  <2>2. CASE h # NoCell
    BY <1>1, <2>2, PlanShape DEF Known
  <2> QED BY <2>1, <2>2
<1>9. c \in 1..CellCount(log)
  BY <1>1 DEF HandleInv
<1> HIDE DEF ran, more, cells, g, h, c
<1>10. more[i] = ran[i].cell /\ more[i] \in 1..CellCount(log) /\ i \in 1..Len(more)
  <2>1. i \in 1..Len(cells) \/ i = Len(cells) + 1
    BY <1>5, <1>6
  <2> QED BY <1>4, <1>5, <1>6, <1>7, <1>8, <1>9, <2>1
<1>11. CellSource(log', more[i]) = "sealLast"
  <2>1. Grown(log, g)
    BY DEF g, h, c
  <2> QED BY <1>1, <1>5, <1>10, <2>1, SourceStays
<1>12. c \in Known(log')
  BY <1>3 DEF Known
<1> QED BY <1>1, <1>2, <1>3, <1>10, <1>11, <1>12, FailsIs DEF c

-----------------------------------------------------------------------------
(* The invariant: what every handle has run is what replay would run. *)
\* Replay of every head ends in its configuration, and runs what ran then.
Bases(l, b) == GoodHash(l) /\ \A c \in MovedCells(l) : b[c] = Base(l, c).ran

\* Every handle has run the history of its head. With one handle, the cursor of the log
\* is where it is, so that every transition it makes is one that replay finds.
RunInv ==
    /\ BasisInv(log) /\ born = [c \in 1..MaxCells |-> born[c]]
    /\ \A s \in Handles : HandleRuns(log, st[s])
    /\ Single => /\ Bases(log, born) /\ Place(log, CursorOf(log)[1], CursorOf(log)[2])
                 /\ \A s \in Handles :
                       st[s].open => CursorOf(log) = <<st[s].branch, st[s].head>>

\* What is known before and after a step.
Ready == SessionInv /\ SessionInv' /\ CellOrderInv /\ TreeInv /\ RunInv

\* A fact of a step.
LEMMA GrowsBy ==
    ASSUME Ready, NEW f, log' = Append(log, f),
           f.type = "CellChecked" => f.cell = CellCount(log) + 1,
           f.type = "RuntimeTransitioned" =>
              /\ f.cell \in Known(log) /\ Created(log, f.branch)
              /\ LoadHead(log, f.branch) \in {NoCell, f.cell}
    PROVE  Grown(log, f) /\ log \in Seq(Facts) /\ f \in Facts
  <1>1. LogInv(log) /\ LogInv(log') /\ OrderInv(log) /\ BasisInv(log)
    BY DEF Ready, SessionInv, CellOrderInv, RunInv
  <1>2. log \in Seq(Facts) /\ log' \in Seq(Facts)
    BY <1>1 DEF LogInv
  <1>3. Len(log) + 1 \in DOMAIN log' /\ log'[Len(log) + 1] = f
    BY <1>2
  <1>4. f \in Facts
    BY <1>2, <1>3
  <1>. HIDE DEF OrderInv
  <1>. QED
    BY <1>1, <1>2, <1>4 DEF Grown

\* Nothing but a head that moves makes a cell one.
LEMMA KnownSame ==
    ASSUME NEW l \in Seq(Facts), NEW f \in Facts
    PROVE  /\ f.type # "HeadMoved" => Known(Append(l, f)) = Known(l)
           /\ f.type = "HeadMoved" => Known(Append(l, f)) = Known(l) \cup {f.cell}
           /\ f.type # "HeadMoved" => MovedCells(Append(l, f)) = MovedCells(l)
           /\ f.type = "HeadMoved" => MovedCells(Append(l, f)) = MovedCells(l) \cup {f.cell}
  <1>. DEFINE m == Append(l, f)
  <1>1. \A i \in DOMAIN l : m[i] = l[i]
    BY AppendFact
  <1>2. m[Len(l) + 1] = f
    BY AppendFact
  <1>3. OfType(m, "HeadMoved") = OfType(l, "HeadMoved") \cup
           (IF f.type = "HeadMoved" THEN {Len(l) + 1} ELSE {})
    BY AppendFact
  <1>4. OfType(l, "HeadMoved") \in SUBSET DOMAIN l
    BY DEF OfType
  <1>. HIDE DEF m
  <1>5. CASE f.type # "HeadMoved"
    <2>1. MovedCells(m) = MovedCells(l)
      BY <1>1, <1>3, <1>4, <1>5 DEF MovedCells
    <2>. QED
      BY <1>5, <2>1 DEF Known, m
  <1>6. CASE f.type = "HeadMoved"
    <2>1. OfType(m, "HeadMoved") = OfType(l, "HeadMoved") \cup {Len(l) + 1}
      BY <1>3, <1>6
    <2>2. MovedCells(m) = MovedCells(l) \cup {f.cell}
      BY <1>1, <1>2, <1>4, <2>1 DEF MovedCells
    <2>. QED
      BY <1>6, <2>2 DEF Known, m
  <1>. QED
    BY <1>5, <1>6

\* Replay of the heads there were, after a fact that is no transition.
LEMMA GoodSame ==
    ASSUME NEW l, NEW f, Grown(l, f), f.type \notin {"HeadMoved", "RuntimeTransitioned"},
           GoodHash(l)
    PROVE  GoodHash(Append(l, f))
  <1>1. Known(Append(l, f)) = Known(l)
    BY KnownSame, KnownGrows
  <1>2. \A h \in Known(l) : Base(Append(l, f), h).hash = Config(Append(l, f), h)
    BY GoodStays
  <1>. QED
    BY <1>1, <1>2 DEF GoodHash

\* What had run when the cells were committed is still what replay runs.
LEMMA BasesSame ==
    ASSUME NEW l, NEW f, Grown(l, f), f.type \notin {"HeadMoved", "RuntimeTransitioned"},
           NEW b, Bases(l, b)
    PROVE  Bases(Append(l, f), b)
  <1>1. GoodHash(l) /\ \A c \in MovedCells(l) : b[c] = Base(l, c).ran
    BY DEF Bases
  <1>2. GoodHash(Append(l, f))
    BY <1>1, GoodSame
  <1>3. MovedCells(Append(l, f)) = MovedCells(l)
    BY KnownSame, KnownGrows
  <1>4. \A h \in Known(l) : Base(Append(l, f), h) = Base(l, h)
    BY <1>1, GoodStays
  <1>5. MovedCells(l) \subseteq Known(l)
    BY DEF Known
  <1>6. \A c \in MovedCells(Append(l, f)) : b[c] = Base(Append(l, f), c).ran
    BY <1>1, <1>3, <1>4, <1>5
  <1>. HIDE DEF GoodHash
  <1>. QED
    BY <1>2, <1>6 DEF Bases

\* A fresh fork stays one, unless a head moves or a transition is made.
LEMMA HeadlessStays ==
    ASSUME NEW l, NEW f, Grown(l, f), f.type \notin {"HeadMoved", "RuntimeTransitioned"},
           NEW b, NEW h, Headless(l, b, h)
    PROVE  Headless(Append(l, f), b, h)
  <1>. DEFINE m == Append(l, f)
  <1>1. l \in Seq(Facts) /\ f \in Facts /\ Known(l) \subseteq Known(m)
    BY KnownGrows
  <1>2. /\ b # RootBranch /\ OnBranch(l, "BranchCreated", b) # {}
        /\ OnBranch(l, "HeadMoved", b) = {} /\ h \in MovedCells(l) /\ h = Start(l, b)
        /\ \A i \in OfType(l, "RuntimeTransitioned") :
              l[i].branch # b /\ i <= Min(OnBranch(l, "BranchCreated", b))
    BY DEF Headless
  <1>3. Start(m, b) = Start(l, b)
    BY <1>1, <1>2, StartStays DEF Created
  <1>4. h \in MovedCells(m)
    BY <1>1, <1>2, KnownStays
  <1>5. OnBranch(m, "HeadMoved", b) = {}
    <2>1. OnBranch(m, "HeadMoved", b) = OnBranch(l, "HeadMoved", b) \cup
             (IF f.type = "HeadMoved" /\ f.branch = b THEN {Len(l) + 1} ELSE {})
      BY <1>1, AppendFact
    <2>. QED
      BY <1>2, <2>1
  <1>6. /\ OfType(m, "RuntimeTransitioned") = OfType(l, "RuntimeTransitioned")
        /\ \A i \in OfType(l, "RuntimeTransitioned") : m[i] = l[i]
    <2>1. OfType(m, "RuntimeTransitioned") = OfType(l, "RuntimeTransitioned") \cup
             (IF f.type = "RuntimeTransitioned" THEN {Len(l) + 1} ELSE {})
      BY <1>1, AppendFact
    <2>2. \A i \in DOMAIN l : m[i] = l[i]
      BY <1>1, AppendFact
    <2>. HIDE DEF m
    <2>. QED
      BY <2>1, <2>2 DEF OfType
  <1>7. /\ OnBranch(m, "BranchCreated", b) # {}
        /\ Min(OnBranch(m, "BranchCreated", b)) = Min(OnBranch(l, "BranchCreated", b))
    <2>. DEFINE S == OnBranch(l, "BranchCreated", b)
    <2>1. OnBranch(m, "BranchCreated", b) = S \cup
             (IF f.type = "BranchCreated" /\ f.branch = b THEN {Len(l) + 1} ELSE {})
      BY <1>1, AppendFact
    <2>2. S \in SUBSET Nat /\ S # {} /\ Len(l) + 1 \in Nat /\ \A x \in S : x < Len(l) + 1
      BY <1>1, <1>2, Positions
    <2>. HIDE DEF S, m
    <2>3. Min(S \cup {Len(l) + 1}) = Min(S)
      BY <2>2, MinStays
    <2>4. OnBranch(m, "BranchCreated", b) = S \/ OnBranch(m, "BranchCreated", b) = S \cup {Len(l) + 1}
      BY <2>1
    <2>. QED
      BY <2>2, <2>3, <2>4 DEF S
  <1>. HIDE DEF m
  <1>. QED
    BY <1>2, <1>3, <1>4, <1>5, <1>6, <1>7 DEF Headless, m

\* Every place stays one, unless the head moves or a transition is made on a fresh fork.
LEMMA PlaceStays ==
    ASSUME NEW l, NEW f, Grown(l, f), f.type # "HeadMoved", NEW b, NEW h, Place(l, b, h),
           f.type = "RuntimeTransitioned" => ~Headless(l, b, h)
    PROVE  Place(Append(l, f), b, h)
  <1>1. l \in Seq(Facts) /\ f \in Facts
    BY KnownGrows
  <1>2. b \in Nat
    BY DEF Place
  <1>3. CASE Headless(l, b, h)
    <2>1. Headless(Append(l, f), b, h)
      BY <1>3, HeadlessStays
    <2>. QED
      BY <1>2, <2>1 DEF Place
  <1>4. CASE h \in MovedCells(l) /\ CommittedOn(l, b, h)
    <2>1. h \in MovedCells(Append(l, f)) /\ CommittedOn(Append(l, f), b, h)
      BY <1>1, <1>4, KnownStays
    <2>. QED
      BY <1>2, <2>1 DEF Place
  <1>5. CASE b = RootBranch /\ h = NoCell
    BY <1>2, <1>5 DEF Place
  <1>. QED
    BY <1>3, <1>4, <1>5 DEF Place

\* A restore goes where a cell was committed.
LEMMA RestorePlace ==
    ASSUME NEW l, NEW c \in MovedCells(l), Grown(l, RestoreCompleted(c, NoBranch))
    PROVE  LET m == Append(l, RestoreCompleted(c, NoBranch))
           IN  /\ CursorOf(m) = <<branchForCell(l, c), c>>
               /\ Place(m, branchForCell(l, c), c)
  <1>. DEFINE f == RestoreCompleted(c, NoBranch)
              m == Append(l, f)
  <1>1. l \in Seq(Facts) /\ f \in Facts /\ LogInv(l)
    BY KnownGrows DEF Grown
  <1>2. f.type = "RestoreCompleted" /\ f.cell = c /\ f.newBranch = NoBranch
    BY DEF RestoreCompleted
  <1>3. branchForCell(l, c) \in Nat /\ CommittedOn(l, branchForCell(l, c), c)
    BY <1>1, MovedPlace
  <1>4. branchForCell(m, c) = branchForCell(l, c)
    <2>1. c \in Known(l)
      BY DEF Known
    <2>. QED
      BY <2>1, LineageStays
  <1>5. ActiveBranch(m, f) = branchForCell(m, c)
    <2>. HIDE DEF f, m
    <2>. QED
      BY <1>2 DEF ActiveBranch
  <1>6. CursorOf(m) = <<ActiveBranch(m, f), f.cell>>
    BY <1>1, <1>2, CursorMoves
  <1>7. c \in MovedCells(m) /\ CommittedOn(m, branchForCell(l, c), c)
    BY <1>1, <1>3, KnownStays
  <1>. HIDE DEF f, m
  <1>8. Place(m, branchForCell(l, c), c)
    BY <1>3, <1>7 DEF Place
  <1>. QED
    BY <1>2, <1>4, <1>5, <1>6, <1>8 DEF f, m

\* A fork starts without cells of its own, and is younger than every transition.
LEMMA ForkPlace ==
    ASSUME NEW l, BasisInv(l), LogInv(l), NEW b \in Nat, ~Created(l, b), NEW c \in MovedCells(l),
           BranchCreated(b, c) \in Facts, RestoreCompleted(c, b) \in Facts, b # NoBranch,
           LogInv(Append(Append(l, BranchCreated(b, c)), RestoreCompleted(c, b)))
    PROVE  LET m == Append(Append(l, BranchCreated(b, c)), RestoreCompleted(c, b))
           IN  CursorOf(m) = <<b, c>> /\ Place(m, b, c)
  <1>. DEFINE f == BranchCreated(b, c)
              k == Append(l, f)
              g == RestoreCompleted(c, b)
              m == Append(k, g)
              n == Len(l) + 1
  <1>1. /\ f.type = "BranchCreated" /\ f.branch = b /\ g.type = "RestoreCompleted"
        /\ g.cell = c /\ g.newBranch = b
    BY DEF BranchCreated, RestoreCompleted
  <1>2. l \in Seq(Facts) /\ f \in Facts /\ g \in Facts /\ k \in Seq(Facts) /\ LogInv(m)
    BY AppendFact DEF LogInv
  <1>3. /\ n \in Nat /\ \A i \in DOMAIN l : k[i] = l[i] /\ i <= n
        /\ \A t : OfType(k, t) = OfType(l, t) \cup (IF f.type = t THEN {n} ELSE {})
        /\ \A t, x : OnBranch(k, t, x) = OnBranch(l, t, x) \cup
                        (IF f.type = t /\ f.branch = x THEN {n} ELSE {})
    <2>1. Len(l) \in Nat /\ \A i \in DOMAIN l : i <= Len(l)
      BY <1>2, Positions
    <2>2. \A i \in DOMAIN l : i \in Nat
      BY <1>2, Positions
    <2>3. \A i \in DOMAIN l : k[i] = l[i] /\ i <= n
      BY <1>2, <2>1, <2>2, AppendFact
    <2>. QED
      BY <1>2, <2>1, <2>3, AppendFact
  <1>5. DOMAIN k = DOMAIN l \cup {n}
    BY <1>2, AppendFact
  <1>. HIDE DEF n, k, f, g
  <1>4. /\ m[Len(k) + 1] = g /\ \A i \in DOMAIN k : m[i] = k[i]
        /\ \A t : OfType(m, t) = OfType(k, t) \cup (IF g.type = t THEN {Len(k) + 1} ELSE {})
        /\ \A t, x : OnBranch(m, t, x) = OnBranch(k, t, x) \cup
                        (IF g.type = t /\ g.branch = x THEN {Len(k) + 1} ELSE {})
    BY <1>2, AppendFact
  <1>. HIDE DEF m
  <1>6. /\ OnBranch(l, "BranchCreated", b) = {} /\ b # RootBranch
        /\ OnBranch(l, "HeadMoved", b) = {}
    <2>1. b # RootBranch /\ OnBranch(l, "BranchCreated", b) = {}
      BY DEF Created
    <2>2. \A i \in OfType(l, "HeadMoved") : Created(l, l[i].branch)
      BY DEF LogInv, HeadsInv
    <2>. QED
      BY <2>1, <2>2 DEF OnBranch
  <1>7. OnBranch(m, "BranchCreated", b) = {n} /\ OnBranch(m, "HeadMoved", b) = {}
    BY <1>1, <1>3, <1>4, <1>6
  <1>8. Min(OnBranch(m, "BranchCreated", b)) = n
    <2>1. {n} \in SUBSET Nat /\ {n} # {}
      BY <1>3
    <2>2. Min({n}) \in {n}
      BY <2>1, MinProperties
    <2>. QED
      BY <1>7, <2>2
  <1>9. /\ OfType(m, "RuntimeTransitioned") = OfType(l, "RuntimeTransitioned")
        /\ \A i \in OfType(l, "RuntimeTransitioned") : m[i] = l[i] /\ i <= n
    <2>1. OfType(m, "RuntimeTransitioned") = OfType(l, "RuntimeTransitioned")
      <3>1. OfType(m, "RuntimeTransitioned") = OfType(k, "RuntimeTransitioned") \cup
               (IF g.type = "RuntimeTransitioned" THEN {Len(k) + 1} ELSE {})
        BY <1>4
      <3>2. OfType(k, "RuntimeTransitioned") = OfType(l, "RuntimeTransitioned") \cup
               (IF f.type = "RuntimeTransitioned" THEN {n} ELSE {})
        BY <1>3
      <3>. QED
        BY <1>1, <3>1, <3>2
    <2>2. \A i \in OfType(l, "RuntimeTransitioned") : i \in DOMAIN l
      BY DEF OfType
    <2>. QED
      BY <1>3, <1>4, <1>5, <2>1, <2>2
  <1>10. \A i \in OfType(m, "RuntimeTransitioned") :
            m[i].branch # b /\ i <= Min(OnBranch(m, "BranchCreated", b))
    <2>1. \A i \in OfType(l, "RuntimeTransitioned") : Created(l, l[i].branch)
      BY DEF BasisInv
    <2>. QED
      BY <1>8, <1>9, <2>1
  <1>11. c \in MovedCells(m) /\ Start(m, b) = c
    <2>1. Len(k) + 1 \in OfType(m, "RestoreCompleted")
      BY <1>1, <1>4
    <2>. QED
      BY <1>1, <1>2, <1>4, <2>1 DEF LogInv, HeadsInv
  <1>12. Place(m, b, c)
    <2>1. Headless(m, b, c)
      BY <1>6, <1>7, <1>10, <1>11 DEF Headless
    <2>. QED
      BY <2>1 DEF Place
  <1>13. CursorOf(m) = <<b, c>>
    <2>1. CursorOf(m) = <<ActiveBranch(m, g), g.cell>>
      BY <1>1, <1>2, CursorMoves DEF m
    <2>2. ActiveBranch(m, g) = b
      BY <1>1 DEF ActiveBranch
    <2>. QED
      BY <1>1, <2>1, <2>2
  <1>. QED
    BY <1>12, <1>13 DEF m, g, k, f

-----------------------------------------------------------------------------
(* What a handle has run after a step of its own. *)
\* The parts of the invariant a step of a handle starts from.
LEMMA ReadyParts ==
    ASSUME Ready, NEW s \in Handles
    PROVE  /\ LogInv(log) /\ LogInv(log') /\ BasisInv(log) /\ OwnInv /\ HandleRuns(log, st[s])
           /\ HandleInv(log, st[s]) /\ (Single => GoodHash(log))
           /\ st[s].branch \in Nat /\ st[s].head \in Nat /\ st[s].cell \in Nat
           /\ CellCount(log) \in Nat
  <1>1. HandleInv(log, st[s]) /\ LogInv(log) /\ LogInv(log')
    BY DEF Ready, SessionInv
  <1>2. IsHandle(st[s])
    BY <1>1 DEF HandleInv
  <1>3. st[s].branch \in Nat /\ st[s].head \in Nat /\ st[s].cell \in Nat
    BY <1>2 DEF IsHandle
  <1>4. CellCount(log) \in Nat
    BY <1>1, Positions DEF LogInv, CellCount
  <1>5. BasisInv(log) /\ OwnInv /\ HandleRuns(log, st[s]) /\ (Single => GoodHash(log))
    BY DEF Ready, RunInv, TreeInv, Bases
  <1>. QED
    BY <1>1, <1>3, <1>4, <1>5

\* The cell is checked, and a runtime is prepared for it.
LEMMA CheckRuns ==
    ASSUME Ready, NEW s \in Handles, NEW q, Checks(s, q)
    PROVE  HandleRuns(log', q) /\ \E f : /\ Grown(log, f) /\ log' = Append(log, f)
                                         /\ f.type = "CellChecked"
  <1>. DEFINE r == st[s]
  <1>1. PICK k \in Kinds : log' = Append(log, CellChecked(r.branch, CellCount(log) + 1, k))
    BY DEF Checks
  <1>. DEFINE f == CellChecked(r.branch, CellCount(log) + 1, k)
  <1>2. f.type = "CellChecked" /\ f.cell = CellCount(log) + 1
    BY DEF CellChecked
  <1>. HIDE DEF f
  <1>3. Grown(log, f) /\ log' = Append(log, f)
    BY <1>1, <1>2, GrowsBy DEF f
  <1>4. HandleRuns(log', r)
    BY <1>2, <1>3, ReadyParts, RunsStay
  <1>5. LogInv(log') /\ BasisInv(log') /\ (Single => GoodHash(log'))
    BY <1>2, <1>3, ReadyParts, BasisStep, GoodSame
  <1>6. /\ r.open /\ Keeps(r, q) /\ Spares(r, q) /\ q.pc = "eval" /\ q.dirty \in BOOLEAN
        /\ Running(q) = IF NeedsReplay(s) THEN Rebuilt(log', s) ELSE r.rt
        /\ q.hash = IF ~Fresh /\ r.dirty THEN Rebuilt(log', s).hash ELSE r.hash
        /\ NeedsReplay(s) => Rebuildable(log', s)
        /\ r.pc = "idle"
    BY DEF Checks, Turn
  <1>7. /\ At(log', r.head, Rebuilt(log', s)) /\ Rebuilt(log', s).hash \in Names
        /\ Single => Rebuilt(log', s).hash = Config(log', r.head)
        /\ Rebuildable(log', s) => ~Fails(log', r.head)
    BY <1>4, <1>5, <1>6, RebuiltAt
  <1>8. r.dirty => NeedsReplay(s)
    BY DEF NeedsReplay
  <1>. HIDE DEF Single, At, Fails, Known, Lineage, Config, Names, Rebuilt, Rebuildable, NeedsReplay,
                Running
  <1>9. /\ r.head \in Known(log') /\ r.hash \in Names /\ (Single => r.hash = Config(log', r.head))
        /\ r.index = Len(Lineage(log', r.head)) \/ (r.pc = "idle" /\ r.dirty /\ Fails(log', r.head))
        /\ ~r.dirty => At(log', r.head, r.rt)
        /\ r.dirty \in BOOLEAN
    BY <1>4, <1>6 DEF HandleRuns
  <1>10. r.index = Len(Lineage(log', r.head))
    BY <1>6, <1>7, <1>8, <1>9
  <1>11. At(log', r.head, Running(q))
    BY <1>6, <1>7, <1>8, <1>9
  <1>12. q.hash \in Names /\ (Single => q.hash = Config(log', r.head))
    BY <1>6, <1>7, <1>9
  <1>13. Fresh /\ ~q.dirty => At(log', r.head, q.rt)
    BY <1>6, <1>9 DEF Spares
  <1>14. q.open = r.open /\ q.head = r.head /\ q.index = r.index
    BY <1>6 DEF Keeps
  <1>15. HandleRuns(log', q)
    BY <1>6, <1>9, <1>10, <1>11, <1>12, <1>13, <1>14 DEF HandleRuns
  <1>. QED
    BY <1>2, <1>3, <1>15

\* The cell runs.
LEMMA EvalRuns ==
    ASSUME Ready, NEW s \in Handles, NEW q, Evaluates(s, q)
    PROVE  HandleRuns(log', q) /\ \E f : /\ Grown(log, f) /\ log' = Append(log, f)
                                         /\ f.type = "CellEvaluated"
  <1>. DEFINE r == st[s]
              f == CellEvaluated(r.branch, r.cell)
  <1>1. log' = Append(log, f)
    BY DEF Evaluates
  <1>2. f.type = "CellEvaluated"
    BY DEF CellEvaluated
  <1>. HIDE DEF f
  <1>3. Grown(log, f)
    BY <1>1, <1>2, GrowsBy
  <1>4. HandleRuns(log', r)
    BY <1>1, <1>2, <1>3, ReadyParts, RunsStay
  <1>5. /\ r.pc = "eval" /\ Keeps(r, q) /\ Spares(r, q) /\ q.pc = "commit" /\ q.cell = r.cell
        /\ q.hash = r.hash /\ q.dirty = r.dirty /\ Running(q) = RunCell(Running(r), r.cell)
    BY DEF Evaluates
  <1>. HIDE DEF Single, At, Fails, Known, Lineage, Config, Names, Running, RunCell
  <1>6. HandleRuns(log', q)
    BY <1>4, <1>5 DEF HandleRuns, Keeps, Spares
  <1>. QED
    BY <1>1, <1>2, <1>3, <1>6

\* The submit fails.
LEMMA FailRuns ==
    ASSUME Ready, NEW s \in Handles, NEW q, FailsCell(s, q)
    PROVE  HandleRuns(log', q) /\ (log' = log \/ \E f : /\ Grown(log, f) /\ log' = Append(log, f)
                                                        /\ f.type = "CellFailed")
  <1>. DEFINE r == st[s]
              f == CellFailed(r.branch, r.head)
  <1>1. log' = log \/ log' = Append(log, f)
    BY DEF FailsCell
  <1>2. f.type = "CellFailed"
    BY DEF CellFailed
  <1>. HIDE DEF f
  <1>3. log' = Append(log, f) => Grown(log, f)
    BY <1>2, GrowsBy
  <1>4. HandleRuns(log', r)
    BY <1>1, <1>2, <1>3, ReadyParts, RunsStay
  <1>5. /\ r.pc \in {"eval", "commit"} /\ Keeps(r, q) /\ Spares(r, q) /\ q.pc = "idle"
        /\ q.hash = r.hash /\ q.dirty \in BOOLEAN /\ (~Fresh => q.dirty)
    BY DEF FailsCell
  <1>. HIDE DEF Single, At, Fails, Known, Lineage, Config, Names, Running, RunCell
  <1>6. HandleRuns(log', q)
    BY <1>4, <1>5 DEF HandleRuns, Keeps, Spares
  <1>. QED
    BY <1>1, <1>2, <1>3, <1>6

\* The cell is committed.
LEMMA CommitRuns ==
    ASSUME Ready, NEW s \in Handles, NEW q, CommitsCell(s, q)
    PROVE  HandleRuns(log', q) /\ \E f : /\ Grown(log, f) /\ log' = Append(log, f)
                                         /\ f.type = "CellCommitted"
  <1>. DEFINE r == st[s]
              f == CellCommitted(r.branch, r.cell)
  <1>1. log' = Append(log, f)
    BY DEF CommitsCell
  <1>2. f.type = "CellCommitted"
    BY DEF CellCommitted
  <1>. HIDE DEF f
  <1>3. Grown(log, f)
    BY <1>1, <1>2, GrowsBy
  <1>4. HandleRuns(log', r)
    BY <1>1, <1>2, <1>3, ReadyParts, RunsStay
  <1>5. /\ r.pc = "commit" /\ Keeps(r, q) /\ Spares(r, q) /\ q.pc = "move" /\ q.cell = r.cell
        /\ q.hash = r.hash /\ q.dirty = r.dirty /\ Running(q) = Running(r)
    BY DEF CommitsCell
  <1>. HIDE DEF Single, At, Fails, Known, Lineage, Config, Names, Running, RunCell
  <1>6. HandleRuns(log', q)
    BY <1>4, <1>5 DEF HandleRuns, Keeps, Spares
  <1>. QED
    BY <1>1, <1>2, <1>3, <1>6

\* A handle that was loaded has run what replay runs.
LEMMA LoadRuns ==
    ASSUME Ready, NEW b, NEW c, NEW q, Loads(q, b, c)
    PROVE  HandleRuns(log, q) /\ q.open /\ q.branch = b /\ q.head = c /\ c \in MovedCells(log)
  <1>1. LogInv(log) /\ BasisInv(log) /\ (Single => GoodHash(log))
    BY DEF Ready, SessionInv, RunInv, Bases
  <1>. DEFINE plan == LoadReplayPlan(log, c)
              rt == Replay(log, plan)
  <1>2. /\ c \in MovedCells(log) /\ q.open /\ q.pc = "idle" /\ q.branch = b /\ q.head = c
        /\ q.hash = rt.hash /\ q.index = Len(plan.steps) /\ q.dirty = FALSE /\ q.rt = rt
    BY DEF Loads, Places
  <1>3. plan.steps = Lineage(log, c) /\ c # NoCell
    BY <1>1, <1>2, PlanShape
  <1>4. c \in Known(log)
    BY <1>2 DEF Known
  <1>5. rt = Base(log, c)
    BY <1>3 DEF Base
  <1>6. HasRun(rt, Lineage(log, c))
    BY <1>1, <1>4, <1>5, BaseHasRun
  <1>7. rt.hash \in Names
    BY <1>6 DEF HasRun
  <1>8. Single => rt.hash = Config(log, c)
    BY <1>1, <1>4, <1>5 DEF GoodHash
  <1>9. At(log, c, rt)
    BY <1>5, <1>6 DEF At
  <1>. HIDE DEF Single, At, Fails, Known, Lineage, Config, Names, Running, RunCell, plan, rt
  <1>10. HandleRuns(log, q)
    BY <1>2, <1>3, <1>4, <1>7, <1>8, <1>9 DEF HandleRuns
  <1>. QED
    BY <1>2, <1>10

\* A handle that was opened is at the cursor, and has run what replay runs.
LEMMA OpenRuns ==
    ASSUME Ready, Turn, NEW q, Opens(q)
    PROVE  /\ HandleRuns(log, q) /\ q.open /\ CursorOf(log) = <<q.branch, q.head>>
  <1>. DEFINE cur == LoadSessionState(log)
  <1>1. CursorOf(log) = <<cur.branch, cur.head>>
    BY DEF CursorOf
  <1>2. CASE cur.head # NoCell
    <2>1. Loads(q, cur.branch, cur.head)
      BY <1>2 DEF Opens
    <2>. HIDE DEF cur
    <2>. QED
      BY <1>1, <2>1, LoadRuns
  <1>3. CASE cur.head = NoCell
    <2>1. Places(q, cur.branch, NoCell, NewRuntime(cur.hash), 0)
      BY <1>3 DEF Opens
    <2>2. LogInv(log) /\ BasisInv(log) /\ OwnInv
      BY DEF Ready, SessionInv, RunInv, TreeInv
    <2>3. cur.hash = loadActiveRuntime(log, cur.branch, cur.head)
      BY DEF LoadSessionState, StateAt
    <2>4. cur.hash \in Hashes
      <3>. DEFINE at == {i \in OnBranch(log, "RuntimeTransitioned", cur.branch) : log[i].cell = NoCell}
      <3>1. cur.hash = LatestHash(log, at)
        BY <1>3, <2>3 DEF loadActiveRuntime
      <3>2. at \subseteq OfType(log, "RuntimeTransitioned") /\ log \in Seq(Facts)
        BY <2>2 DEF OnBranch, LogInv
      <3>3. at = {} \/ Max(at) \in at
        <4>1. at \in SUBSET DOMAIN log
          BY <3>2 DEF OfType
        <4>2. IsFiniteSet(at) /\ at \in SUBSET Nat
          BY <3>2, <4>1, Positions
        <4>. QED
          BY <4>2, FiniteMaxProperties
      <3>4. \A i \in OfType(log, "RuntimeTransitioned") : log[i].hash \in Hashes
        <4>1. \A i \in OfType(log, "RuntimeTransitioned") :
                 log[i] \in Facts /\ log[i].type = "RuntimeTransitioned"
          BY <3>2, Positions DEF OfType
        <4>. QED
          BY <4>1 DEF Facts
      <3>5. AttachedHash(log) \in Hashes
        <4>1. OfType(log, "RuntimeAttached") # {} /\ OfType(log, "RuntimeAttached") \in SUBSET Nat
          BY <2>2, <3>2, Positions DEF BasisInv
        <4>2. Min(OfType(log, "RuntimeAttached")) \in OfType(log, "RuntimeAttached")
          BY <4>1, MinProperties
        <4>3. \A i \in OfType(log, "RuntimeAttached") :
                 log[i] \in Facts /\ log[i].type = "RuntimeAttached"
          BY <3>2, Positions DEF OfType
        <4>4. \A i \in OfType(log, "RuntimeAttached") : log[i].hash \in Hashes
          BY <4>3 DEF Facts
        <4>. QED
          BY <4>2, <4>4 DEF AttachedHash
      <3>. HIDE DEF at, cur
      <3>. QED
        BY <3>1, <3>2, <3>3, <3>4, <3>5 DEF LatestHash
    <2>5. Single => cur.hash = Config(log, NoCell)
      <3>. SUFFICES ASSUME Single PROVE cur.hash = Config(log, NoCell)
        OBVIOUS
      <3>1. Place(log, CursorOf(log)[1], CursorOf(log)[2])
        BY DEF Ready, RunInv
      <3>. HIDE DEF cur
      <3>2. Place(log, cur.branch, NoCell)
        BY <1>1, <1>3, <3>1
      <3>3. Commits(log, cur.branch) = Own(log, cur.branch)
        <4>1. cur.branch \in Nat
          BY <3>2 DEF Place
        <4>2. \A s \in Handles : ~Moving(s, cur.branch)
          BY DEF Turn, Moving
        <4>. QED
          BY <2>2, <4>1, <4>2 DEF OwnInv
      <3>. QED
        BY <1>3, <2>2, <2>3, <3>2, <3>3, CursorConfig
    <2>. HIDE DEF cur
    <2>6. NoCell \in Known(log) /\ Lineage(log, NoCell) = <<>>
      BY EmptyLineage DEF Known
    <2>7. cur.hash \in Names
      BY <2>4 DEF Names
    <2>8. At(log, NoCell, NewRuntime(cur.hash))
      <3>1. HasRun(NewRuntime(cur.hash), <<>>)
        BY <2>7, NewHasRun
      <3>2. Single => NewRuntime(cur.hash) = Base(log, NoCell)
        BY <2>5 DEF Base
      <3>. QED
        BY <2>6, <3>1, <3>2 DEF At
    <2>9. /\ q.open /\ q.pc = "idle" /\ q.branch = cur.branch /\ q.head = NoCell
          /\ q.hash = cur.hash /\ q.index = 0 /\ q.dirty = FALSE /\ q.rt = NewRuntime(cur.hash)
      BY <2>1 DEF Places, NewRuntime
    <2>10. /\ q.index = Len(Lineage(log, q.head)) /\ At(log, q.head, q.rt) /\ q.head \in Known(log)
           /\ q.hash \in Names /\ (Single => q.hash = Config(log, q.head))
      BY <2>5, <2>6, <2>7, <2>8, <2>9
    <2>. HIDE DEF Single, At, Fails, Known, Lineage, Config, Names, Running, NewRuntime
    <2>11. HandleRuns(log, q)
      BY <2>9, <2>10 DEF HandleRuns
    <2>. QED
      BY <1>1, <1>3, <2>9, <2>11
  <1>. QED
    BY <1>2, <1>3

\* Where a transition is made, with one handle: not on a fresh fork.
LEMMA TransitPlace ==
    ASSUME Ready, Single, NEW s \in Handles, st[s].open,
           OwnBoundary(st[s].branch) \/ TransitionOnFork
    PROVE  Place(log, st[s].branch, st[s].head) /\ ~Headless(log, st[s].branch, st[s].head)
  <1>1. CursorOf(log) = <<st[s].branch, st[s].head>>
    BY DEF Ready, RunInv
  <1>2. Place(log, CursorOf(log)[1], CursorOf(log)[2])
    BY DEF Ready, RunInv
  <1>3. OwnBoundary(st[s].branch)
    BY DEF Single
  <1>. QED
    BY <1>1, <1>2, <1>3 DEF OwnBoundary, Headless

\* A handle that changes its configuration, or has only been rebuilt for it.
LEMMA TransitRuns ==
    ASSUME Ready, NEW s \in Handles, NEW q, TransitsTo(s, q)
    PROVE  /\ HandleRuns(log', q)
           /\ \/ log' = log
              \/ \E f : /\ Grown(log, f) /\ log' = Append(log, f) /\ f.type = "RuntimeTransitioned"
                        /\ f.branch = st[s].branch /\ f.cell = st[s].head
                        /\ Single => InForce(log', st[s].head) =
                                        InForce(log, st[s].head) \cup {Len(log) + 1}
  <1>. DEFINE r == st[s]
              rt == IF r.dirty THEN Rebuilt(log, s) ELSE r.rt
              hash == IF r.dirty THEN rt.hash ELSE r.hash
  <1>1. /\ Turn /\ r.open /\ Writable(s) /\ (r.dirty => Rebuildable(log, s))
        /\ OwnBoundary(r.branch) \/ TransitionOnFork
        /\ Keeps(r, q) /\ q.pc = "idle"
        /\ \/ log' = log /\ q.dirty = FALSE /\ q.rt = rt /\ q.hash = hash
           \/ log' = log /\ q.dirty = TRUE /\ q.hash = hash
           \/ \E h \in Hashes :
                 /\ log' = Append(log, RuntimeTransitioned(r.branch, r.head, h))
                 /\ q.dirty = FALSE /\ q.hash = h
                 /\ q.rt = ApplyTransition(log, rt, h, r.index)
    BY DEF TransitsTo
  <1>2. /\ LogInv(log) /\ BasisInv(log) /\ HandleRuns(log, r) /\ HandleInv(log, r)
        /\ (Single => GoodHash(log)) /\ r.branch \in Nat /\ r.head \in Nat
    BY ReadyParts
  <1>3. r.pc = "idle"
    BY <1>1 DEF Turn
  <1>4. /\ At(log, r.head, Rebuilt(log, s)) /\ Rebuilt(log, s).hash \in Names
        /\ Single => Rebuilt(log, s).hash = Config(log, r.head)
        /\ Rebuildable(log, s) => ~Fails(log, r.head)
    BY <1>1, <1>2, RebuiltAt
  <1>5. /\ r.head \in Known(log) /\ r.hash \in Names /\ r.dirty \in BOOLEAN
        /\ Single => r.hash = Config(log, r.head)
        /\ r.index = Len(Lineage(log, r.head)) \/ (r.dirty /\ Fails(log, r.head))
        /\ ~r.dirty => At(log, r.head, r.rt)
    BY <1>1, <1>2, <1>3 DEF HandleRuns
  <1>6. /\ r.index = Len(Lineage(log, r.head)) /\ At(log, r.head, rt) /\ hash \in Names
        /\ Single => hash = Config(log, r.head)
    BY <1>1, <1>4, <1>5
  <1>7. q.open /\ q.head = r.head /\ q.index = r.index
    BY <1>1 DEF Keeps
  <1>8. CASE log' = log /\ q.dirty = FALSE /\ q.rt = rt /\ q.hash = hash
    <2>. HIDE DEF Single, At, Fails, Known, Lineage, Config, Names, Running, rt, hash
    <2>1. HandleRuns(log, q)
      BY <1>1, <1>5, <1>6, <1>7, <1>8 DEF HandleRuns
    <2>. QED
      BY <1>8, <2>1
  <1>9. CASE log' = log /\ q.dirty = TRUE /\ q.hash = hash
    <2>. HIDE DEF Single, At, Fails, Known, Lineage, Config, Names, Running, rt, hash
    <2>1. HandleRuns(log, q)
      BY <1>1, <1>5, <1>6, <1>7, <1>9 DEF HandleRuns
    <2>. QED
      BY <1>9, <2>1
  <1>10. ASSUME NEW h \in Hashes,
                log' = Append(log, RuntimeTransitioned(r.branch, r.head, h)),
                q.dirty = FALSE, q.hash = h, q.rt = ApplyTransition(log, rt, h, r.index)
         PROVE  HandleRuns(log', q) /\ \E f :
                   /\ Grown(log, f) /\ log' = Append(log, f) /\ f.type = "RuntimeTransitioned"
                   /\ f.branch = r.branch /\ f.cell = r.head
                   /\ Single => InForce(log', r.head) = InForce(log, r.head) \cup {Len(log) + 1}
    <2>. DEFINE f == RuntimeTransitioned(r.branch, r.head, h)
    <2>1. /\ f.type = "RuntimeTransitioned" /\ f.branch = r.branch /\ f.cell = r.head
          /\ f.hash = h /\ log' = Append(log, f)
      BY <1>10 DEF RuntimeTransitioned
    <2>. HIDE DEF f
    <2>2. Created(log, r.branch) /\ LoadHead(log, r.branch) \in {NoCell, r.head}
      BY <1>1, <1>2 DEF HandleInv, AtHead, Writable
    <2>3. Grown(log, f)
      BY <1>5, <2>1, <2>2, GrowsBy
    <2>4. Single => InForce(log', r.head) = InForce(log, r.head) \cup {Len(log) + 1}
      <3>. SUFFICES ASSUME Single
                    PROVE  InForce(log', r.head) = InForce(log, r.head) \cup {Len(log) + 1}
        OBVIOUS
      <3>1. Place(log, r.branch, r.head) /\ ~Headless(log, r.branch, r.head)
        BY <1>1, TransitPlace
      <3>. QED
        BY <2>1, <2>3, <3>1, TransitInForce
    <2>5. /\ Lineage(log', r.head) = Lineage(log, r.head) /\ Lineage(log, r.head) \in Steps
          /\ r.head \in Known(log')
      BY <1>2, <1>5, <2>1, <2>3, LineageStays, BaseHasRun, KnownGrows
    <2>6. HasRun(rt, Lineage(log, r.head)) /\ (Single => rt = Base(log, r.head))
      BY <1>6 DEF At
    <2>. HIDE DEF rt, hash, Lineage
    <2>7. r.index \in Nat
      BY <1>6, <2>5 DEF Steps
    <2>8. SameSources(log, log, Lineage(log, r.head))
      BY DEF SameSources
    <2>9. HasRun(q.rt, Lineage(log, r.head))
      BY <1>10, <2>5, <2>6, <2>7, <2>8, TransitHasRun
    <2>10. Single => Config(log', r.head) = h /\ q.rt = Base(log', r.head)
      <3>. SUFFICES ASSUME Single PROVE Config(log', r.head) = h /\ q.rt = Base(log', r.head)
        OBVIOUS
      <3>1. InForce(Append(log, f), f.cell) = InForce(log, f.cell) \cup {Len(log) + 1}
        BY <2>1, <2>4
      <3>2. /\ Config(Append(log, f), f.cell) = f.hash
            /\ Base(Append(log, f), f.cell) =
                  ApplyTransition(log, Base(log, f.cell), f.hash, Len(Lineage(log, f.cell)))
        BY <2>1, <2>3, <3>1, TransitBase
      <3>. QED
        BY <1>6, <1>10, <2>1, <2>6, <3>2
    <2>11. At(log', r.head, q.rt)
      BY <2>5, <2>9, <2>10 DEF At
    <2>12. h \in Names
      BY DEF Names
    <2>. HIDE DEF Single, At, Fails, Known, Config, Names, Running
    <2>13. HandleRuns(log', q)
      BY <1>1, <1>6, <1>7, <1>10, <2>5, <2>10, <2>11, <2>12 DEF HandleRuns
    <2>. QED
      BY <2>1, <2>3, <2>4, <2>13
  <1>. HIDE DEF rt, hash
  <1>. QED
    BY <1>1, <1>8, <1>9, <1>10

\* The head moves to a cell that was no head.
LEMMA MoveGrows ==
    ASSUME Ready, NEW s \in Handles, NEW q, st' = [st EXCEPT ![s] = q], MovesHead(s, q)
    PROVE  LET r == st[s]
               f == HeadMoved(r.branch, r.head, r.cell)
           IN  /\ Grown(log, f) /\ log' = Append(log, f) /\ MoveStep(s) /\ r.open
               /\ r.cell \notin Known(log) /\ r.cell \in 1..MaxCells /\ r.head \in Known(log)
               /\ f.type = "HeadMoved" /\ f.branch = r.branch /\ f.cell = r.cell
  <1>. DEFINE r == st[s]
              f == HeadMoved(r.branch, r.head, r.cell)
  <1>1. /\ f.type = "HeadMoved" /\ f.branch = r.branch /\ f.cell = r.cell
    BY DEF HeadMoved
  <1>2. log' = Append(log, f) /\ r.pc = "move" /\ q.pc = "idle"
    BY DEF MovesHead
  <1>. HIDE DEF f
  <1>3. Grown(log, f)
    BY <1>1, <1>2, GrowsBy
  <1>4. MoveStep(s)
    BY <1>2 DEF MoveStep, f
  <1>5. HandleInv(log, r) /\ HandleRuns(log, r) /\ CellCount(log) \in Nat /\ r.cell \in Nat
    BY ReadyParts
  <1>6. r.open /\ r.cell \in 1..CellCount(log)
    BY <1>2, <1>5 DEF HandleInv
  <1>7. r.head \in Known(log)
    BY <1>5, <1>6 DEF HandleRuns
  <1>8. CellCount(log) <= MaxCells /\ MaxCells \in Nat
    BY SessionAssumption DEF Ready, TreeInv
  <1>9. OfCell(log, "HeadMoved", r.cell) = {}
    BY <1>2 DEF Ready, CellOrderInv
  <1>10. r.cell \notin MovedCells(log) /\ r.cell # NoCell
    BY <1>6, <1>9 DEF MovedCells, OfCell, NoCell
  <1>11. r.cell \notin Known(log)
    BY <1>10 DEF Known
  <1>12. r.cell \in 1..MaxCells
    BY <1>5, <1>6, <1>8
  <1>. QED
    BY <1>1, <1>2, <1>3, <1>4, <1>6, <1>7, <1>11, <1>12 DEF f

\* With one handle, the history of the new head is that of the old one and the cell.
LEMMA MoveReplay ==
    ASSUME Ready, Single, NEW s \in Handles, NEW q, st' = [st EXCEPT ![s] = q], MovesHead(s, q)
    PROVE  LET h == st[s].head
               c == st[s].cell
           IN  /\ Base(log', c) = Answered(Base(log, h), c, Len(Lineage(log, h)) + 1)
               /\ Config(log', c) = Config(log, h) /\ Base(log, h).hash = Config(log, h)
               /\ CursorOf(log') = <<st[s].branch, c>> /\ Place(log', st[s].branch, c)
  <1>. DEFINE r == st[s]
              f == HeadMoved(r.branch, r.head, r.cell)
  <1>1. /\ Grown(log, f) /\ log' = Append(log, f) /\ MoveStep(s) /\ r.open
        /\ r.cell \notin Known(log) /\ r.head \in Known(log)
        /\ f.type = "HeadMoved" /\ f.branch = r.branch /\ f.cell = r.cell
    BY MoveGrows
  <1>2. SessionInv /\ SessionInv' /\ OwnInv /\ BasisInv(log) /\ Bases(log, born)
        /\ Place(log, CursorOf(log)[1], CursorOf(log)[2]) /\ CursorOf(log) = <<r.branch, r.head>>
    BY <1>1 DEF Ready, TreeInv, RunInv
  <1>3. Place(log, r.branch, r.head)
    BY <1>2
  <1>4. InForce(log', r.cell) = InForce(log, r.head)
    BY <1>1, <1>2, <1>3, MoveInForce
  <1>5. /\ Base(log', r.cell) = Answered(Base(log, r.head), r.cell, Len(Lineage(log, r.head)) + 1)
        /\ Config(log', r.cell) = Config(log, r.head)
    BY <1>1, <1>2, <1>4, MoveBase
  <1>6. Base(log, r.head).hash = Config(log, r.head)
    BY <1>1, <1>2 DEF Bases, GoodHash
  <1>. HIDE DEF f
  <1>7. CursorOf(log') = <<ActiveBranch(log', f), f.cell>>
    BY <1>1, KnownGrows, CursorMoves
  <1>8. ActiveBranch(log', f) = r.branch
    BY <1>1 DEF ActiveBranch
  <1>9. Place(log', r.branch, r.cell)
    <2>1. r.cell \in MovedCells(log') /\ r.branch \in Nat
      BY <1>1, KnownSame, KnownGrows, ReadyParts
    <2>2. branchForCell(log', r.cell) = r.branch
      BY <1>1, <1>2, MoveLineage
    <2>3. CommittedOn(log', branchForCell(log', r.cell), r.cell)
      BY <2>1, ReadyParts, MovedPlace
    <2>. QED
      BY <2>1, <2>2, <2>3 DEF Place
  <1>. QED
    BY <1>1, <1>5, <1>6, <1>7, <1>8, <1>9

\* The handle has moved to the cell it has run.
LEMMA MoveRuns ==
    ASSUME Ready, NEW s \in Handles, NEW q, st' = [st EXCEPT ![s] = q], MovesHead(s, q)
    PROVE  HandleRuns(log', q)
  <1>. DEFINE r == st[s]
              h == st[s].head
              c == st[s].cell
              f == HeadMoved(r.branch, h, c)
  <1>1. /\ Grown(log, f) /\ log' = Append(log, f) /\ MoveStep(s) /\ r.open
        /\ c \notin Known(log) /\ h \in Known(log)
        /\ f.type = "HeadMoved" /\ f.cell = c
    BY MoveGrows
  <1>. HIDE DEF f
  <1>2. /\ r.pc = "move" /\ q.open = r.open /\ q.branch = r.branch /\ q.head = c /\ q.pc = "idle"
        /\ q.hash = IF Fresh THEN Running(r).hash ELSE r.hash
        /\ Sealed(log, Running(r)) => q.dirty = TRUE /\ q.index = r.index
        /\ ~Sealed(log, Running(r)) =>
              /\ q.dirty = FALSE /\ q.index = r.index + 1
              /\ q.rt = SetIndexedResult(Running(r), r.index + 1, c)
    BY DEF MovesHead
  <1>3. SessionInv /\ SessionInv' /\ OwnInv /\ HandleRuns(log, r) /\ LogInv(log) /\ BasisInv(log)
    BY ReadyParts DEF Ready
  <1>4. /\ h \in Known(log) /\ r.hash \in Names /\ (Single => r.hash = Config(log, h))
        /\ r.index = Len(Lineage(log, h))
        /\ \E rt : At(log, h, rt) /\ Running(r) = RunCell(rt, c)
    BY <1>1, <1>2, <1>3 DEF HandleRuns
  <1>5. PICK rt : At(log, h, rt) /\ Running(r) = RunCell(rt, c)
    BY <1>4
  <1>6. HasRun(rt, Lineage(log, h)) /\ (Single => rt = Base(log, h))
    BY <1>5 DEF At
  <1>7. Lineage(log, h) \in Steps /\ c \in Nat /\ Lineage(log', c) = Append(Lineage(log, h), c)
    BY <1>1, <1>3, MoveLineage, BaseHasRun, ReadyParts
  <1>8. c \in Known(log')
    BY <1>1, KnownSame, KnownGrows
  <1>9. /\ Single => Config(log', c) = Config(log, h) /\ Base(log, h).hash = Config(log, h)
        /\ Single => Base(log', c) = Answered(Base(log, h), c, Len(Lineage(log, h)) + 1)
    BY MoveReplay
  <1>. DEFINE new == SetIndexedResult(RunCell(rt, c), Len(Lineage(log, h)) + 1, c)
  <1>10. HasRun(new, Append(Lineage(log, h), c)) /\ RunCell(rt, c).hash = rt.hash
    BY <1>6, <1>7, CellHasRun
  <1>11. rt.hash \in Names
    BY <1>6 DEF HasRun
  <1>12. q.hash \in Names /\ (Single => q.hash = Config(log', c))
    BY <1>2, <1>4, <1>5, <1>6, <1>9, <1>10, <1>11
  <1>13. CASE Sealed(log, Running(r))
    <2>1. Sealed(log, RunCell(rt, c))
      BY <1>5, <1>13
    <2>2. Fails(log', c)
      BY <1>1, <1>3, <1>6, <2>1, SealedFails DEF f
    <2>. HIDE DEF Single, At, Fails, Known, Lineage, Config, Names, Running, RunCell
    <2>. QED
      BY <1>1, <1>2, <1>8, <1>12, <1>13, <2>2 DEF HandleRuns
  <1>14. CASE ~Sealed(log, Running(r))
    <2>1. q.rt = new
      BY <1>2, <1>4, <1>5, <1>14
    <2>2. HasRun(q.rt, Lineage(log', c))
      BY <1>7, <1>10, <2>1
    <2>3. Single => q.rt = Base(log', c)
      BY <1>6, <1>9, <2>1 DEF Answered
    <2>4. At(log', c, q.rt)
      BY <2>2, <2>3 DEF At
    <2>5. q.index = Len(Lineage(log', c))
      BY <1>2, <1>4, <1>7, <1>14 DEF Steps
    <2>. HIDE DEF Single, At, Fails, Known, Lineage, Config, Names, Running, RunCell
    <2>. QED
      BY <1>1, <1>2, <1>8, <1>12, <1>14, <2>4, <2>5 DEF HandleRuns
  <1>. QED
    BY <1>13, <1>14

\* The runtime of every head is still what replay builds, and the new head has its own.
LEMMA MoveBases ==
    ASSUME Ready, Single, NEW s \in Handles, NEW q, st' = [st EXCEPT ![s] = q], MovesHead(s, q)
    PROVE  Bases(log', born')
  <1>. DEFINE r == st[s]
              h == st[s].head
              c == st[s].cell
              f == HeadMoved(r.branch, h, c)
  <1>1. /\ Grown(log, f) /\ log' = Append(log, f) /\ c \notin Known(log) /\ h \in Known(log)
        /\ f.type = "HeadMoved" /\ f.cell = c /\ r.open /\ c \in 1..MaxCells
    BY MoveGrows
  <1>. HIDE DEF f
  <1>2. r.pc = "move" /\ born' = [born EXCEPT ![c] = Running(r).ran]
    BY DEF MovesHead
  <1>3. GoodHash(log) /\ \A d \in MovedCells(log) : born[d] = Base(log, d).ran
    BY DEF Ready, RunInv, Bases
  <1>4. born = [d \in 1..MaxCells |-> born[d]]
    BY DEF Ready, RunInv
  <1>5. /\ Base(log', c) = Answered(Base(log, h), c, Len(Lineage(log, h)) + 1)
        /\ Config(log', c) = Config(log, h) /\ Base(log, h).hash = Config(log, h)
    BY MoveReplay
  <1>6. HandleRuns(log, r) /\ LogInv(log) /\ BasisInv(log) /\ c \in Nat
    BY ReadyParts
  <1>7. \E rt : At(log, h, rt) /\ Running(r) = RunCell(rt, c)
    BY <1>1, <1>2, <1>6 DEF HandleRuns
  <1>8. Running(r) = RunCell(Base(log, h), c)
    BY <1>7 DEF At
  <1>9. HasRun(Base(log, h), Lineage(log, h)) /\ Lineage(log, h) \in Steps
    BY <1>1, <1>6, BaseHasRun
  <1>10. Base(log', c).hash = Config(log', c) /\ Base(log', c).ran = Running(r).ran
    <2>. DEFINE base == Base(log, h)
                n == Len(Lineage(log, h)) + 1
                ran == RunCell(base, c)
                new == SetIndexedResult(ran, n, c)
    <2>1. new.hash = base.hash /\ new.ran = ran.ran
      <3>. HIDE DEF base
      <3>. QED
        BY <1>6, <1>9, CellHasRun DEF base
    <2>2. Base(log', c) = new /\ Running(r) = ran
      BY <1>5, <1>8 DEF Answered
    <2>. HIDE DEF new, ran
    <2>. QED
      BY <1>5, <2>1, <2>2
  <1>11. \A d \in Known(log) : /\ Base(log', d).hash = Config(log', d)
                               /\ Base(log', d) = Base(log, d)
    BY <1>1, <1>3, GoodStays
  <1>12. Known(log') = Known(log) \cup {c} /\ MovedCells(log') = MovedCells(log) \cup {c}
    BY <1>1, KnownSame, KnownGrows
  <1>13. MovedCells(log) \subseteq Known(log)
    BY DEF Known
  <1>14. born'[c] = Running(r).ran /\ \A d \in MovedCells(log) : born'[d] = born[d]
    <2>1. \A d \in MovedCells(log) : d # c
      BY <1>1, <1>13
    <2>2. \A d \in MovedCells(log) : d \in 1..MaxCells
      <3>1. \A d \in MovedCells(log) : d \in 1..CellCount(log) /\ CellCount(log) \in Nat
        BY <1>6, KnownCells DEF MovedCells
      <3>2. CellCount(log) <= MaxCells /\ MaxCells \in Nat
        BY SessionAssumption DEF Ready, TreeInv
      <3>. QED
        BY <3>1, <3>2
    <2>. HIDE DEF c
    <2>. QED
      BY <1>1, <1>2, <1>4, <2>1, <2>2
  <1>15. GoodHash(log')
    BY <1>10, <1>11, <1>12 DEF GoodHash
  <1>16. \A d \in MovedCells(log') : born'[d] = Base(log', d).ran
    BY <1>3, <1>10, <1>11, <1>12, <1>13, <1>14
  <1>. HIDE DEF GoodHash
  <1>. QED
    BY <1>15, <1>16 DEF Bases

-----------------------------------------------------------------------------
(* The invariant after a step that leaves a handle as q. *)
After(q) ==
    /\ HandleRuns(log', q) /\ BasisInv(log')
    /\ ~Single => \A r : HandleRuns(log, r) => HandleRuns(log', r)
    /\ Single => /\ Bases(log', born') /\ Place(log', CursorOf(log')[1], CursorOf(log')[2])
                 /\ q.open => CursorOf(log') = <<q.branch, q.head>>

\* Nothing is appended, and the handle stays where it is.
LEMMA SameAfter ==
    ASSUME Ready, NEW s \in Handles, NEW q, log' = log, born' = born, HandleRuns(log, q),
           Keeps(st[s], q)
    PROVE  After(q)
  <1>1. BasisInv(log) /\ (Single => Bases(log, born) /\ Place(log, CursorOf(log)[1], CursorOf(log)[2]))
    BY DEF Ready, RunInv
  <1>2. Single => (st[s].open => CursorOf(log) = <<st[s].branch, st[s].head>>)
    BY DEF Ready, RunInv
  <1>3. q.open = st[s].open /\ q.branch = st[s].branch /\ q.head = st[s].head
    BY DEF Keeps
  <1>. HIDE DEF HandleRuns, BasisInv, Single, Bases, Place
  <1>. QED
    BY <1>1, <1>2, <1>3 DEF After

\* A fact is appended that neither moves the cursor nor changes a configuration.
LEMMA QuietAfter ==
    ASSUME Ready, NEW s \in Handles, NEW q, born' = born, HandleRuns(log', q), Keeps(st[s], q),
           NEW f, Grown(log, f), log' = Append(log, f),
           f.type \notin {"HeadMoved", "RestoreCompleted", "RuntimeTransitioned"}
    PROVE  After(q)
  <1>1. Single => Bases(log, born) /\ Place(log, CursorOf(log)[1], CursorOf(log)[2])
    BY DEF Ready, RunInv
  <1>2. Single => (st[s].open => CursorOf(log) = <<st[s].branch, st[s].head>>)
    BY DEF Ready, RunInv
  <1>3. q.open = st[s].open /\ q.branch = st[s].branch /\ q.head = st[s].head
    BY DEF Keeps
  <1>4. BasisInv(log')
    BY BasisStep
  <1>5. \A r : HandleRuns(log, r) => HandleRuns(log', r)
    BY RunsStay
  <1>6. CursorOf(log') = CursorOf(log)
    BY KnownGrows, CursorStays DEF Grown
  <1>7. Single => Bases(log', born)
    BY <1>1, BasesSame
  <1>8. Single => Place(log', CursorOf(log)[1], CursorOf(log)[2])
    BY <1>1, PlaceStays
  <1>. HIDE DEF HandleRuns, BasisInv, Single, Bases, Place
  <1>. QED
    BY <1>2, <1>3, <1>4, <1>5, <1>6, <1>7, <1>8 DEF After

\* A transition: replay finds it at the head it was made at, and nowhere else.
LEMMA TransitAfter ==
    ASSUME Ready, NEW s \in Handles, NEW q, born' = born, TransitsTo(s, q)
    PROVE  After(q)
  <1>1. Keeps(st[s], q)
    BY DEF TransitsTo
  <1>2. HandleRuns(log', q)
    BY TransitRuns
  <1>3. CASE log' = log
    BY <1>1, <1>2, <1>3, SameAfter
  <1>4. ASSUME NEW f, Grown(log, f), log' = Append(log, f), f.type = "RuntimeTransitioned",
               f.branch = st[s].branch, f.cell = st[s].head,
               Single => InForce(log', st[s].head) =
                            InForce(log, st[s].head) \cup {Len(log) + 1}
        PROVE  After(q)
    <2>1. BasisInv(log')
      BY <1>4, BasisStep
    <2>2. ~Single => \A r : HandleRuns(log, r) => HandleRuns(log', r)
      BY <1>4, RunsStay
    <2>3. ASSUME Single
          PROVE  /\ Bases(log', born') /\ Place(log', CursorOf(log')[1], CursorOf(log')[2])
                 /\ q.open => CursorOf(log') = <<q.branch, q.head>>
      <3>. DEFINE h == st[s].head
      <3>1. /\ GoodHash(log) /\ \A d \in MovedCells(log) : born[d] = Base(log, d).ran
            /\ st[s].open => CursorOf(log) = <<st[s].branch, st[s].head>>
        BY <2>3 DEF Ready, RunInv, Bases
      <3>2. st[s].open /\ (OwnBoundary(st[s].branch) \/ TransitionOnFork)
        BY DEF TransitsTo
      <3>3. Place(log, st[s].branch, h) /\ ~Headless(log, st[s].branch, h)
        BY <2>3, <3>2, TransitPlace
      <3>4. Place(log', st[s].branch, h)
        BY <1>4, <3>3, PlaceStays
      <3>5. CursorOf(log') = CursorOf(log)
        BY <1>4, KnownGrows, CursorStays DEF Grown
      <3>6. Known(log') = Known(log) /\ MovedCells(log') = MovedCells(log)
        BY <1>4, KnownSame, KnownGrows
      <3>7. h \in Known(log) /\ HandleRuns(log, st[s]) /\ LogInv(log)
        BY <3>2, ReadyParts DEF HandleRuns
      <3>8. InForce(Append(log, f), f.cell) = InForce(log, f.cell) \cup {Len(log) + 1}
        BY <1>4, <2>3
      <3>9. /\ Config(log', h) = f.hash /\ Base(log', h).hash = f.hash
            /\ Base(log', h) = ApplyTransition(log, Base(log, h), f.hash, Len(Lineage(log, h)))
        BY <1>4, <3>8, TransitBase
      <3>10. Base(log', h).ran = Base(log, h).ran
        <4>1. HasRun(Base(log, h), Lineage(log, h)) /\ Lineage(log, h) \in Steps
          BY <3>7, ReadyParts, BaseHasRun
        <4>2. f.hash \in Hashes
          <5>1. f \in Facts
            BY <1>4, KnownGrows
          <5>. QED
            BY <1>4, <5>1 DEF Facts
        <4>3. SameSources(log, log, Lineage(log, h)) /\ Len(Lineage(log, h)) \in Nat
          BY <4>1 DEF SameSources, Steps
        <4>. DEFINE base == Base(log, h)
                    lin == Lineage(log, h)
        <4>4. ApplyTransition(log, base, f.hash, Len(lin)).ran = base.ran
          <5>. HIDE DEF base, lin
          <5>. QED
            BY <4>1, <4>2, <4>3, TransitHasRun DEF base, lin
        <4>. QED
          BY <3>9, <4>4
      <3>11. \A d \in Known(log) : d # h =>
                /\ Base(log', d) = Base(log, d) /\ Base(log', d).hash = Config(log', d)
        <4>1. ASSUME NEW d \in Known(log), d # h
              PROVE  Base(log', d) = Base(log, d) /\ Base(log', d).hash = Config(log', d)
          <5>1. InForce(log', d) = InForce(log, d)
            BY <1>4, <4>1, InForceStep
          <5>2. Base(log', d) = Base(log, d) /\ Config(log', d) = Config(log, d)
            BY <1>4, <5>1, BaseStays
          <5>. QED
            BY <3>1, <5>2 DEF GoodHash
        <4>. QED
          BY <4>1
      <3>12. GoodHash(log')
        BY <3>6, <3>9, <3>11 DEF GoodHash
      <3>13. \A d \in MovedCells(log') : born'[d] = Base(log', d).ran
        <4>1. MovedCells(log) \subseteq Known(log)
          BY DEF Known
        <4>. QED
          BY <3>1, <3>6, <3>10, <3>11, <4>1
      <3>14. Bases(log', born')
        <4>. HIDE DEF GoodHash
        <4>. QED
          BY <3>12, <3>13 DEF Bases
      <3>15. q.open = st[s].open /\ q.branch = st[s].branch /\ q.head = h
        BY <1>1 DEF Keeps
      <3>. HIDE DEF Bases, Place
      <3>. QED
        BY <3>1, <3>2, <3>4, <3>5, <3>14, <3>15
    <2>. HIDE DEF HandleRuns, BasisInv, Single, Bases, Place
    <2>. QED
      BY <1>2, <2>1, <2>2, <2>3 DEF After
  <1>. QED
    BY <1>3, <1>4, TransitRuns

\* The head moves.
LEMMA MoveAfter ==
    ASSUME Ready, NEW s \in Handles, NEW q, st' = [st EXCEPT ![s] = q], MovesHead(s, q)
    PROVE  After(q)
  <1>. DEFINE f == HeadMoved(st[s].branch, st[s].head, st[s].cell)
  <1>1. Grown(log, f) /\ log' = Append(log, f) /\ f.type = "HeadMoved"
    BY MoveGrows
  <1>. HIDE DEF f
  <1>2. BasisInv(log')
    BY <1>1, BasisStep
  <1>3. \A r : HandleRuns(log, r) => HandleRuns(log', r)
    BY <1>1, RunsStay
  <1>4. HandleRuns(log', q)
    BY MoveRuns
  <1>5. Single => /\ CursorOf(log') = <<st[s].branch, st[s].cell>>
                  /\ Place(log', st[s].branch, st[s].cell)
    BY MoveReplay
  <1>6. Single => Bases(log', born')
    BY MoveBases
  <1>7. q.branch = st[s].branch /\ q.head = st[s].cell
    BY DEF MovesHead
  <1>8. Single => Place(log', CursorOf(log')[1], CursorOf(log')[2])
    BY <1>5
  <1>. HIDE DEF HandleRuns, BasisInv, Single, Bases, Place
  <1>. QED
    BY <1>2, <1>3, <1>4, <1>5, <1>6, <1>7, <1>8 DEF After

\* A restore.
LEMMA RestoreAfter ==
    ASSUME Ready, NEW c \in MovedCells(log), NEW q, born' = born,
           Loads(q, branchForCell(log, c), c), log' = Append(log, RestoreCompleted(c, NoBranch))
    PROVE  After(q)
  <1>. DEFINE f == RestoreCompleted(c, NoBranch)
  <1>1. f.type = "RestoreCompleted"
    BY DEF RestoreCompleted
  <1>2. log' = Append(log, f)
    OBVIOUS
  <1>. HIDE DEF f
  <1>3. Grown(log, f)
    BY <1>1, <1>2, GrowsBy
  <1>4. HandleRuns(log, q) /\ q.branch = branchForCell(log, c) /\ q.head = c
    BY LoadRuns
  <1>5. BasisInv(log')
    BY <1>2, <1>3, BasisStep
  <1>6. \A r : HandleRuns(log, r) => HandleRuns(log', r)
    BY <1>1, <1>2, <1>3, RunsStay
  <1>7. CursorOf(log') = <<branchForCell(log, c), c>> /\ Place(log', branchForCell(log, c), c)
    BY <1>2, <1>3, RestorePlace DEF f
  <1>8. Place(log', CursorOf(log')[1], CursorOf(log')[2])
    BY <1>7
  <1>9. Single => Bases(log, born)
    BY DEF Ready, RunInv
  <1>10. Single => Bases(log', born')
    BY <1>1, <1>2, <1>3, <1>9, BasesSame
  <1>. HIDE DEF HandleRuns, BasisInv, Single, Bases, Place
  <1>. QED
    BY <1>4, <1>5, <1>6, <1>7, <1>8, <1>10 DEF After

\* A fork, with its two facts.
LEMMA ForkAfter ==
    ASSUME Ready, NEW c \in MovedCells(log), NEW q, born' = born, Loads(q, NextBranch, c),
           log' = Append(Append(log, BranchCreated(NextBranch, c)),
                         RestoreCompleted(c, NextBranch))
    PROVE  After(q)
  <1>. DEFINE b == NextBranch
              f == BranchCreated(b, c)
              k == Append(log, f)
              g == RestoreCompleted(c, b)
  <1>1. LogInv(log) /\ LogInv(log') /\ BasisInv(log) /\ OrderInv(log)
    BY DEF Ready, SessionInv, RunInv, CellOrderInv
  <1>2. f \in Facts /\ g \in Facts /\ LogInv(k) /\ log' = Append(k, g)
    BY <1>1, ForkFacts
  <1>3. f.type = "BranchCreated" /\ g.type = "RestoreCompleted"
    BY DEF BranchCreated, RestoreCompleted
  <1>4. b \in Nat /\ ~Created(log, b)
    BY <1>1, ForkLine
  <1>5. HandleRuns(log, q) /\ q.branch = b /\ q.head = c
    BY LoadRuns
  <1>6. b # NoBranch
    <2>1. BranchCount(log) \in Nat
      BY <1>1, Positions DEF LogInv, BranchCount
    <2>. QED
      BY <2>1 DEF NextBranch, BranchCount, NoBranch, RootBranch
  <1>7. CursorOf(log') = <<b, c>> /\ Place(log', b, c)
    BY <1>1, <1>2, <1>4, <1>6, ForkPlace
  <1>. HIDE DEF b, f, g, OrderInv
  <1>8. Grown(log, f)
    BY <1>1, <1>2, <1>3 DEF Grown
  <1>9. BasisInv(k)
    BY <1>8, BasisStep
  <1>10. OrderInv(k)
    BY <1>1, <1>2, <1>3, OtherOrder DEF LogInv
  <1>. HIDE DEF k
  <1>11. Grown(k, g)
    BY <1>1, <1>2, <1>3, <1>9, <1>10 DEF Grown
  <1>12. BasisInv(log')
    BY <1>2, <1>11, BasisStep
  <1>13. \A r : HandleRuns(log, r) => HandleRuns(log', r)
    <2>1. \A r : HandleRuns(log, r) => HandleRuns(k, r)
      BY <1>3, <1>8, RunsStay DEF k
    <2>2. \A r : HandleRuns(k, r) => HandleRuns(log', r)
      BY <1>2, <1>3, <1>11, RunsStay
    <2>. QED
      BY <2>1, <2>2
  <1>14. Single => Bases(log, born)
    BY DEF Ready, RunInv
  <1>15. Single => Bases(k, born)
    BY <1>3, <1>8, <1>14, BasesSame DEF k
  <1>16. Single => Bases(log', born')
    BY <1>2, <1>3, <1>11, <1>15, BasesSame
  <1>17. Place(log', CursorOf(log')[1], CursorOf(log')[2])
    BY <1>7
  <1>. HIDE DEF HandleRuns, BasisInv, Single, Bases, Place
  <1>. QED
    BY <1>5, <1>7, <1>12, <1>13, <1>16, <1>17 DEF After

\* The same invariant, one step later.
LEMMA RunPrime ==
    ASSUME mode' = mode, BasisInv(log'), born' = [c \in 1..MaxCells |-> born'[c]],
           \A s \in Handles : HandleRuns(log', st'[s]),
           Single => /\ Bases(log', born') /\ Place(log', CursorOf(log')[1], CursorOf(log')[2])
                     /\ \A s \in Handles :
                           st'[s].open => CursorOf(log') = <<st'[s].branch, st'[s].head>>
    PROVE  RunInv'
  <1>1. ASSUME NEW s \in Handles
        PROVE  HandleRuns(log, st[s])'
    <2>1. HandleRuns(log', st'[s])
      BY <1>1
    <2>2. Running(st[s])' = Running(st'[s]) /\ Fresh' = Fresh
      BY DEF Running, Fresh
    <2>. QED
      BY <2>1, <2>2 DEF HandleRuns
  <1>. QED
    BY <1>1 DEF RunInv

\* Nothing happens to the handles.
LEMMA WaitsRun ==
    ASSUME Ready, mode' = mode, Waits
    PROVE  RunInv'
  <1>1. /\ BasisInv(log) /\ born = [c \in 1..MaxCells |-> born[c]]
        /\ \A s \in Handles : HandleRuns(log, st[s])
        /\ Single => /\ Bases(log, born) /\ Place(log, CursorOf(log)[1], CursorOf(log)[2])
                     /\ \A s \in Handles :
                           st[s].open => CursorOf(log) = <<st[s].branch, st[s].head>>
    BY DEF Ready, RunInv
  <1>2. st' = st /\ born' = born
    BY DEF Waits
  <1>3. CASE log' = log
    <2>. HIDE DEF HandleRuns, BasisInv, Single, Bases, Place, CursorOf
    <2>. QED
      BY <1>1, <1>2, <1>3, RunPrime
  <1>4. ASSUME NEW f, Grown(log, f), log' = Append(log, f),
               f.type \in {"CellChecked", "BranchCreated"}
        PROVE  RunInv'
    <2>1. BasisInv(log') /\ \A r : HandleRuns(log, r) => HandleRuns(log', r)
      BY <1>4, BasisStep, RunsStay
    <2>2. CursorOf(log') = CursorOf(log)
      BY <1>4, KnownGrows, CursorStays DEF Grown
    <2>3. Single => Bases(log', born) /\ Place(log', CursorOf(log)[1], CursorOf(log)[2])
      BY <1>1, <1>4, BasesSame, PlaceStays
    <2>. HIDE DEF HandleRuns, BasisInv, Single, Bases, Place, CursorOf
    <2>. QED
      BY <1>1, <1>2, <2>1, <2>2, <2>3, RunPrime
  <1>5. ASSUME NEW b \in Nat, NEW k \in Kinds,
               log' = Append(log, CellChecked(b, CellCount(log) + 1, k))
        PROVE  RunInv'
    <2>. DEFINE f == CellChecked(b, CellCount(log) + 1, k)
    <2>1. f.type = "CellChecked" /\ f.cell = CellCount(log) + 1
      BY DEF CellChecked
    <2>. HIDE DEF f
    <2>2. Grown(log, f) /\ log' = Append(log, f)
      BY <1>5, <2>1, GrowsBy DEF f
    <2>. QED
      BY <1>4, <2>1, <2>2
  <1>6. ASSUME NEW c, log' = Append(log, BranchCreated(NextBranch, c))
        PROVE  RunInv'
    <2>. DEFINE f == BranchCreated(NextBranch, c)
    <2>1. f.type = "BranchCreated"
      BY DEF BranchCreated
    <2>. HIDE DEF f
    <2>2. Grown(log, f) /\ log' = Append(log, f)
      BY <1>6, <2>1, GrowsBy DEF f
    <2>. QED
      BY <1>4, <2>1, <2>2
  <1>. QED
    BY <1>3, <1>5, <1>6 DEF Waits

\* A handle does a step.
LEMMA HandleAfter ==
    ASSUME Ready, NEW s \in Handles, NEW q, st' = [st EXCEPT ![s] = q], HandleNext(s, q)
    PROVE  After(q) /\ born' = [c \in 1..MaxCells |-> born'[c]]
  <1>1. born = [c \in 1..MaxCells |-> born[c]]
    BY DEF Ready, RunInv
  <1>2. CASE MovesHead(s, q)
    <2>1. born' = [born EXCEPT ![st[s].cell] = Running(st[s]).ran]
      BY <1>2 DEF MovesHead
    <2>. QED
      BY <1>1, <1>2, <2>1, MoveAfter
  <1>3. CASE born' = born /\ Checks(s, q)
    BY <1>1, <1>3, CheckRuns, QuietAfter DEF Checks
  <1>4. CASE born' = born /\ Evaluates(s, q)
    BY <1>1, <1>4, EvalRuns, QuietAfter DEF Evaluates
  <1>5. CASE born' = born /\ FailsCell(s, q)
    <2>1. Keeps(st[s], q)
      BY <1>5 DEF FailsCell
    <2>2. HandleRuns(log', q)
      BY <1>5, FailRuns
    <2>3. CASE log' = log
      BY <1>1, <1>5, <2>1, <2>2, <2>3, SameAfter
    <2>4. CASE \E f : Grown(log, f) /\ log' = Append(log, f) /\ f.type = "CellFailed"
      BY <1>1, <1>5, <2>1, <2>2, <2>4, QuietAfter
    <2>. QED
      BY <1>5, <2>3, <2>4, FailRuns
  <1>6. CASE born' = born /\ CommitsCell(s, q)
    BY <1>1, <1>6, CommitRuns, QuietAfter DEF CommitsCell
  <1>7. CASE born' = born /\ TransitsTo(s, q)
    BY <1>1, <1>7, TransitAfter
  <1>8. ASSUME born' = born, NEW c \in MovedCells(log),
               \/ /\ Loads(q, branchForCell(log, c), c)
                  /\ log' = Append(log, RestoreCompleted(c, NoBranch))
               \/ /\ Loads(q, NextBranch, c)
                  /\ log' = Append(Append(log, BranchCreated(NextBranch, c)),
                                   RestoreCompleted(c, NextBranch))
        PROVE  After(q)
    BY <1>8, RestoreAfter, ForkAfter
  <1>9. ASSUME log' = log, born' = born, HandleRuns(log, q),
               q.open => CursorOf(log) = <<q.branch, q.head>>
        PROVE  After(q)
    <2>1. BasisInv(log) /\ (Single => Bases(log, born) /\ Place(log, CursorOf(log)[1], CursorOf(log)[2]))
      BY DEF Ready, RunInv
    <2>. HIDE DEF HandleRuns, BasisInv, Single, Bases, Place, CursorOf
    <2>. QED
      BY <1>9, <2>1 DEF After
  <1>10. CASE born' = born /\ Turn /\ log' = log /\ Opens(q)
    BY <1>1, <1>9, <1>10, OpenRuns
  <1>11. CASE born' = born /\ log' = log /\ ~q.open /\ q.dirty = FALSE
    <2>1. HandleRuns(log, q)
      BY <1>11 DEF HandleRuns
    <2>. QED
      BY <1>1, <1>9, <1>11, <2>1
  <1>. QED
    BY <1>1, <1>2, <1>3, <1>4, <1>5, <1>6, <1>7, <1>8, <1>10, <1>11 DEF HandleNext

\* The invariant is kept by every step.
LEMMA RunInvStep ==
    ASSUME "HeadMoved" \notin AppendFaults, Ready, [Next]_vars
    PROVE  RunInv'
  <1>1. \A s \in Handles : HandleRuns(log, st[s])
    BY DEF Ready, RunInv
  <1>2. \A s \in Handles : st[s].dirty \in BOOLEAN
    BY <1>1 DEF HandleRuns
  <1>3. SessionInv
    BY DEF Ready
  <1>4. /\ mode' = mode
        /\ Waits \/ \E s \in Handles : \E q : st' = [st EXCEPT ![s] = q] /\ HandleNext(s, q)
    BY <1>2, <1>3, NextHandles
  <1>5. CASE Waits
    BY <1>4, <1>5, WaitsRun
  <1>6. ASSUME NEW s \in Handles, NEW q, st' = [st EXCEPT ![s] = q], HandleNext(s, q)
        PROVE  RunInv'
    <2>1. After(q) /\ born' = [c \in 1..MaxCells |-> born'[c]]
      BY <1>6, HandleAfter
    <2>2. st = [t \in Handles |-> st[t]]
      BY <1>3 DEF SessionInv
    <2>3. st'[s] = q /\ \A t \in Handles : t # s => st'[t] = st[t]
      BY <1>6, <2>2
    <2>4. Single => \A t \in Handles : t = s
      BY DEF Single
    <2>5. /\ HandleRuns(log', q) /\ BasisInv(log')
          /\ ~Single => \A r : HandleRuns(log, r) => HandleRuns(log', r)
          /\ Single => /\ Bases(log', born') /\ Place(log', CursorOf(log')[1], CursorOf(log')[2])
                       /\ q.open => CursorOf(log') = <<q.branch, q.head>>
      BY <2>1 DEF After
    <2>. HIDE DEF HandleRuns, BasisInv, Single, Bases, Place, CursorOf
    <2>6. \A t \in Handles : HandleRuns(log', st'[t])
      BY <1>1, <2>3, <2>4, <2>5
    <2>7. Single => \A t \in Handles :
                       st'[t].open => CursorOf(log') = <<st'[t].branch, st'[t].head>>
      BY <2>3, <2>4, <2>5
    <2>. QED
      BY <1>4, <2>1, <2>5, <2>6, <2>7, RunPrime
  <1>. QED
    BY <1>4, <1>5, <1>6

\* A new session has one handle at the empty head, which has run nothing.
LEMMA InitRun ==
    ASSUME Init
    PROVE  RunInv
  <1>1. /\ log = <<SessionStarted, RuntimeAttached(InitialHash)>>
        /\ born = [c \in 1..MaxCells |-> <<>>]
    BY DEF Init
  <1>2. PICK s \in Handles :
           st = [h \in Handles |-> IF h = s THEN Install(RootBranch, NoCell, NewRuntime(InitialHash), 0)
                                   ELSE Closed]
    BY DEF Init
  <1>3. /\ DOMAIN log = {1, 2} /\ log[1].type = "SessionStarted" /\ log[2].type = "RuntimeAttached"
        /\ log[2].hash = InitialHash
    BY <1>1 DEF SessionStarted, RuntimeAttached
  <1>4. /\ OfType(log, "CellChecked") = {} /\ OfType(log, "HeadMoved") = {}
        /\ OfType(log, "RuntimeTransitioned") = {} /\ OfType(log, "RuntimeAttached") = {2}
    BY <1>3 DEF OfType
  <1>5. CellCount(log) = 0
    BY <1>4, FS_EmptySet DEF CellCount
  <1>6. BasisInv(log)
    BY <1>4, <1>5 DEF BasisInv
  <1>7. MovedCells(log) = {} /\ Known(log) = {NoCell}
    BY <1>4 DEF MovedCells, Known
  <1>8. InForce(log, NoCell) = {}
    BY <1>4 DEF InForce, OnBranch
  <1>9. AttachedHash(log) = InitialHash
    <2>1. {2} \in SUBSET Nat /\ {2} # {}
      OBVIOUS
    <2>2. Min({2}) \in {2}
      BY <2>1, MinProperties
    <2>. QED
      BY <1>3, <1>4, <2>2 DEF AttachedHash
  <1>10. Config(log, NoCell) = InitialHash
    BY <1>8, <1>9 DEF Config, LatestHash
  <1>11. Base(log, NoCell) = NewRuntime(InitialHash)
    BY <1>10 DEF Base
  <1>12. InitialHash \in Names
    BY SessionAssumption DEF Names
  <1>13. Lineage(log, NoCell) = <<>>
    BY EmptyLineage
  <1>14. At(log, NoCell, NewRuntime(InitialHash))
    BY <1>11, <1>12, <1>13, NewHasRun DEF At
  <1>. DEFINE q == Install(RootBranch, NoCell, NewRuntime(InitialHash), 0)
  <1>15. Places(q, RootBranch, NoCell, NewRuntime(InitialHash), 0)
    BY InstallFields
  <1>16. NewRuntime(InitialHash).hash = InitialHash
    BY DEF NewRuntime
  <1>. HIDE DEF q
  <1>17. HandleRuns(log, q)
    <2>1. /\ q.open /\ q.pc = "idle" /\ q.branch = RootBranch /\ q.head = NoCell
          /\ q.hash = InitialHash /\ q.index = 0 /\ q.dirty = FALSE
          /\ q.rt = NewRuntime(InitialHash)
      BY <1>15, <1>16 DEF Places
    <2>2. /\ q.index = Len(Lineage(log, q.head)) /\ At(log, q.head, q.rt) /\ q.head \in Known(log)
          /\ q.hash \in Names /\ (Single => q.hash = Config(log, q.head))
      BY <1>7, <1>10, <1>12, <1>13, <1>14, <2>1
    <2>. HIDE DEF Single, At, Fails, Known, Lineage, Config, Names, Running
    <2>. QED
      BY <2>1, <2>2 DEF HandleRuns
  <1>18. HandleRuns(log, Closed)
    BY DEF HandleRuns, Closed
  <1>19. \A t \in Handles : HandleRuns(log, st[t])
    <2>1. st[s] = q /\ \A t \in Handles : t # s => st[t] = Closed
      BY <1>2 DEF q
    <2>. HIDE DEF HandleRuns
    <2>. QED
      BY <1>17, <1>18, <2>1
  <1>20. CursorOf(log) = <<RootBranch, NoCell>>
    BY InitTree
  <1>21. Place(log, RootBranch, NoCell)
    BY DEF Place, RootBranch
  <1>22. Bases(log, born)
    BY <1>7, <1>10, <1>11, <1>16 DEF Bases, GoodHash
  <1>23. Single => \A t \in Handles : st[t].open => CursorOf(log) = <<st[t].branch, st[t].head>>
    <2>1. st[s] = q
      BY <1>2 DEF q
    <2>2. Single => \A t \in Handles : t = s
      BY DEF Single
    <2>. QED
      BY <1>15, <1>20, <2>1, <2>2 DEF Places
  <1>24. Place(log, CursorOf(log)[1], CursorOf(log)[2])
    BY <1>20, <1>21
  <1>25. born = [c \in 1..MaxCells |-> born[c]]
    BY <1>1
  <1>. HIDE DEF HandleRuns, BasisInv, Single, Bases, Place, CursorOf
  <1>. QED
    BY <1>6, <1>19, <1>22, <1>23, <1>24, <1>25 DEF RunInv

-----------------------------------------------------------------------------
(* What the sessions promise. *)

\* What every clean handle has run is the history of its head; and with one handle that
\* makes no transitions on a branch without own cells, its runtime is the one replay
\* builds, the cursor of the log is where it is, and replay to every cell committed so far
\* still runs what had run then.
THEOREM RunInvariant ==
    ASSUME "HeadMoved" \notin AppendFaults
    PROVE  Spec => []RunInv
  <1>1. Init => RunInv
    BY InitRun
  <1>2. /\ SessionInv /\ SessionInv' /\ CellOrderInv /\ TreeInv /\ RunInv /\ [Next]_vars
        => RunInv'
    BY RunInvStep DEF Ready
  <1>3. Spec => []SessionInv
    BY SessionInvariant
  <1>4. Spec => []CellOrderInv
    BY CellOrderInvariant
  <1>5. Spec => []TreeInv
    BY TreeInvariant
  <1>. QED
    BY <1>1, <1>2, <1>3, <1>4, <1>5, PTL DEF Spec

\* A handle between operations.
LEMMA RestingParts ==
    ASSUME SessionInv, RunInv, NEW s \in Handles, Resting(s)
    PROVE  LET r == st[s]
           IN  /\ LogInv(log) /\ BasisInv(log) /\ r.head \in Known(log) /\ r.dirty \in BOOLEAN
               /\ Single => r.hash = Config(log, r.head)
               /\ ~r.dirty => /\ r.index = Len(Lineage(log, r.head))
                              /\ At(log, r.head, r.rt)
  <1>1. HandleRuns(log, st[s]) /\ st[s].open /\ st[s].pc = "idle" /\ BasisInv(log) /\ LogInv(log)
    BY DEF RunInv, Resting, SessionInv
  <1>. HIDE DEF Single, At, Fails, Known, Lineage, Config, Names, Running
  <1>. QED
    BY <1>1 DEF HandleRuns

\* The steps of the plan of a head are its lineage.
LEMMA PlanLineage ==
    ASSUME SessionInv, RunInv, NEW h \in Known(log)
    PROVE  /\ h = NoCell => Lineage(log, h) = <<>>
           /\ h # NoCell => LoadReplayPlan(log, h).steps = Lineage(log, h)
  <1>1. LogInv(log) /\ BasisInv(log)
    BY DEF SessionInv, RunInv
  <1>2. h # NoCell => h \in MovedCells(log)
    BY DEF Known
  <1>. QED
    BY <1>1, <1>2, EmptyLineage, PlanShape

\* IndexIsLineage: $val(n) is the n-th cell of the lineage. For any number of handles,
\* cells, branches and transitions, in both runtime modes, with any append but that of
\* HeadMoved failing and handles stopping at any moment but before it.
THEOREM IndexInvariant ==
    ASSUME "HeadMoved" \notin AppendFaults
    PROVE  Spec => []IndexIsLineage
  <1>1. SessionInv /\ RunInv => IndexIsLineage
    <2>. SUFFICES ASSUME SessionInv, RunInv, NEW s \in Handles, Resting(s), ~st[s].dirty
                  PROVE  st[s].index = IF st[s].head = NoCell THEN 0
                                       ELSE Len(LoadReplayPlan(log, st[s].head).steps)
      BY DEF IndexIsLineage
    <2>1. st[s].head \in Known(log) /\ st[s].index = Len(Lineage(log, st[s].head))
      BY RestingParts
    <2>2. /\ st[s].head = NoCell => Lineage(log, st[s].head) = <<>>
          /\ st[s].head # NoCell =>
                LoadReplayPlan(log, st[s].head).steps = Lineage(log, st[s].head)
      BY <2>1, PlanLineage
    <2>. QED
      BY <2>1, <2>2
  <1>. QED
    BY <1>1, SessionInvariant, RunInvariant, PTL

\* The runtime of a clean handle has run the cells of its head's lineage, each once and
\* in order, and $val answers with each of them.
RunsLineage ==
    \A s \in Handles : Resting(s) /\ ~st[s].dirty =>
       HasRun(st[s].rt, Lineage(log, st[s].head))

\* The same however many handles share the store, and wherever they make transitions: a
\* failed submit, a dirty runtime rebuilt in the middle of another, a restore or a fork
\* leaves no cell out, runs none twice, and runs none that is not in the history.
THEOREM LineageInvariant ==
    ASSUME "HeadMoved" \notin AppendFaults
    PROVE  Spec => []RunsLineage
  <1>1. SessionInv /\ RunInv => RunsLineage
    BY RestingParts DEF RunsLineage, At
  <1>. QED
    BY <1>1, SessionInvariant, RunInvariant, PTL

\* LiveIsReplay: a runtime that is not dirty is the one replay would build, with its
\* configuration and its answers. For one handle at a time that makes no transitions on a
\* branch without own cells: otherwise a transition may be made that replay does not find.
THEOREM LiveInvariant ==
    ASSUME "HeadMoved" \notin AppendFaults, Single
    PROVE  Spec => []LiveIsReplay
  <1>1. SessionInv /\ RunInv => LiveIsReplay
    <2>. SUFFICES ASSUME SessionInv, RunInv, NEW s \in Handles, Resting(s), ~st[s].dirty
                  PROVE  st[s].rt.hash = st[s].hash /\ st[s].rt = Rebuilt(log, s)
      BY DEF LiveIsReplay
    <2>1. /\ st[s].head \in Known(log) /\ st[s].hash = Config(log, st[s].head)
          /\ At(log, st[s].head, st[s].rt)
      BY RestingParts
    <2>2. st[s].rt = Base(log, st[s].head)
      BY <2>1 DEF At
    <2>3. GoodHash(log)
      BY DEF RunInv, Bases
    <2>4. st[s].rt.hash = st[s].hash
      BY <2>1, <2>2, <2>3 DEF GoodHash
    <2>5. Base(log, st[s].head) = Rebuilt(log, s)
      BY <2>1 DEF Base, Rebuilt
    <2>. QED
      BY <2>2, <2>4, <2>5
  <1>. QED
    BY <1>1, SessionInvariant, RunInvariant, PTL

\* ReplayReproduces: however the session goes on, replaying to a committed cell runs the
\* cells that had run when it was committed, each under its configuration then.
THEOREM ReproducesInvariant ==
    ASSUME "HeadMoved" \notin AppendFaults, Single
    PROVE  Spec => []ReplayReproduces
  <1>1. SessionInv /\ RunInv => ReplayReproduces
    <2>. SUFFICES ASSUME SessionInv, RunInv, NEW c \in MovedCells(log)
                  PROVE  Replay(log, LoadReplayPlan(log, c)).ran = born[c]
      BY DEF ReplayReproduces
    <2>1. born[c] = Base(log, c).ran
      BY DEF RunInv, Bases
    <2>2. c # NoCell
      BY PlanShape DEF SessionInv, RunInv
    <2>. QED
      BY <2>1, <2>2 DEF Base
  <1>. QED
    BY <1>1, SessionInvariant, RunInvariant, PTL

\* CursorIsDurable: the handle and the store agree on branch, head and configuration, so
\* that reopening after a crash continues where the handle was.
THEOREM CursorInvariant ==
    ASSUME "HeadMoved" \notin AppendFaults, Single
    PROVE  Spec => []CursorIsDurable
  <1>1. SessionInv /\ TreeInv /\ RunInv => CursorIsDurable
    <2>. SUFFICES ASSUME SessionInv, TreeInv, RunInv, NEW s \in Handles, Resting(s)
                  PROVE  LoadSessionState(log) =
                            [branch |-> st[s].branch, head |-> st[s].head, hash |-> st[s].hash]
      BY DEF CursorIsDurable
    <2>. DEFINE b == st[s].branch
                h == st[s].head
    <2>1. h \in Known(log) /\ st[s].hash = Config(log, h) /\ LogInv(log)
      BY RestingParts
    <2>2. CursorOf(log) = <<b, h>> /\ Place(log, CursorOf(log)[1], CursorOf(log)[2])
      BY DEF RunInv, Resting
    <2>3. Place(log, b, h)
      BY <2>2
    <2>4. Commits(log, b) = Own(log, b)
      <3>1. \A t \in Handles : t = s
        BY DEF Single
      <3>2. \A t \in Handles : ~Moving(t, b)
        BY <3>1 DEF Moving, Resting
      <3>3. b \in Nat
        BY <2>3 DEF Place
      <3>. QED
        BY <3>2, <3>3 DEF TreeInv, OwnInv
    <2>5. loadActiveRuntime(log, b, h) = st[s].hash
      BY <2>1, <2>3, <2>4, CursorConfig
    <2>6. \E x, y : LoadSessionState(log) = [branch |-> x, head |-> y,
                                             hash |-> loadActiveRuntime(log, x, y)]
      BY DEF LoadSessionState, StateAt
    <2>7. PICK x, y : LoadSessionState(log) = [branch |-> x, head |-> y,
                                               hash |-> loadActiveRuntime(log, x, y)]
      BY <2>6
    <2>8. x = b /\ y = h
      BY <2>2, <2>7 DEF CursorOf
    <2>. QED
      BY <2>5, <2>7, <2>8
  <1>. QED
    BY <1>1, SessionInvariant, TreeInvariant, RunInvariant, PTL

-----------------------------------------------------------------------------
(* The numbers of cells and branches, and the types of the session. *)

\* Facts about cells in the order of their numbers, the last one at most c.
RisesTo(s, c) ==
    /\ s \in Seq(Facts) /\ \A i \in 1..Len(s) : s[i].cell \in 1..c
    /\ \A i, j \in 1..Len(s) : i < j => s[i].cell < s[j].cell

\* What is committed on a branch comes after the cell it was forked at.
StartsFirst(l) ==
    \A i \in OfType(l, "CellCommitted") : Start(l, l[i].branch) < l[i].cell

\* One rising sequence after another.
LEMMA RisesJoin ==
    ASSUME NEW a \in Nat, NEW c \in Nat, NEW s, NEW t, RisesTo(s, a), RisesTo(t, c), a <= c,
           \A i \in 1..Len(t) : a < t[i].cell
    PROVE  RisesTo(s \o t, c)
<1> DEFINE w == s \o t
           m == Len(s)
           n == Len(t)
<1>1. s \in Seq(Facts) /\ t \in Seq(Facts)
  BY DEF RisesTo
<1>2. /\ w \in Seq(Facts) /\ m \in Nat /\ n \in Nat /\ Len(w) = m + n
      /\ \A i \in 1..m : w[i] = s[i]
      /\ \A i \in 1..(m + n) : i > m => w[i] = t[i - m]
  BY <1>1
<1>3. /\ \A i \in 1..m : s[i].cell \in 1..a
      /\ \A i, j \in 1..m : i < j => s[i].cell < s[j].cell
      /\ \A i \in 1..n : t[i].cell \in 1..c /\ a < t[i].cell
      /\ \A i, j \in 1..n : i < j => t[i].cell < t[j].cell
  BY DEF RisesTo
<1> HIDE DEF w, m, n
<1>4. \A i \in 1..(m + n) : w[i].cell \in 1..c
  <2> TAKE i \in 1..(m + n)
  <2>1. CASE i <= m
    <3>1. i \in 1..m
      BY <1>2, <2>1
    <3> QED BY <1>2, <1>3, <3>1
  <2>2. CASE i > m
    <3>1. i - m \in 1..n
      BY <1>2, <2>2
    <3> QED BY <1>2, <1>3, <2>2, <3>1
  <2> QED BY <1>2, <2>1, <2>2
<1>5. \A i, j \in 1..(m + n) : i < j => w[i].cell < w[j].cell
  <2> SUFFICES ASSUME NEW i \in 1..(m + n), NEW j \in 1..(m + n), i < j
               PROVE  w[i].cell < w[j].cell
    OBVIOUS
  <2>1. CASE j <= m
    <3>1. i \in 1..m /\ j \in 1..m
      BY <1>2, <2>1
    <3> QED BY <1>2, <1>3, <3>1
  <2>2. CASE i <= m /\ j > m
    <3>1. i \in 1..m /\ j - m \in 1..n
      BY <1>2, <2>2
    <3>2. w[i].cell \in 1..a /\ a < w[j].cell /\ w[j].cell \in 1..c
      BY <1>2, <1>3, <2>2, <3>1
    <3> QED BY <3>2
  <2>3. CASE i > m
    <3>1. i - m \in 1..n /\ j - m \in 1..n /\ i - m < j - m /\ j > m
      BY <1>2, <2>3
    <3>2. w[i] = t[i - m] /\ w[j] = t[j - m]
      BY <1>2, <2>3, <3>1
    <3> QED BY <1>3, <3>1, <3>2
  <2> QED BY <1>2, <2>1, <2>2, <2>3
<1> QED BY <1>2, <1>4, <1>5 DEF RisesTo, w, m, n

\* Rising numbers are at least their places.
LEMMA RisesFast ==
    ASSUME NEW c \in Nat, NEW s, RisesTo(s, c)
    PROVE  Len(s) \in Nat /\ Len(s) <= c
<1> DEFINE n == Len(s)
           Good == {i \in 0..n : i = 0 \/ i <= s[i].cell}
<1>1. /\ s \in Seq(Facts) /\ n \in Nat /\ \A i \in 1..n : s[i].cell \in 1..c
      /\ \A i, j \in 1..n : i < j => s[i].cell < s[j].cell
  BY DEF RisesTo
<1> HIDE DEF n
<1>2. \A i \in 1..n : i - 1 \in Good => i \in Good
  <2> SUFFICES ASSUME NEW i \in 1..n, i - 1 \in Good PROVE i <= s[i].cell
    OBVIOUS
  <2>1. CASE i = 1
    BY <1>1, <2>1
  <2>2. CASE i # 1
    <3>1. i - 1 \in 1..n /\ i - 1 < i /\ i - 1 <= s[i - 1].cell
      BY <1>1, <2>2
    <3>2. s[i - 1].cell \in 1..c /\ s[i].cell \in 1..c /\ s[i - 1].cell < s[i].cell
      BY <1>1, <3>1
    <3> QED BY <3>1, <3>2
  <2> QED BY <2>1, <2>2
<1>3. 0 \in Good
  BY <1>1
<1> HIDE DEF Good
<1>4. \A i \in 0..n : i \in Good
  BY <1>1, <1>2, <1>3, StepByStep
<1>5. n = 0 \/ n <= s[n].cell
  BY <1>1, <1>4 DEF Good
<1> QED BY <1>1, <1>5 DEF n

\* The cells committed on a branch, up to one of them.
LEMMA CommitsRise ==
    ASSUME NEW l, LogInv(l), OrderInv(l), NEW b, NEW c \in Nat, CommittedOn(l, b, c)
    PROVE  /\ RisesTo(committedCellsUpTo(l, b, c), c)
           /\ \A i \in 1..Len(committedCellsUpTo(l, b, c)) :
                 \E p \in OnBranch(l, "CellCommitted", b) :
                    committedCellsUpTo(l, b, c)[i] = l[p]
<1> DEFINE S == OnBranch(l, "CellCommitted", b)
           o == InOrder(S)
           s == Commits(l, b)
           at == {i \in DOMAIN s : s[i].cell = c}
           n == Min(at)
           N == Cardinality(S)
<1>1. l \in Seq(Facts) /\ NumbersInv(l)
  BY DEF LogInv
<1>2. /\ S \in SUBSET Nat /\ IsFiniteSet(S) /\ S \in SUBSET DOMAIN l
      /\ \A i \in DOMAIN l : l[i] \in Facts /\ l[i].cell \in Nat
  BY <1>1, Positions
<1>3. S \subseteq OfType(l, "CellCommitted")
  BY DEF OnBranch
<1>4. \A p \in S : l[p].cell \in Nat \ {0}
  BY <1>1, <1>2, <1>3 DEF NumbersInv
<1>5. \A p, q \in S : p < q => l[p].cell < l[q].cell
  BY <1>3 DEF OrderInv
<1> HIDE DEF S
<1>6. N \in Nat /\ o \in [1..N -> S] /\ \A i, j \in 1..N : i < j => o[i] < o[j]
  BY <1>2, InOrderProperties
<1>7. s = [k \in DOMAIN o |-> l[o[k]]]
  BY Zenon DEF Commits, FactsAt, S
<1>8. at # {}
  <2>1. \E k \in DOMAIN s : s[k].cell = c
    BY <1>1, CommitListed DEF s
  <2> QED BY <2>1
<1> HIDE DEF o, s, N
<1>9. DOMAIN s = 1..N /\ \A k \in 1..N : s[k] = l[o[k]] /\ o[k] \in S
  BY <1>6, <1>7
<1>10. s \in Seq(Facts) /\ Len(s) = N
  <2>1. \A k \in 1..N : l[o[k]] \in Facts
    BY <1>2, <1>9
  <2>2. s \in [1..N -> Facts]
    BY <1>6, <1>7, <2>1
  <2> QED BY <1>6, <2>2
<1>11. n \in at
  <2>1. at \in SUBSET Nat
    BY <1>9
  <2> HIDE DEF at
  <2> QED BY <1>8, <2>1, MinProperties
<1>12. n \in 1..N /\ s[n].cell = c
  BY <1>9, <1>11
<1>13. committedCellsUpTo(l, b, c) = SubSeq(s, 1, n)
  BY <1>8, Zenon DEF committedCellsUpTo, UpTo, s
<1> HIDE DEF n, at
<1> DEFINE u == SubSeq(s, 1, n)
<1>14. u \in Seq(Facts) /\ Len(u) = n /\ \A k \in 1..n : u[k] = s[k] /\ k \in 1..N
  BY <1>6, <1>10, <1>12
<1> HIDE DEF u
<1>15. \A i, j \in 1..N : i < j => s[i].cell < s[j].cell
  <2> SUFFICES ASSUME NEW i \in 1..N, NEW j \in 1..N, i < j PROVE s[i].cell < s[j].cell
    OBVIOUS
  <2>1. o[i] < o[j] /\ o[i] \in S /\ o[j] \in S /\ s[i] = l[o[i]] /\ s[j] = l[o[j]]
    BY <1>6, <1>9
  <2> QED BY <1>5, <2>1
<1>16. \A k \in 1..n : s[k].cell \in 1..c
  <2> TAKE k \in 1..n
  <2>1. k \in 1..N /\ (k = n \/ k < n)
    BY <1>6, <1>12
  <2>2. s[k].cell \in Nat \ {0}
    BY <1>4, <1>9, <2>1
  <2>3. s[k].cell = c \/ s[k].cell < c
    BY <1>12, <1>15, <2>1
  <2> QED BY <2>2, <2>3
<1>17. RisesTo(u, c)
  BY <1>14, <1>15, <1>16 DEF RisesTo
<1>18. \A i \in 1..Len(u) : \E p \in S : u[i] = l[p]
  BY <1>9, <1>14
<1> QED BY <1>13, <1>17, <1>18 DEF u, S

\* The lineage of a cell rises, across the forks it passes, up to the cell.
LEMMA ChainRises ==
    ASSUME NEW l, LogInv(l), OrderInv(l), StartsFirst(l), NEW b \in Nat, NEW c \in Nat,
           CommittedOn(l, b, c)
    PROVE  RisesTo(collectAncestorChain(l, b, c), c)
<1> DEFINE Bad == {x \in Nat : \E d \in Nat : /\ CommittedOn(l, x, d)
                                              /\ ~RisesTo(collectAncestorChain(l, x, d), d)}
<1>0. l \in Seq(Facts) /\ ForksInv(l) /\ NumbersInv(l)
  BY DEF LogInv
<1> SUFFICES ASSUME Bad # {} PROVE FALSE
  OBVIOUS
<1> DEFINE x == Min(Bad)
<1>1. x \in Bad /\ \A y \in Bad : x <= y
  <2>1. Bad \in SUBSET Nat
    OBVIOUS
  <2> HIDE DEF Bad
  <2> QED BY <2>1, MinProperties
<1> HIDE DEF x
<1>2. PICK d \in Nat : CommittedOn(l, x, d) /\ ~RisesTo(collectAncestorChain(l, x, d), d)
  BY <1>1
<1>3. x \in Nat
  BY <1>1
<1>4. Created(l, x)
  BY <1>0, <1>2 DEF CommittedOn, ForksInv, OfCell
<1> DEFINE own == committedCellsUpTo(l, x, d)
<1>5. /\ Inherited(l, x) \in Seq(Facts)
      /\ collectAncestorChain(l, x, d) = Inherited(l, x) \o own
  BY <1>0, <1>3, <1>4, ChainParts, CommitFactsAreFacts
<1>6. /\ RisesTo(own, d)
      /\ \A i \in 1..Len(own) : \E p \in OnBranch(l, "CellCommitted", x) : own[i] = l[p]
  BY <1>2, CommitsRise
<1> HIDE DEF own
<1>7. CASE x = RootBranch
  <2>1. Inherited(l, x) = <<>>
    BY <1>3, <1>4, <1>7, InheritedUnfold
  <2>2. own \in Seq(Facts)
    BY <1>6 DEF RisesTo
  <2>3. collectAncestorChain(l, x, d) = own
    BY <1>5, <2>1, <2>2
  <2> QED BY <1>2, <1>6, <2>3
<1>8. CASE x # RootBranch
  <2> DEFINE g == ForkOf(l, x)
             a == g.stop
  <2>1. OnBranch(l, "BranchCreated", x) # {}
    BY <1>4, <1>8 DEF Created
  <2>2. g.branch \in 1..(x - 1) /\ a \in Nat /\ CommittedOn(l, g.branch, a)
    BY <1>3, <2>1, ForkProperties
  <2>3. Inherited(l, x) = collectAncestorChain(l, g.branch, a)
    BY <1>3, <1>4, <1>8, InheritedUnfold
  <2>4. a = Start(l, x)
    BY <1>8 DEF ForkOf, ForkedFrom, Start
  <2> HIDE DEF g, a
  <2>5. RisesTo(Inherited(l, x), a)
    <3>1. g.branch \in Nat /\ g.branch \notin Bad
      BY <1>1, <1>3, <2>2
    <3> QED BY <2>2, <2>3, <3>1
  <2>6. \A i \in 1..Len(own) : a < own[i].cell
    <3> TAKE i \in 1..Len(own)
    <3>1. PICK p \in OnBranch(l, "CellCommitted", x) : own[i] = l[p]
      BY <1>6
    <3>2. p \in OfType(l, "CellCommitted") /\ l[p].branch = x
      BY DEF OnBranch
    <3> QED BY <2>4, <3>1, <3>2 DEF StartsFirst
  <2>7. a <= d
    <3>1. PICK p \in OfCell(l, "CellCommitted", d) : l[p].branch = x
      BY <1>2 DEF CommittedOn
    <3>2. p \in OfType(l, "CellCommitted") /\ l[p].cell = d
      BY DEF OfCell
    <3>3. a < d
      BY <2>4, <3>1, <3>2 DEF StartsFirst
    <3> QED BY <2>2, <3>3
  <2> HIDE DEF Bad
  <2>8. RisesTo(Inherited(l, x) \o own, d)
    BY <1>6, <2>2, <2>5, <2>6, <2>7, RisesJoin
  <2> QED BY <1>2, <1>5, <2>8
<1> QED BY <1>7, <1>8

\* The cells and branches of a log are the ones of the bounds.
Bounded(l) == \A i \in DOMAIN l : l[i].cell <= MaxCells /\ l[i].branch <= MaxBranches

\* A log of known cells, branches and configurations.
LogTyped(l) == BasisInv(l) /\ StartsFirst(l) /\ Bounded(l)

\* The bounds are numbers.
LEMMA Bounds ==
    /\ MaxCells \in Nat /\ MaxBranches \in Nat /\ MaxFaults \in Nat
    /\ RootBranch <= MaxBranches /\ Ids = 0..MaxCells /\ NoCell \in Ids
    /\ Hashes \subseteq Names /\ "none" \in Names /\ StaleHash \in Names
<1>1. {MaxCells, MaxBranches, MaxTransitions, MaxRestores, MaxFaults} \subseteq Nat
  BY SessionAssumption
<1>2. RootBranch <= MaxBranches
  BY SessionAssumption
<1>3. MaxCells \in Nat /\ MaxBranches \in Nat /\ MaxFaults \in Nat
  BY <1>1
<1> QED BY <1>2, <1>3 DEF Ids, Names, NoCell

\* The cells of the history at a head: no more than its number, and none younger.
LEMMA LineageRises ==
    ASSUME NEW l, LogInv(l), OrderInv(l), StartsFirst(l), NEW h \in Known(l)
    PROVE  /\ h \in Nat /\ Lineage(l, h) \in Seq(Nat)
           /\ Len(Lineage(l, h)) \in Nat /\ Len(Lineage(l, h)) <= h
           /\ \A i \in 1..Len(Lineage(l, h)) : Lineage(l, h)[i] \in 1..h
<1>1. CASE h = NoCell
  <2>1. Lineage(l, h) = <<>>
    BY <1>1, EmptyLineage
  <2>2. h = 0
    BY <1>1 DEF NoCell
  <2> DEFINE s == <<>>
  <2>3. s \in Seq(Nat) /\ Len(s) = 0
    OBVIOUS
  <2>4. Lineage(l, h) = s
    BY <2>1
  <2> HIDE DEF s
  <2> DEFINE u == Lineage(l, h)
  <2>5. u \in Seq(Nat) /\ Len(u) = 0
    BY <2>3, <2>4
  <2> HIDE DEF u
  <2>6. Len(u) \in Nat /\ Len(u) <= h /\ \A i \in 1..Len(u) : u[i] \in 1..h
    BY <2>2, <2>5
  <2>7. h \in Nat
    BY <2>2
  <2> QED BY <2>5, <2>6, <2>7, Zenon DEF u
<1>2. CASE h # NoCell
  <2> DEFINE b == branchForCell(l, h)
             s == collectAncestorChain(l, b, h)
  <2>1. h \in MovedCells(l)
    BY <1>2 DEF Known
  <2>2. b \in Nat /\ h \in Nat /\ CommittedOn(l, b, h)
    BY <2>1, MovedPlace
  <2>3. Lineage(l, h) = Cells(s)
    BY <1>2 DEF Lineage, Chain
  <2> HIDE DEF b
  <2>4. RisesTo(s, h)
    BY <2>2, ChainRises
  <2> HIDE DEF s
  <2>5. s \in Seq(Facts) /\ Len(s) \in Nat /\ Len(s) <= h
    BY <2>2, <2>4, RisesFast DEF RisesTo
  <2>6. /\ Cells(s) \in Seq(Nat) /\ Len(Cells(s)) = Len(s)
        /\ \A i \in 1..Len(s) : Cells(s)[i] = s[i].cell
    <3>1. SessionStarted \in Facts
      BY DEF SessionStarted, Facts, RootBranch, NoCell
    <3> QED BY <2>5, <3>1, CellsOf
  <2> QED BY <2>2, <2>3, <2>4, <2>5, <2>6 DEF RisesTo
<1> QED BY <1>1, <1>2

\* A runtime, as a record.
IsRecord(rt) == rt = [hash |-> rt.hash, ran |-> rt.ran, vals |-> rt.vals]
Typed(rt) == IsRecord(rt) /\ IsRuntime(rt)

\* A runtime that has run known cells.
LEMMA RunTyped ==
    ASSUME NEW rt, NEW s \in Seq(Nat), HasRun(rt, s), Len(s) <= MaxCells,
           \A i \in 1..Len(s) : s[i] \in Ids
    PROVE  Typed(rt)
<1>1. MaxCells \in Nat
  BY Bounds
<1>2. IsRecord(rt) /\ rt.hash \in Names
  BY DEF HasRun, IsRecord
<1> DEFINE ran == rt.ran
           vals == rt.vals
           n == Len(s)
           Wide == [cell : Nat, hash : Names]
           Entries == [cell : Ids, hash : Names]
<1>3. /\ ran \in Seq(Wide) /\ Len(ran) = n /\ vals \in [1..n -> Wide] /\ n \in Nat
      /\ \A i \in 1..n : ran[i].cell \in Ids /\ vals[i].cell \in Ids
  BY DEF HasRun
<1>4. \A e \in Wide : e.cell \in Ids => e \in Entries
  OBVIOUS
<1> HIDE DEF ran, vals, n, Wide, Entries
<1>5. \A i \in 1..n : ran[i] \in Entries
  BY <1>3, <1>4
<1>6. ran \in Seq(Entries)
  BY <1>3, <1>5
<1>7. DOMAIN vals = 1..n /\ \A i \in 1..n : vals[i] \in Entries
  BY <1>3, <1>4
<1>8. DOMAIN vals \subseteq 1..MaxCells /\ n <= MaxCells
  BY <1>1, <1>3, <1>7 DEF n
<1> QED BY <1>2, <1>6, <1>7, <1>8 DEF Typed, IsRuntime, ran, vals, Entries

\* A new runtime.
LEMMA NewTyped ==
    ASSUME NEW h \in Names
    PROVE  Typed(NewRuntime(h))
<1>1. HasRun(NewRuntime(h), <<>>)
  BY NewHasRun
<1>2. MaxCells \in Nat
  BY Bounds
<1> DEFINE s == <<>>
<1>3. s \in Seq(Nat) /\ Len(s) <= MaxCells /\ \A i \in 1..Len(s) : s[i] \in Ids
  BY <1>2
<1>4. HasRun(NewRuntime(h), s)
  BY <1>1
<1> HIDE DEF s
<1> QED BY <1>3, <1>4, RunTyped

\* No runtime.
LEMMA NoneTyped == Typed(NoRuntime)
<1>1. NoRuntime = NewRuntime("none")
  BY DEF NoRuntime, NewRuntime
<1> QED BY <1>1, Bounds, NewTyped

\* The runtime replay builds for a head.
LEMMA BaseTyped ==
    ASSUME NEW l, LogInv(l), OrderInv(l), LogTyped(l), NEW h \in Known(l)
    PROVE  /\ Typed(Base(l, h)) /\ h \in Ids
           /\ Len(Lineage(l, h)) \in Nat /\ Len(Lineage(l, h)) <= h
<1>1. StartsFirst(l) /\ BasisInv(l) /\ Bounded(l) /\ MaxCells \in Nat
  BY Bounds DEF LogTyped
<1>2. /\ h \in Nat /\ Lineage(l, h) \in Seq(Nat)
      /\ Len(Lineage(l, h)) \in Nat /\ Len(Lineage(l, h)) <= h
      /\ \A i \in 1..Len(Lineage(l, h)) : Lineage(l, h)[i] \in 1..h
  BY <1>1, LineageRises
<1>3. h <= MaxCells
  <2>1. CASE h = NoCell
    BY <1>1, <2>1 DEF NoCell
  <2>2. CASE h # NoCell
    <3>1. PICK i \in OfType(l, "HeadMoved") : l[i].cell = h
      BY <2>2 DEF Known, MovedCells
    <3> QED BY <1>1, <3>1 DEF Bounded, OfType
  <2> QED BY <2>1, <2>2
<1>4. \A i \in 1..Len(Lineage(l, h)) : Lineage(l, h)[i] \in Ids
  BY <1>1, <1>2, <1>3, Bounds
<1>5. HasRun(Base(l, h), Lineage(l, h))
  BY <1>1, BaseHasRun
<1>6. Len(Lineage(l, h)) <= MaxCells
  BY <1>1, <1>2, <1>3
<1>7. Typed(Base(l, h))
  BY <1>2, <1>4, <1>5, <1>6, RunTyped
<1> QED BY <1>1, <1>2, <1>3, <1>7, Bounds

\* What a fact of a step may be.
Sound(l, f) ==
    /\ f.cell <= MaxCells /\ f.branch <= MaxBranches
    /\ f.type = "CellChecked" => f.cell = CellCount(l) + 1
    /\ f.type = "CellCommitted" => /\ f.cell = CellCount(l)
                                   /\ OfCell(l, "CellCommitted", f.cell) = {}
    /\ f.type = "RuntimeTransitioned" =>
          /\ f.cell \in Known(l) /\ Created(l, f.branch)
          /\ LoadHead(l, f.branch) \in {NoCell, f.cell}

\* The first cell of a branch comes after the cell the branch was forked at.
LEMMA StartsStay ==
    ASSUME NEW l, LogInv(l), StartsFirst(l), NEW f \in Facts, LogInv(Append(l, f)), Sound(l, f)
    PROVE  StartsFirst(Append(l, f))
<1> DEFINE m == Append(l, f)
           n == Len(l) + 1
<1>1. l \in Seq(Facts) /\ NumbersInv(l) /\ ForksInv(l)
  BY DEF LogInv
<1>2. NumbersInv(m) /\ ForksInv(m)
  <2>1. LogInv(m)
    OBVIOUS
  <2> HIDE DEF m
  <2> QED BY <2>1 DEF LogInv
<1>3. /\ m[n] = f /\ \A i \in DOMAIN l : m[i] = l[i]
      /\ OfType(m, "CellCommitted") = OfType(l, "CellCommitted") \cup
            (IF f.type = "CellCommitted" THEN {n} ELSE {})
      /\ \A b : OnBranch(m, "BranchCreated", b) = OnBranch(l, "BranchCreated", b) \cup
            (IF f.type = "BranchCreated" /\ f.branch = b THEN {n} ELSE {})
  BY <1>1, AppendFact
<1>4. \A b : Created(l, b) => Start(m, b) = Start(l, b)
  BY <1>1, StartStays
<1>5. /\ OfType(l, "CellCommitted") \in SUBSET DOMAIN l /\ DOMAIN l \in SUBSET Nat
      /\ \A b : OnBranch(l, "BranchCreated", b) \in SUBSET DOMAIN l
  BY <1>1, Positions
<1> HIDE DEF m, n
<1>6. ASSUME NEW i \in OfType(m, "CellCommitted")
      PROVE  Start(m, m[i].branch) < m[i].cell
  <2>1. CASE i \in OfType(l, "CellCommitted")
    <3>1. m[i] = l[i] /\ Created(l, l[i].branch)
      BY <1>1, <1>3, <1>5, <2>1 DEF ForksInv
    <3> QED BY <1>4, <2>1, <3>1 DEF StartsFirst
  <2>2. CASE i \notin OfType(l, "CellCommitted")
    <3> DEFINE b == f.branch
               K == OnBranch(l, "BranchCreated", b)
    <3>1. i = n /\ f.type = "CellCommitted" /\ m[i] = f
      BY <1>3, <2>2
    <3>2. f.cell \in 1..CellCount(m) /\ Created(m, b)
      BY <1>2, <3>1 DEF NumbersInv, ForksInv
    <3>3. Created(l, b)
      BY <1>3, <3>1, <3>2 DEF Created
    <3>4. f.cell = CellCount(l) /\ OfCell(l, "CellCommitted", f.cell) = {}
      BY <3>1 DEF Sound
    <3>5. f.cell \in Nat \ {0}
      <4>1. CellCount(m) \in Nat
        <5>1. m \in Seq(Facts)
          BY <1>1, AppendFact DEF m
        <5> QED BY <5>1, Positions DEF CellCount
      <4> QED BY <3>2, <4>1
    <3>6. CASE b = RootBranch
      BY <1>4, <3>1, <3>3, <3>5, <3>6 DEF Start, NoCell
    <3>7. CASE b # RootBranch
      <4> DEFINE k == Min(K)
      <4>1. K # {} /\ K \in SUBSET Nat
        BY <1>5, <3>3, <3>7 DEF Created
      <4>2. k \in K
        BY <4>1, MinProperties
      <4>3. k \in OfType(l, "BranchCreated")
        BY <4>2 DEF OnBranch
      <4>4. PICK x : CommittedOn(l, x, l[k].cell)
        BY <1>1, <4>3 DEF ForksInv
      <4>5. PICK j \in OfCell(l, "CellCommitted", l[k].cell) : TRUE
        BY <4>4 DEF CommittedOn
      <4>6. j \in OfType(l, "CellCommitted") /\ l[j].cell = l[k].cell
        BY DEF OfCell
      <4>7. l[k].cell \in 1..CellCount(l) /\ l[k].cell # f.cell
        BY <1>1, <3>4, <4>5, <4>6 DEF NumbersInv
      <4>8. Start(l, b) = l[k].cell
        BY <3>7 DEF Start
      <4> QED BY <1>4, <3>1, <3>3, <3>4, <3>5, <4>7, <4>8
    <3> QED BY <3>6, <3>7
  <2> QED BY <2>1, <2>2
<1> QED BY <1>6 DEF StartsFirst, m

\* Every fact of a step leaves the log typed.
LEMMA TypedGrows ==
    ASSUME NEW l, LogInv(l), OrderInv(l), LogTyped(l), NEW f \in Facts, LogInv(Append(l, f)),
           Sound(l, f)
    PROVE  LogTyped(Append(l, f)) /\ Known(l) \subseteq Known(Append(l, f))
<1> DEFINE m == Append(l, f)
<1>1. Grown(l, f)
  BY DEF Grown, LogTyped, Sound
<1>2. BasisInv(m) /\ Known(l) \subseteq Known(m)
  BY <1>1, BasisStep, KnownGrows
<1>3. StartsFirst(m)
  BY StartsStay DEF LogTyped
<1>4. Bounded(m)
  <2>1. l \in Seq(Facts)
    BY DEF LogInv
  <2>2. /\ DOMAIN m = DOMAIN l \cup {Len(l) + 1} /\ m[Len(l) + 1] = f
        /\ \A i \in DOMAIN l : m[i] = l[i]
    BY <2>1, AppendFact
  <2> HIDE DEF m
  <2> QED BY <2>2 DEF LogTyped, Bounded, Sound
<1> QED BY <1>2, <1>3, <1>4 DEF LogTyped

\* A created branch is one of the bounds.
LEMMA CreatedBound ==
    ASSUME NEW l, LogTyped(l), NEW b, Created(l, b)
    PROVE  b <= MaxBranches
<1>1. CASE b = RootBranch
  BY <1>1, Bounds
<1>2. CASE b # RootBranch
  <2>1. PICK i \in OnBranch(l, "BranchCreated", b) : TRUE
    BY <1>2 DEF Created
  <2> QED BY <2>1 DEF OnBranch, OfType, LogTyped, Bounded
<1> QED BY <1>1, <1>2

\* A handle, with its runtimes.
HandleTyped(l, r) ==
    /\ r.dirty \in BOOLEAN /\ r.branch <= MaxBranches /\ r.cell \in Ids
    /\ r.head \in Known(l) /\ r.index \in Nat /\ r.index <= r.head
    /\ r.hash \in Names /\ Typed(r.rt) /\ Typed(r.eval)
    /\ r.pc # "idle" => r.head < r.cell

\* The session, its handles and what it has recorded of its cells.
TypeInv ==
    /\ LogTyped(log) /\ \A s \in Handles : HandleTyped(log, st[s])
    /\ faults \in 0..MaxFaults
    /\ born = [c \in 1..MaxCells |-> born[c]]
    /\ \A c \in 1..MaxCells : born[c] \in Seq([cell : Ids, hash : Names])
    /\ verdict \in [1..MaxCells -> {"none", "ok", "failed", "error", "lost"}]

\* The history at the head of a handle, as a runtime.
LEMMA RebuiltTyped ==
    ASSUME NEW l, LogInv(l), OrderInv(l), LogTyped(l), NEW s, HandleTyped(l, st[s])
    PROVE  Typed(Rebuilt(l, s)) /\ Rebuilt(l, s).hash \in Names
<1> DEFINE h == st[s].head
<1>1. h \in Known(l) /\ st[s].hash \in Names
  BY DEF HandleTyped
<1>2. Typed(NewRuntime(st[s].hash))
  BY <1>1, NewTyped
<1>3. Typed(Base(l, h))
  BY <1>1, BaseTyped
<1>4. Rebuilt(l, s) = IF h = NoCell THEN NewRuntime(st[s].hash) ELSE Base(l, h)
  BY DEF Rebuilt, Base
<1>5. Typed(Rebuilt(l, s))
  <2> HIDE DEF h
  <2> QED BY <1>2, <1>3, <1>4
<1> QED BY <1>5 DEF Typed, IsRuntime

\* A runtime a cell runs on.
LEMMA RanTyped ==
    ASSUME NEW rt, Typed(rt), NEW c \in Ids
    PROVE  Typed(RunCell(rt, c))
<1> DEFINE h == rt.hash
           ran == rt.ran
           vals == rt.vals
           more == Append(ran, [cell |-> c, hash |-> h])
<1>1. rt = [hash |-> h, ran |-> ran, vals |-> vals] /\ h \in Names
  BY DEF Typed, IsRecord, IsRuntime
<1>2. ran \in Seq([cell : Ids, hash : Names])
  BY DEF Typed, IsRuntime
<1>3. more \in Seq([cell : Ids, hash : Names])
  <2>1. [cell |-> c, hash |-> h] \in [cell : Ids, hash : Names]
    BY <1>1
  <2> HIDE DEF ran, h
  <2> QED BY <1>2, <2>1
<1>4. RunCell(rt, c) = [rt EXCEPT !.ran = more]
  BY DEF RunCell
<1>5. /\ DOMAIN vals \subseteq 1..MaxCells
      /\ \A i \in DOMAIN vals : vals[i] \in [cell : Ids, hash : Names]
  BY DEF Typed, IsRuntime
<1> HIDE DEF h, ran, vals, more
<1>6. RunCell(rt, c) = [hash |-> h, ran |-> more, vals |-> vals]
  BY <1>1, <1>4
<1> QED BY <1>1, <1>3, <1>5, <1>6 DEF Typed, IsRecord, IsRuntime

\* A runtime that answers for one more cell.
LEMMA AnswerTyped ==
    ASSUME NEW rt, Typed(rt), NEW c \in Ids, NEW n \in 1..MaxCells
    PROVE  Typed(SetIndexedResult(rt, n, c))
<1> DEFINE h == rt.hash
           ran == rt.ran
           vals == rt.vals
           v == [cell |-> c, hash |-> h]
           more == WithValue(vals, n, v)
           Entries == [cell : Ids, hash : Names]
<1>1. rt = [hash |-> h, ran |-> ran, vals |-> vals] /\ h \in Names /\ ran \in Seq(Entries)
      /\ DOMAIN vals \subseteq 1..MaxCells /\ \A i \in DOMAIN vals : vals[i] \in Entries
  BY DEF Typed, IsRecord, IsRuntime
<1>2. v \in Entries
  BY <1>1
<1>3. SetIndexedResult(rt, n, c) = [rt EXCEPT !.vals = more]
  BY DEF SetIndexedResult
<1> HIDE DEF h, ran, vals, v, Entries
<1>4. more = [i \in DOMAIN vals \cup {n} |-> IF i = n THEN v ELSE vals[i]]
  BY DEF WithValue
<1>5. DOMAIN more \subseteq 1..MaxCells /\ \A i \in DOMAIN more : more[i] \in Entries
  BY <1>1, <1>2, <1>4
<1> HIDE DEF more
<1>6. SetIndexedResult(rt, n, c) = [hash |-> h, ran |-> ran, vals |-> more]
  BY <1>1, <1>3
<1> QED BY <1>1, <1>5, <1>6 DEF Typed, IsRecord, IsRuntime, Entries

\* A runtime under another configuration.
LEMMA TransitTyped ==
    ASSUME NEW l, NEW rt, Typed(rt), NEW h \in Names, NEW k
    PROVE  Typed(ApplyTransition(l, rt, h, k))
<1> DEFINE g == rt.hash
           ran == rt.ran
           vals == rt.vals
           stale == ReplaceStale(l, vals, h, k)
           more == IF k = 0 THEN vals ELSE stale
           Entries == [cell : Ids, hash : Names]
<1>1. rt = [hash |-> g, ran |-> ran, vals |-> vals] /\ g \in Names /\ ran \in Seq(Entries)
      /\ DOMAIN vals \subseteq 1..MaxCells /\ \A i \in DOMAIN vals : vals[i] \in Entries
  BY DEF Typed, IsRecord, IsRuntime
<1>2. ApplyTransition(l, rt, h, k) = IF rt.hash = h THEN rt ELSE [rt EXCEPT !.hash = h, !.vals = more]
  BY DEF ApplyTransition
<1>3. \A e \in Entries : [e EXCEPT !.hash = StaleHash] \in Entries
  BY Bounds
<1> HIDE DEF g, ran, vals, Entries
<1>4. DOMAIN stale = DOMAIN vals
      /\ \A i \in DOMAIN vals : stale[i] = vals[i] \/ stale[i] = [vals[i] EXCEPT !.hash = StaleHash]
  BY DEF ReplaceStale
<1> HIDE DEF stale
<1>5. DOMAIN more \subseteq 1..MaxCells /\ \A i \in DOMAIN more : more[i] \in Entries
  BY <1>1, <1>3, <1>4
<1> HIDE DEF more
<1>6. ApplyTransition(l, rt, h, k) = rt
      \/ ApplyTransition(l, rt, h, k) = [hash |-> h, ran |-> ran, vals |-> more]
  BY <1>1, <1>2
<1>7. Typed([hash |-> h, ran |-> ran, vals |-> more])
  BY <1>1, <1>5 DEF Typed, IsRecord, IsRuntime, Entries
<1> QED BY <1>6, <1>7

-----------------------------------------------------------------------------
(* The types of the session, step by step. *)

\* A handle, as a record.
AsRecord(r) ==
    r = [open |-> r.open, pc |-> r.pc, branch |-> r.branch, head |-> r.head, hash |-> r.hash,
         index |-> r.index, dirty |-> r.dirty, rt |-> r.rt, cell |-> r.cell, eval |-> r.eval]

\* What is known before a step, and after it.
TypeReady == SessionInv /\ SessionInv' /\ CellOrderInv /\ CellOrderInv' /\ TypeInv

\* Log and handles after a step.
HandlesTyped == LogTyped(log') /\ \A t \in Handles : HandleTyped(log', st'[t])

\* The log after a step.
LEMMA LogTypedStep ==
    ASSUME TypeReady, \/ log' = log
                      \/ \E f : log' = Append(log, f) /\ Sound(log, f)
    PROVE  LogTyped(log') /\ Known(log) \subseteq Known(log')
<1>1. LogInv(log) /\ LogInv(log') /\ OrderInv(log) /\ LogTyped(log)
  BY DEF TypeReady, SessionInv, CellOrderInv, TypeInv
<1>2. CASE log' = log
  BY <1>1, <1>2
<1>3. CASE \E f : log' = Append(log, f) /\ Sound(log, f)
  <2>1. PICK f : log' = Append(log, f) /\ Sound(log, f)
    BY <1>3
  <2>2. log \in Seq(Facts) /\ log' \in Seq(Facts)
    BY <1>1 DEF LogInv
  <2>3. Len(log) + 1 \in DOMAIN log' /\ log'[Len(log) + 1] = f
    BY <2>1, <2>2
  <2>4. f \in Facts
    BY <2>2, <2>3
  <2> HIDE DEF Sound, LogTyped, OrderInv, LogInv, Known
  <2> QED BY <1>1, <2>1, <2>4, TypedGrows
<1> QED BY <1>2, <1>3

\* A step of one handle, or of none.
LEMMA OneTyped ==
    ASSUME TypeReady, LogTyped(log'), Known(log) \subseteq Known(log'), NEW s \in Handles,
           \/ st' = st
           \/ \E q : st' = [st EXCEPT ![s] = q] /\ HandleTyped(log', q)
    PROVE  HandlesTyped
<1>1. st = [t \in Handles |-> st[t]] /\ \A t \in Handles : HandleTyped(log, st[t])
  BY DEF TypeReady, SessionInv, TypeInv
<1>2. \A t \in Handles : HandleTyped(log', st[t])
  BY <1>1 DEF HandleTyped
<1> HIDE DEF HandleTyped
<1>3. CASE st' = st
  BY <1>2, <1>3 DEF HandlesTyped
<1>4. CASE \E q : st' = [st EXCEPT ![s] = q] /\ HandleTyped(log', q)
  <2>1. PICK q : st' = [st EXCEPT ![s] = q] /\ HandleTyped(log', q)
    BY <1>4
  <2>2. \A t \in Handles : st'[t] = IF t = s THEN q ELSE st[t]
    BY <1>1, <2>1
  <2> QED BY <1>2, <2>1, <2>2 DEF HandlesTyped
<1> QED BY <1>3, <1>4

\* What is known of the handle that takes a step.
LEMMA HandleKnown ==
    ASSUME TypeReady, NEW s \in Handles
    PROVE  LET r == st[s]
           IN  /\ AsRecord(r) /\ IsHandle(r) /\ HandleTyped(log, r)
               /\ r.branch \in Nat /\ r.branch <= MaxBranches /\ r.head \in Ids /\ r.cell \in Ids
               /\ r.open => Created(log, r.branch)
               /\ r.head \in Known(log) /\ r.head <= CellCount(log) /\ CellCount(log) \in Nat
<1> DEFINE r == st[s]
<1>1. /\ LogInv(log) /\ OrderInv(log) /\ LogTyped(log) /\ HandleInv(log, r)
      /\ HandleTyped(log, r)
  BY DEF TypeReady, SessionInv, CellOrderInv, TypeInv
<1>2. /\ AsRecord(r) /\ IsHandle(r) /\ r.branch \in Nat /\ (r.open => Created(log, r.branch))
  BY <1>1 DEF HandleInv, IsHandle, AsRecord, AtHead
<1>3. r.head \in Known(log) /\ r.branch <= MaxBranches /\ r.cell \in Ids
  BY <1>1 DEF HandleTyped
<1>4. r.head \in Ids
  <2> HIDE DEF r
  <2> QED BY <1>1, <1>3, BaseTyped
<1>5. r.head <= CellCount(log) /\ CellCount(log) \in Nat
  <2>0. CellCount(log) \in Nat
    <3>1. log \in Seq(Facts)
      BY <1>1 DEF LogInv
    <3> QED BY <3>1, Positions DEF CellCount
  <2>1. CASE r.head = NoCell
    BY <2>0, <2>1 DEF NoCell
  <2>2. CASE r.head # NoCell
    <3>1. PICK i \in OfType(log, "HeadMoved") : log[i].cell = r.head
      BY <1>3, <2>2 DEF Known, MovedCells
    <3>2. r.head \in 1..CellCount(log)
      BY <1>1, <3>1, KnownCells
    <3> QED BY <2>0, <3>2
  <2> QED BY <2>1, <2>2
<1> HIDE DEF HandleTyped, AsRecord, IsHandle
<1> QED BY <1>1, <1>2, <1>3, <1>4, <1>5

\* A runtime that is rebuilt when it is dirty.
LEMMA CleanedTyped ==
    ASSUME NEW l, NEW s, IsHandle(st[s]), HandleTyped(l, st[s]), Typed(Rebuilt(l, s)),
           Rebuilt(l, s).hash \in Names
    PROVE  LET r == st[s]
               q == Cleaned(l, s)
           IN  /\ AsRecord(q) /\ HandleTyped(l, q) /\ q.branch = r.branch /\ q.head = r.head
               /\ q.index = r.index /\ q.pc = r.pc /\ q.cell = r.cell
<1> DEFINE r == st[s]
           q == Cleaned(l, s)
<1>1. r.dirty \in BOOLEAN
  BY DEF HandleTyped
<1>2. /\ IsHandle(q) /\ Keeps(r, q) /\ q.pc = r.pc /\ q.cell = r.cell /\ q.eval = r.eval
      /\ q.dirty = FALSE /\ q.rt = (IF r.dirty THEN Rebuilt(l, s) ELSE r.rt)
      /\ q.hash = IF r.dirty THEN Rebuilt(l, s).hash ELSE r.hash
  BY <1>1, CleanedFields
<1> HIDE DEF q
<1>3. /\ AsRecord(q) /\ q.branch = r.branch /\ q.head = r.head
      /\ q.index = r.index /\ q.pc = r.pc /\ q.cell = r.cell
  BY <1>2 DEF IsHandle, AsRecord, Keeps
<1>4. Typed(q.rt) /\ q.hash \in Names
  BY <1>2 DEF HandleTyped
<1>5. HandleTyped(l, q)
  <2> HIDE DEF r
  <2> QED BY <1>2, <1>3, <1>4 DEF HandleTyped, r
<1> QED BY <1>3, <1>5 DEF q

\* A runtime to run a cell on.
LEMMA PreparedTyped ==
    ASSUME NEW l, NEW s, IsHandle(st[s]), HandleTyped(l, st[s]), Typed(Rebuilt(l, s)),
           Rebuilt(l, s).hash \in Names
    PROVE  LET r == st[s]
               q == Prepared(l, s)
           IN  /\ AsRecord(q) /\ HandleTyped(l, q) /\ q.branch = r.branch /\ q.head = r.head
               /\ q.index = r.index /\ q.pc = r.pc /\ q.cell = r.cell
<1> DEFINE r == st[s]
           q == Prepared(l, s)
           rt == Rebuilt(l, s)
<1>1. CASE Fresh
  <2>1. q = [r EXCEPT !.eval = rt]
    BY <1>1 DEF Prepared
  <2>2. AsRecord(r) /\ Typed(rt) /\ HandleTyped(l, r)
    BY DEF IsHandle, AsRecord
  <2> HIDE DEF q, r, rt
  <2>3. q = [open |-> r.open, pc |-> r.pc, branch |-> r.branch, head |-> r.head, hash |-> r.hash,
             index |-> r.index, dirty |-> r.dirty, rt |-> r.rt, cell |-> r.cell, eval |-> rt]
    BY <2>1, <2>2 DEF AsRecord
  <2>4. /\ AsRecord(q) /\ q.branch = r.branch /\ q.head = r.head /\ q.index = r.index
        /\ q.pc = r.pc /\ q.cell = r.cell /\ q.hash = r.hash /\ q.dirty = r.dirty /\ q.rt = r.rt
        /\ q.eval = rt
    BY <2>3 DEF AsRecord
  <2>5. HandleTyped(l, q)
    BY <2>2, <2>4 DEF HandleTyped
  <2> QED BY <2>4, <2>5 DEF q, r
<1>2. CASE ~Fresh
  <2>1. q = Cleaned(l, s)
    BY <1>2 DEF Prepared
  <2> HIDE DEF q
  <2> QED BY <2>1, CleanedTyped DEF q
<1> QED BY <1>1, <1>2

\* The first append: the cell gets a number larger than every head.
LEMMA CheckTyped ==
    ASSUME TypeReady, NEW s \in Handles, NEW k \in Kinds, SubmitCheck(s, k)
    PROVE  HandlesTyped
<1> DEFINE r == st[s]
           c == NextCell
           f == CellChecked(r.branch, c, k)
           l == Append(log, f)
           p == Prepared(l, s)
           q == [p EXCEPT !.pc = "eval", !.cell = c]
<1>1. /\ c <= MaxCells /\ c = CellCount(log) + 1
      /\ \/ log' = log /\ st' = st
         \/ log' = l /\ st' = st
         \/ log' = l /\ st' = [st EXCEPT ![s] = q]
  BY DEF SubmitCheck, NextCell, CellCount
<1>2. /\ AsRecord(r) /\ IsHandle(r) /\ HandleTyped(log, r)
      /\ r.branch \in Nat /\ r.branch <= MaxBranches
      /\ r.head \in Ids /\ r.head <= CellCount(log) /\ CellCount(log) \in Nat
  BY HandleKnown
<1>3. f.type = "CellChecked" /\ f.cell = c /\ f.branch = r.branch
  BY DEF CellChecked
<1>4. q = [p EXCEPT !.pc = "eval", !.cell = c]
  OBVIOUS
<1>5. MaxCells \in Nat /\ c \in Ids /\ r.head < c
  <2>1. MaxCells \in Nat
    BY Bounds
  <2> HIDE DEF c, r
  <2> QED BY <1>1, <1>2, <2>1, Bounds
<1> HIDE DEF c, f, p, q
<1>6. Sound(log, f)
  BY <1>1, <1>2, <1>3 DEF Sound
<1>7. LogTyped(log') /\ Known(log) \subseteq Known(log')
  <2>1. log' = log \/ log' = Append(log, f)
    BY <1>1
  <2> HIDE DEF r
  <2> QED BY <1>6, <2>1, LogTypedStep
<1>8. HandleTyped(log', r)
  <2> HIDE DEF r
  <2> QED BY <1>2, <1>7 DEF HandleTyped
<1>9. CASE log' = l /\ st' = [st EXCEPT ![s] = q]
  <2>1. LogInv(l) /\ OrderInv(l) /\ LogTyped(l) /\ HandleTyped(l, r)
    BY <1>7, <1>8, <1>9 DEF TypeReady, SessionInv, CellOrderInv
  <2> HIDE DEF l
  <2>2. Typed(Rebuilt(l, s)) /\ Rebuilt(l, s).hash \in Names
    BY <2>1, RebuiltTyped
  <2>3. /\ AsRecord(p) /\ HandleTyped(l, p) /\ p.branch = r.branch /\ p.head = r.head
        /\ p.index = r.index /\ p.pc = r.pc /\ p.cell = r.cell
    BY <1>2, <2>1, <2>2, PreparedTyped DEF p
  <2> HIDE DEF r
  <2>4. q = [open |-> p.open, pc |-> "eval", branch |-> p.branch, head |-> p.head, hash |-> p.hash,
             index |-> p.index, dirty |-> p.dirty, rt |-> p.rt, cell |-> c, eval |-> p.eval]
    BY <1>4, <2>3 DEF AsRecord
  <2>5. /\ q.pc = "eval" /\ q.branch = p.branch /\ q.head = p.head /\ q.hash = p.hash
        /\ q.index = p.index /\ q.dirty = p.dirty /\ q.rt = p.rt /\ q.cell = c /\ q.eval = p.eval
    BY <2>4
  <2>6. HandleTyped(l, q)
    BY <1>5, <2>3, <2>5 DEF HandleTyped
  <2>7. st' = [st EXCEPT ![s] = q] /\ HandleTyped(log', q)
    BY <1>9, <2>6
  <2> QED BY <1>7, <2>7, OneTyped
<1>10. CASE st' = st
  BY <1>7, <1>10, OneTyped
<1> QED BY <1>1, <1>9, <1>10

\* The end of a submit.
LEMMA FailTyped ==
    ASSUME TypeReady, NEW s \in Handles, NEW r, AsRecord(r), HandleTyped(log, r), FailSubmit(s, r)
    PROVE  HandlesTyped
<1> DEFINE d == r.dirty \/ ~Fresh
           p == [r EXCEPT !.dirty = d]
           none == NoRuntime
           q == Idle(p)
           f == CellFailed(r.branch, r.head)
<1>1. st' = [st EXCEPT ![s] = q] /\ (log' = log \/ log' = Append(log, f))
  BY Zenon DEF FailSubmit
<1>2. q = [p EXCEPT !.pc = "idle", !.cell = NoCell, !.eval = none] /\ p = [r EXCEPT !.dirty = d]
      /\ d \in BOOLEAN
  BY DEF Idle, HandleTyped
<1>3. f.type = "CellFailed" /\ f.cell = NoCell /\ f.branch = r.branch
  BY DEF CellFailed
<1>4. Typed(none)
  BY NoneTyped
<1> HIDE DEF d, p, none, q, f
<1>5. Sound(log, f)
  <2>1. r.branch <= MaxBranches /\ NoCell <= MaxCells
    BY Bounds DEF HandleTyped, NoCell
  <2> QED BY <1>3, <2>1 DEF Sound
<1>6. LogTyped(log') /\ Known(log) \subseteq Known(log')
  BY <1>1, <1>5, LogTypedStep
<1>7. p = [open |-> r.open, pc |-> r.pc, branch |-> r.branch, head |-> r.head, hash |-> r.hash,
           index |-> r.index, dirty |-> d, rt |-> r.rt, cell |-> r.cell, eval |-> r.eval]
  BY <1>2 DEF AsRecord
<1>8. q = [open |-> r.open, pc |-> "idle", branch |-> r.branch, head |-> r.head, hash |-> r.hash,
           index |-> r.index, dirty |-> d, rt |-> r.rt, cell |-> NoCell, eval |-> none]
  BY <1>2, <1>7
<1>9. /\ q.pc = "idle" /\ q.branch = r.branch /\ q.head = r.head /\ q.hash = r.hash
      /\ q.index = r.index /\ q.dirty = d /\ q.rt = r.rt /\ q.cell = NoCell /\ q.eval = none
  BY <1>8
<1>10. HandleTyped(log', q)
  BY <1>2, <1>4, <1>6, <1>9, Bounds DEF HandleTyped
<1> QED BY <1>1, <1>6, <1>10, OneTyped

\* The second append.
LEMMA EvalTyped ==
    ASSUME TypeReady, NEW s \in Handles, SubmitEval(s)
    PROVE  HandlesTyped
<1> DEFINE r == st[s]
           c == r.cell
           ranE == RunCell(r.eval, c)
           ranR == RunCell(r.rt, c)
           p == IF Fresh THEN [r EXCEPT !.eval = ranE] ELSE [r EXCEPT !.rt = ranR]
           q == [p EXCEPT !.pc = "commit"]
           f == CellEvaluated(p.branch, c)
<1>1. /\ r.pc = "eval"
      /\ \/ FailSubmit(s, p)
         \/ log' = Append(log, f) /\ st' = [st EXCEPT ![s] = q]
  BY DEF SubmitEval
<1>2. AsRecord(r) /\ HandleTyped(log, r) /\ c \in Ids
  BY HandleKnown
<1>3. Typed(ranE) /\ Typed(ranR)
  <2>1. Typed(r.eval) /\ Typed(r.rt)
    BY <1>2 DEF HandleTyped
  <2> HIDE DEF r, c
  <2> QED BY <1>2, <2>1, RanTyped
<1>4. /\ p = (IF Fresh THEN [r EXCEPT !.eval = ranE] ELSE [r EXCEPT !.rt = ranR])
      /\ q = [p EXCEPT !.pc = "commit"]
  BY Zenon
<1>5. f.type = "CellEvaluated" /\ f.cell = c /\ f.branch = p.branch
  BY DEF CellEvaluated
<1>6. c <= MaxCells /\ c = r.cell
  BY <1>2, Bounds
<1> HIDE DEF r, c, ranE, ranR, p, q, f
<1>7. p = [open |-> r.open, pc |-> r.pc, branch |-> r.branch, head |-> r.head, hash |-> r.hash,
           index |-> r.index, dirty |-> r.dirty, rt |-> IF Fresh THEN r.rt ELSE ranR,
           cell |-> r.cell, eval |-> IF Fresh THEN ranE ELSE r.eval]
  <2>1. CASE Fresh
    <3>1. p = [r EXCEPT !.eval = ranE]
      BY <1>4, <2>1
    <3> QED BY <1>2, <2>1, <3>1 DEF AsRecord
  <2>2. CASE ~Fresh
    <3>1. p = [r EXCEPT !.rt = ranR]
      BY <1>4, <2>2
    <3> QED BY <1>2, <2>2, <3>1 DEF AsRecord
  <2> QED BY <2>1, <2>2
<1>8. /\ AsRecord(p) /\ p.pc = r.pc /\ p.branch = r.branch /\ p.head = r.head /\ p.hash = r.hash
      /\ p.index = r.index /\ p.dirty = r.dirty /\ p.cell = r.cell
      /\ p.rt = (IF Fresh THEN r.rt ELSE ranR) /\ p.eval = (IF Fresh THEN ranE ELSE r.eval)
  BY <1>7 DEF AsRecord
<1>9. Typed(p.rt) /\ Typed(p.eval)
  BY <1>2, <1>3, <1>8 DEF HandleTyped
<1>10. HandleTyped(log, p)
  BY <1>2, <1>8, <1>9 DEF HandleTyped
<1>11. CASE FailSubmit(s, p)
  BY <1>8, <1>10, <1>11, FailTyped
<1>12. CASE log' = Append(log, f) /\ st' = [st EXCEPT ![s] = q]
  <2>1. Sound(log, f)
    BY <1>5, <1>6, <1>10 DEF Sound, HandleTyped
  <2>2. LogTyped(log') /\ Known(log) \subseteq Known(log')
    BY <1>12, <2>1, LogTypedStep
  <2>3. q = [open |-> p.open, pc |-> "commit", branch |-> p.branch, head |-> p.head,
             hash |-> p.hash, index |-> p.index, dirty |-> p.dirty, rt |-> p.rt,
             cell |-> p.cell, eval |-> p.eval]
    BY <1>4, <1>8 DEF AsRecord
  <2>4. /\ q.pc = "commit" /\ q.branch = p.branch /\ q.head = p.head /\ q.hash = p.hash
        /\ q.index = p.index /\ q.dirty = p.dirty /\ q.rt = p.rt /\ q.cell = p.cell
        /\ q.eval = p.eval
    BY <2>3
  <2>5. p.head < p.cell
    BY <1>1, <1>8, <1>10 DEF HandleTyped, r
  <2>6. HandleTyped(log', q)
    BY <1>10, <2>2, <2>4, <2>5 DEF HandleTyped
  <2> QED BY <1>12, <2>2, <2>6, OneTyped
<1> QED BY <1>1, <1>11, <1>12

\* The third append.
LEMMA CommitTyped ==
    ASSUME TypeReady, NEW s \in Handles, SubmitCommit(s)
    PROVE  HandlesTyped
<1> DEFINE r == st[s]
           q == [r EXCEPT !.pc = "move"]
           f == CellCommitted(r.branch, r.cell)
<1>1. /\ r.pc = "commit"
      /\ \/ FailSubmit(s, r)
         \/ log' = Append(log, f) /\ st' = [st EXCEPT ![s] = q]
  BY DEF SubmitCommit
<1>2. AsRecord(r) /\ HandleTyped(log, r) /\ r.cell \in Ids /\ r.branch <= MaxBranches
  BY HandleKnown
<1>3. r.cell = CellCount(log) /\ OfCell(log, "CellCommitted", r.cell) = {}
  BY <1>1 DEF TypeReady, SessionInv, HandleInv, CellOrderInv
<1>4. f.type = "CellCommitted" /\ f.cell = r.cell /\ f.branch = r.branch
  BY DEF CellCommitted
<1>5. q = [r EXCEPT !.pc = "move"]
  OBVIOUS
<1>6. r.head < r.cell
  BY <1>1, <1>2 DEF HandleTyped
<1> HIDE DEF r, q, f
<1>7. CASE FailSubmit(s, r)
  BY <1>2, <1>7, FailTyped
<1>8. CASE log' = Append(log, f) /\ st' = [st EXCEPT ![s] = q]
  <2>1. Sound(log, f)
    BY <1>2, <1>3, <1>4, Bounds DEF Sound
  <2>2. LogTyped(log') /\ Known(log) \subseteq Known(log')
    BY <1>8, <2>1, LogTypedStep
  <2>3. q = [open |-> r.open, pc |-> "move", branch |-> r.branch, head |-> r.head,
             hash |-> r.hash, index |-> r.index, dirty |-> r.dirty, rt |-> r.rt,
             cell |-> r.cell, eval |-> r.eval]
    BY <1>2, <1>5 DEF AsRecord
  <2>4. /\ q.pc = "move" /\ q.branch = r.branch /\ q.head = r.head /\ q.hash = r.hash
        /\ q.index = r.index /\ q.dirty = r.dirty /\ q.rt = r.rt /\ q.cell = r.cell
        /\ q.eval = r.eval
    BY <2>3
  <2>5. HandleTyped(log', q)
    BY <1>2, <1>6, <2>2, <2>4 DEF HandleTyped
  <2> QED BY <1>8, <2>2, <2>5, OneTyped
<1> QED BY <1>1, <1>7, <1>8

\* The last append: the index stays within the number of the new head.
LEMMA MoveTyped ==
    ASSUME TypeReady, NEW s \in Handles, SubmitMove(s)
    PROVE  HandlesTyped
<1> DEFINE z == st[s]
           c == z.cell
           rt == IF Fresh THEN z.eval ELSE z.rt
           hash == IF Fresh THEN rt.hash ELSE z.hash
           r == [z EXCEPT !.head = c, !.dirty = FALSE, !.rt = rt, !.hash = hash]
           index == r.index + 1
           set == SetIndexedResult(rt, z.index + 1, c)
           e == [r EXCEPT !.dirty = TRUE]
           o == [r EXCEPT !.index = index, !.rt = set]
           ie == Idle(e)
           io == Idle(o)
           none == NoRuntime
           f == HeadMoved(z.branch, z.head, c)
<1>1. /\ z.pc = "move"
      /\ \/ FailSubmit(s, z)
         \/ log' = Append(log, f) /\ st' = [st EXCEPT ![s] = ie]
         \/ log' = Append(log, f) /\ st' = [st EXCEPT ![s] = io]
  BY DEF SubmitMove
<1>2. AsRecord(z) /\ HandleTyped(log, z) /\ c \in Ids /\ z.branch <= MaxBranches /\ z.head \in Ids
  BY HandleKnown
<1>3. /\ r = [z EXCEPT !.head = c, !.dirty = FALSE, !.rt = rt, !.hash = hash]
      /\ e = [r EXCEPT !.dirty = TRUE] /\ o = [r EXCEPT !.index = index, !.rt = set]
      /\ ie = [e EXCEPT !.pc = "idle", !.cell = NoCell, !.eval = none]
      /\ io = [o EXCEPT !.pc = "idle", !.cell = NoCell, !.eval = none]
  BY Zenon DEF Idle
<1>4. f.type = "HeadMoved" /\ f.cell = c /\ f.branch = z.branch
  BY DEF HeadMoved
<1>5. Typed(rt) /\ hash \in Names /\ Typed(none)
  <2>1. Typed(z.rt) /\ Typed(z.eval) /\ z.hash \in Names
    BY <1>2 DEF HandleTyped
  <2>2. Typed(rt)
    BY <2>1
  <2>3. hash \in Names
    BY <2>1, <2>2 DEF Typed, IsRuntime
  <2> QED BY <2>2, <2>3, NoneTyped
<1>6. /\ z.index \in Nat /\ c \in Nat /\ z.index <= c /\ z.index + 1 <= c
      /\ z.index + 1 \in 1..MaxCells /\ c <= MaxCells
  <2>1. z.index \in Nat /\ z.index <= z.head /\ z.head < c
    BY <1>1, <1>2 DEF HandleTyped
  <2>2. MaxCells \in Nat /\ Ids = 0..MaxCells
    BY Bounds
  <2> HIDE DEF z, c
  <2> QED BY <1>2, <2>1, <2>2
<1>7. Typed(set)
  <2> HIDE DEF z, c, rt
  <2> QED BY <1>2, <1>5, <1>6, AnswerTyped
<1>8. index = r.index + 1
  OBVIOUS
<1> HIDE DEF z, c, rt, hash, r, index, set, e, o, ie, io, none, f
<1>9. CASE FailSubmit(s, z)
  BY <1>2, <1>9, FailTyped DEF z
<1>10. CASE /\ log' = Append(log, f)
            /\ st' = [st EXCEPT ![s] = ie] \/ st' = [st EXCEPT ![s] = io]
  <2>1. Sound(log, f)
    BY <1>2, <1>4, <1>6 DEF Sound
  <2>2. LogTyped(log') /\ Known(log) \subseteq Known(log')
    BY <1>10, <2>1, LogTypedStep
  <2>3. c \in Known(log')
    <3>1. log \in Seq(Facts) /\ log' \in Seq(Facts)
      BY DEF TypeReady, SessionInv, LogInv
    <3>2. Len(log) + 1 \in DOMAIN log' /\ log'[Len(log) + 1] = f
      BY <1>10, <3>1
    <3> QED BY <1>4, <3>2 DEF Known, MovedCells, OfType
  <2>4. r = [open |-> z.open, pc |-> z.pc, branch |-> z.branch, head |-> c,
             hash |-> hash, index |-> z.index, dirty |-> FALSE, rt |-> rt,
             cell |-> z.cell, eval |-> z.eval]
    BY <1>2, <1>3 DEF AsRecord
  <2>5. e = [open |-> z.open, pc |-> z.pc, branch |-> z.branch, head |-> c,
             hash |-> hash, index |-> z.index, dirty |-> TRUE, rt |-> rt,
             cell |-> z.cell, eval |-> z.eval]
    BY <1>3, <2>4
  <2>6. o = [open |-> z.open, pc |-> z.pc, branch |-> z.branch, head |-> c,
             hash |-> hash, index |-> index, dirty |-> FALSE, rt |-> set,
             cell |-> z.cell, eval |-> z.eval]
    BY <1>3, <2>4
  <2>7. ie = [open |-> z.open, pc |-> "idle", branch |-> z.branch, head |-> c,
              hash |-> hash, index |-> z.index, dirty |-> TRUE, rt |-> rt,
              cell |-> NoCell, eval |-> none]
    BY <1>3, <2>5
  <2>8. io = [open |-> z.open, pc |-> "idle", branch |-> z.branch, head |-> c,
              hash |-> hash, index |-> index, dirty |-> FALSE, rt |-> set,
              cell |-> NoCell, eval |-> none]
    BY <1>3, <2>6
  <2>9. index = z.index + 1
    BY <1>8, <2>4
  <2>10. HandleTyped(log', ie)
    <3>1. /\ ie.pc = "idle" /\ ie.branch = z.branch /\ ie.head = c /\ ie.hash = hash
          /\ ie.index = z.index /\ ie.dirty = TRUE /\ ie.rt = rt /\ ie.cell = NoCell
          /\ ie.eval = none
      BY <2>7
    <3> QED BY <1>2, <1>5, <1>6, <2>3, <3>1, Bounds DEF HandleTyped
  <2>11. HandleTyped(log', io)
    <3>1. /\ io.pc = "idle" /\ io.branch = z.branch /\ io.head = c /\ io.hash = hash
          /\ io.index = z.index + 1 /\ io.dirty = FALSE /\ io.rt = set /\ io.cell = NoCell
          /\ io.eval = none
      BY <2>8, <2>9
    <3>2. io.index \in Nat /\ io.index <= io.head
      BY <1>6, <3>1
    <3>3. io.dirty \in BOOLEAN /\ io.branch <= MaxBranches /\ io.cell \in Ids /\ io.head \in Known(log')
      BY <1>2, <2>3, <3>1, Bounds
    <3>4. io.hash \in Names /\ Typed(io.rt) /\ Typed(io.eval)
      BY <1>5, <1>7, <3>1
    <3> HIDE DEF Typed
    <3> QED BY <3>1, <3>2, <3>3, <3>4 DEF HandleTyped
  <2> QED BY <1>10, <2>2, <2>10, <2>11, OneTyped
<1> QED BY <1>1, <1>9, <1>10

\* A handle that was just loaded.
LEMMA InstallTyped ==
    ASSUME NEW l, NEW b, b <= MaxBranches, NEW h \in Known(l), NEW rt, Typed(rt),
           NEW n \in Nat, n <= h
    PROVE  HandleTyped(l, Install(b, h, rt, n))
<1> DEFINE r == Install(b, h, rt, n)
           hash == rt.hash
           none == NoRuntime
<1>1. r = [[open |-> FALSE, pc |-> "idle", branch |-> NoBranch, head |-> NoCell,
            hash |-> "none", index |-> 0, dirty |-> FALSE, rt |-> none,
            cell |-> NoCell, eval |-> none]
           EXCEPT !.open = TRUE, !.branch = b, !.head = h, !.hash = hash,
                  !.index = n, !.rt = rt]
  BY Zenon DEF Install, Closed
<1>2. hash \in Names /\ Typed(none)
  BY NoneTyped DEF Typed, IsRuntime
<1> HIDE DEF r, hash, none
<1>3. r = [open |-> TRUE, pc |-> "idle", branch |-> b, head |-> h, hash |-> hash,
           index |-> n, dirty |-> FALSE, rt |-> rt, cell |-> NoCell, eval |-> none]
  BY <1>1
<1>4. /\ r.pc = "idle" /\ r.branch = b /\ r.head = h /\ r.hash = hash
      /\ r.index = n /\ r.dirty = FALSE /\ r.rt = rt /\ r.cell = NoCell /\ r.eval = none
  BY <1>3
<1>5. HandleTyped(l, r)
  BY <1>2, <1>4, Bounds DEF HandleTyped
<1> QED BY <1>5 DEF r

\* A handle at a cell whose plan was replayed.
LEMMA LoadedTyped ==
    ASSUME LogInv(log), OrderInv(log), LogTyped(log), NEW c \in MovedCells(log),
           NEW b, b <= MaxBranches, NEW l, Known(log) \subseteq Known(l)
    PROVE  HandleTyped(l, Loaded(b, c))
<1> DEFINE plan == LoadReplayPlan(log, c)
           rt == Replay(log, plan)
           n == Len(plan.steps)
<1>1. Loaded(b, c) = Install(b, c, rt, n)
  BY Zenon DEF Loaded, LoadedFrom
<1>2. plan.steps = Lineage(log, c) /\ c # NoCell /\ c \in Known(log)
  BY PlanShape DEF LogTyped, Known
<1>3. rt = Base(log, c)
  BY <1>2 DEF Base
<1>4. Typed(Base(log, c)) /\ Len(Lineage(log, c)) \in Nat /\ Len(Lineage(log, c)) <= c
  BY <1>2, BaseTyped
<1>5. Typed(rt) /\ n \in Nat /\ n <= c
  BY <1>2, <1>3, <1>4
<1> HIDE DEF plan, rt, n
<1>6. HandleTyped(l, Install(b, c, rt, n))
  BY <1>2, <1>5, InstallTyped
<1> QED BY <1>1, <1>6

\* A configuration in force is one of the configurations.
LEMMA HashTyped ==
    ASSUME NEW l, LogInv(l), BasisInv(l), NEW at \in SUBSET OfType(l, "RuntimeTransitioned")
    PROVE  LatestHash(l, at) \in Hashes
<1> DEFINE S == OfType(l, "RuntimeAttached")
<1>1. l \in Seq(Facts) /\ S # {}
  BY DEF LogInv, BasisInv
<1>2. /\ S \in SUBSET Nat /\ S \in SUBSET DOMAIN l /\ \A i \in DOMAIN l : l[i] \in Facts
      /\ DOMAIN l \in SUBSET Nat /\ \A X \in SUBSET DOMAIN l : IsFiniteSet(X)
  BY <1>1, Positions
<1>3. \A i \in DOMAIN l : l[i].type \in {"RuntimeAttached", "RuntimeTransitioned"} =>
         l[i].hash \in Hashes
  BY <1>2 DEF Facts
<1>4. Min(S) \in S
  BY <1>1, <1>2, MinProperties
<1>5. at \in SUBSET DOMAIN l /\ \A i \in at : l[i].type = "RuntimeTransitioned"
  BY DEF OfType
<1>6. at # {} => Max(at) \in at
  BY <1>2, <1>5, FiniteMaxProperties
<1>7. Min(S) \in DOMAIN l /\ l[Min(S)].type = "RuntimeAttached"
  BY <1>4 DEF OfType
<1>8. AttachedHash(l) \in Hashes
  BY <1>3, <1>7 DEF AttachedHash
<1>9. at # {} => l[Max(at)].hash \in Hashes
  BY <1>3, <1>5, <1>6
<1> QED BY <1>8, <1>9 DEF LatestHash

\* A handle is restored to a head, on the branch it was committed on.
LEMMA RestoreTyped ==
    ASSUME TypeReady, NEW s \in Handles, NEW c \in 1..MaxCells, Restore(s, c)
    PROVE  HandlesTyped
<1> DEFINE b == branchForCell(log, c)
           f == RestoreCompleted(c, NoBranch)
           q == Loaded(b, c)
<1>1. /\ c \in MovedCells(log)
      /\ \/ log' = log /\ st' = st
         \/ log' = Append(log, f) /\ st' = [st EXCEPT ![s] = q]
  BY DEF Restore, Replayable
<1>2. LogInv(log) /\ OrderInv(log) /\ LogTyped(log)
  BY DEF TypeReady, SessionInv, CellOrderInv, TypeInv
<1>3. b <= MaxBranches
  BY <1>1, <1>2, MovedPlace, CreatedBound
<1>4. f.type = "RestoreCompleted" /\ f.cell = c /\ f.branch = NoBranch
  BY DEF RestoreCompleted
<1>5. NoBranch <= MaxBranches /\ c <= MaxCells
  BY Bounds DEF NoBranch
<1>6. q = Loaded(b, c)
  OBVIOUS
<1> HIDE DEF b, f, q
<1>7. Sound(log, f)
  BY <1>4, <1>5 DEF Sound
<1>8. LogTyped(log') /\ Known(log) \subseteq Known(log')
  BY <1>1, <1>7, LogTypedStep
<1>9. HandleTyped(log', q)
  BY <1>1, <1>2, <1>3, <1>6, <1>8, LoadedTyped
<1> QED BY <1>1, <1>8, <1>9, OneTyped

\* A fork appends twice, and either append may be the last one.
LEMMA ForkTyped ==
    ASSUME TypeReady, NEW s \in Handles, NEW c \in 1..MaxCells, Fork(s, c)
    PROVE  HandlesTyped
<1> DEFINE b == NextBranch
           f == BranchCreated(b, c)
           g == RestoreCompleted(c, b)
           m == Append(log, f)
           q == Loaded(b, c)
<1>1. /\ c \in MovedCells(log) /\ b <= MaxBranches
      /\ \/ log' = log /\ st' = st
         \/ log' = m /\ st' = st
         \/ log' = Append(m, g) /\ st' = [st EXCEPT ![s] = q]
  BY DEF Fork, Replayable
<1>2. LogInv(log) /\ OrderInv(log) /\ LogTyped(log) /\ log \in Seq(Facts) /\ LogInv(log')
  BY DEF TypeReady, SessionInv, CellOrderInv, TypeInv, LogInv
<1>3. f \in Facts /\ g \in Facts /\ LogInv(m)
  BY <1>1, <1>2, ForkFacts
<1>4. /\ f.type = "BranchCreated" /\ f.cell = c /\ f.branch = b
      /\ g.type = "RestoreCompleted" /\ g.cell = c /\ g.branch = NoBranch
  BY DEF BranchCreated, RestoreCompleted
<1>5. NoBranch <= MaxBranches /\ c <= MaxCells
  BY Bounds DEF NoBranch
<1>6. q = Loaded(b, c) /\ m = Append(log, f)
  OBVIOUS
<1> HIDE DEF b, f, g, q, m
<1>7. Sound(log, f) /\ Sound(m, g)
  BY <1>1, <1>4, <1>5 DEF Sound
<1>8. LogTyped(m) /\ Known(log) \subseteq Known(m)
  BY <1>2, <1>3, <1>6, <1>7, TypedGrows
<1>9. OrderInv(m)
  BY <1>2, <1>3, <1>4, <1>6, OtherOrder
<1>10. CASE log' = log /\ st' = st
  BY <1>2, <1>10, OneTyped
<1>11. CASE log' = m /\ st' = st
  BY <1>8, <1>11, OneTyped
<1>12. CASE log' = Append(m, g) /\ st' = [st EXCEPT ![s] = q]
  <2>1. LogTyped(log') /\ Known(m) \subseteq Known(log')
    BY <1>2, <1>3, <1>7, <1>8, <1>9, <1>12, TypedGrows
  <2>2. Known(log) \subseteq Known(log')
    BY <1>8, <2>1
  <2>3. HandleTyped(log', q)
    BY <1>1, <1>2, <1>6, <2>2, LoadedTyped
  <2> QED BY <1>12, <2>1, <2>2, <2>3, OneTyped
<1> QED BY <1>1, <1>10, <1>11, <1>12

\* Opening at the durable cursor.
LEMMA OpenTyped ==
    ASSUME TypeReady, NEW s \in Handles, Open(s)
    PROVE  HandlesTyped
<1> DEFINE cur == LoadSessionState(log)
           b == cur.branch
           h == cur.head
           rt == NewRuntime(cur.hash)
           q == IF h = NoCell THEN Install(b, NoCell, rt, 0) ELSE Loaded(b, h)
<1>1. log' = log /\ st' = [st EXCEPT ![s] = q]
  BY DEF Open
<1>2. LogInv(log) /\ OrderInv(log) /\ LogTyped(log) /\ BasisInv(log)
  BY DEF TypeReady, SessionInv, CellOrderInv, TypeInv, LogTyped
<1>3. Created(log, b) /\ (h = NoCell \/ h \in MovedCells(log))
  BY <1>2, CursorAtHead, CursorCell DEF AtHead
<1>4. b <= MaxBranches
  BY <1>2, <1>3, CreatedBound
<1>5. cur.hash \in Names
  <2>1. \E x, y : cur = StateAt(log, x, y)
    BY DEF LoadSessionState
  <2>2. PICK x, y : cur = StateAt(log, x, y)
    BY <2>1
  <2> HIDE DEF cur
  <2> DEFINE at == IF y # NoCell THEN visibleTransitions(log, x, y)
                   ELSE {i \in OnBranch(log, "RuntimeTransitioned", x) : log[i].cell = NoCell}
  <2>3. at \in SUBSET OfType(log, "RuntimeTransitioned")
    BY DEF visibleTransitions, VisibleOn, OnBranch
  <2>4. cur.hash = LatestHash(log, at)
    BY <2>2 DEF StateAt, loadActiveRuntime
  <2> HIDE DEF at
  <2>5. cur.hash \in Hashes
    BY <1>2, <2>3, <2>4, HashTyped
  <2> QED BY <2>5, Bounds
<1>6. Typed(rt)
  BY <1>5, NewTyped
<1>7. q = IF h = NoCell THEN Install(b, NoCell, rt, 0) ELSE Loaded(b, h)
  OBVIOUS
<1> HIDE DEF b, h, rt, q
<1>8. HandleTyped(log, q)
  <2>1. CASE h = NoCell
    <3>1. NoCell \in Known(log) /\ 0 \in Nat /\ 0 <= NoCell
      BY DEF Known, NoCell
    <3>2. HandleTyped(log, Install(b, NoCell, rt, 0))
      BY <1>4, <1>6, <3>1, InstallTyped
    <3> QED BY <1>7, <2>1, <3>2
  <2>2. CASE h # NoCell
    BY <1>2, <1>3, <1>4, <1>7, <2>2, LoadedTyped
  <2> QED BY <2>1, <2>2
<1>9. HandleTyped(log', q) /\ LogTyped(log') /\ Known(log) \subseteq Known(log')
  BY <1>1, <1>2, <1>8
<1> QED BY <1>1, <1>9, OneTyped

\* A transition is recorded at the head of its handle.
LEMMA TransitionTyped ==
    ASSUME TypeReady, NEW s \in Handles, NEW h \in Hashes, Transition(s, h)
    PROVE  HandlesTyped
<1> DEFINE r == st[s]
           p == Cleaned(log, s)
           new == ApplyTransition(log, p.rt, h, p.index)
           d == [p EXCEPT !.rt = new, !.dirty = TRUE]
           t == [p EXCEPT !.rt = new, !.hash = h]
           f == RuntimeTransitioned(p.branch, p.head, h)
<1>1. /\ Writable(s) /\ r.open
      /\ \/ st' = [st EXCEPT ![s] = p] /\ log' = log
         \/ st' = [st EXCEPT ![s] = d] /\ log' = log
         \/ st' = [st EXCEPT ![s] = t] /\ log' = Append(log, f)
  BY DEF Transition
<1>2. /\ IsHandle(r) /\ HandleTyped(log, r) /\ r.head \in Known(log) /\ r.head \in Ids
      /\ r.branch <= MaxBranches /\ Created(log, r.branch)
  BY <1>1, HandleKnown
<1>3. LogInv(log) /\ OrderInv(log) /\ LogTyped(log)
  BY DEF TypeReady, SessionInv, CellOrderInv, TypeInv
<1>4. Typed(Rebuilt(log, s)) /\ Rebuilt(log, s).hash \in Names
  BY <1>2, <1>3, RebuiltTyped
<1>5. /\ AsRecord(p) /\ HandleTyped(log, p) /\ p.branch = r.branch /\ p.head = r.head
      /\ p.index = r.index /\ p.pc = r.pc /\ p.cell = r.cell
  BY <1>2, <1>4, CleanedTyped
<1>6. h \in Names
  BY Bounds
<1>7. Typed(new)
  <2>1. Typed(p.rt)
    BY <1>5 DEF HandleTyped
  <2> HIDE DEF p
  <2> QED BY <1>6, <2>1, TransitTyped
<1>8. f.type = "RuntimeTransitioned" /\ f.cell = p.head /\ f.branch = p.branch
  BY DEF RuntimeTransitioned
<1>9. LoadHead(log, r.branch) \in {NoCell, r.head}
  BY <1>1 DEF Writable
<1>10. d = [p EXCEPT !.rt = new, !.dirty = TRUE] /\ t = [p EXCEPT !.rt = new, !.hash = h]
  OBVIOUS
<1> HIDE DEF r, p, new, d, t, f
<1>11. Sound(log, f)
  <2>1. r.head <= MaxCells
    BY <1>2, Bounds
  <2> QED BY <1>2, <1>5, <1>8, <1>9, <2>1 DEF Sound
<1>12. LogTyped(log') /\ Known(log) \subseteq Known(log')
  BY <1>1, <1>11, LogTypedStep
<1>13. /\ d = [open |-> p.open, pc |-> p.pc, branch |-> p.branch, head |-> p.head,
               hash |-> p.hash, index |-> p.index, dirty |-> TRUE, rt |-> new,
               cell |-> p.cell, eval |-> p.eval]
       /\ t = [open |-> p.open, pc |-> p.pc, branch |-> p.branch, head |-> p.head,
               hash |-> h, index |-> p.index, dirty |-> p.dirty, rt |-> new,
               cell |-> p.cell, eval |-> p.eval]
  BY <1>5, <1>10 DEF AsRecord
<1>14. /\ d.pc = p.pc /\ d.branch = p.branch /\ d.head = p.head /\ d.hash = p.hash
       /\ d.index = p.index /\ d.dirty = TRUE /\ d.rt = new /\ d.cell = p.cell /\ d.eval = p.eval
  BY <1>13
<1>15. /\ t.pc = p.pc /\ t.branch = p.branch /\ t.head = p.head /\ t.hash = h
       /\ t.index = p.index /\ t.dirty = p.dirty /\ t.rt = new /\ t.cell = p.cell
       /\ t.eval = p.eval
  BY <1>13
<1>16. HandleTyped(log', p)
  BY <1>5, <1>12 DEF HandleTyped
<1>17. HandleTyped(log', d)
  BY <1>7, <1>14, <1>16 DEF HandleTyped
<1>18. HandleTyped(log', t)
  BY <1>6, <1>7, <1>15, <1>16 DEF HandleTyped
<1> QED BY <1>1, <1>12, <1>16, <1>17, <1>18, OneTyped

\* A closed handle.
LEMMA ClosedTyped ==
    ASSUME NEW l
    PROVE  HandleTyped(l, Closed)
<1> DEFINE none == NoRuntime
<1>1. Typed(none)
  BY NoneTyped
<1>2. NoBranch <= MaxBranches /\ NoCell \in Known(l) /\ 0 <= NoCell
  BY Bounds DEF NoBranch, Known, NoCell
<1> HIDE DEF none
<1> DEFINE r == [open |-> FALSE, pc |-> "idle", branch |-> NoBranch, head |-> NoCell,
                 hash |-> "none", index |-> 0, dirty |-> FALSE, rt |-> none,
                 cell |-> NoCell, eval |-> none]
<1>3. Closed = r
  BY DEF Closed, none
<1>4. /\ r.pc = "idle" /\ r.branch = NoBranch /\ r.head = NoCell /\ r.hash = "none"
      /\ r.index = 0 /\ r.dirty = FALSE /\ r.rt = none /\ r.cell = NoCell /\ r.eval = none
  OBVIOUS
<1> HIDE DEF r
<1>5. r.index \in Nat /\ r.index <= r.head /\ r.dirty \in BOOLEAN
  <2>1. r.index \in Nat
    BY <1>4
  <2>2. r.index <= r.head
    BY <1>4 DEF NoCell
  <2>3. r.dirty \in BOOLEAN
    BY <1>4, Zenon
  <2> QED BY <2>1, <2>2, <2>3
<1>6. /\ r.branch <= MaxBranches /\ r.cell \in Ids /\ r.head \in Known(l) /\ r.hash \in Names
      /\ Typed(r.rt) /\ Typed(r.eval)
  BY <1>1, <1>2, <1>4, Bounds
<1>7. HandleTyped(l, r)
  BY <1>4, <1>5, <1>6 DEF HandleTyped
<1> QED BY <1>3, <1>7

\* Close, or the end of the process.
LEMMA StopTyped ==
    ASSUME TypeReady, NEW s \in Handles, Stop(s)
    PROVE  HandlesTyped
<1>1. log' = log /\ st' = [st EXCEPT ![s] = Closed] /\ LogTyped(log)
  BY DEF Stop, TypeReady, TypeInv
<1>2. HandleTyped(log', Closed)
  BY ClosedTyped
<1>3. LogTyped(log') /\ Known(log) \subseteq Known(log')
  BY <1>1
<1> QED BY <1>1, <1>2, <1>3, OneTyped

\* What else a step changes.
RestTyped ==
    /\ faults' \in 0..MaxFaults
    /\ born' = [c \in 1..MaxCells |-> born'[c]]
    /\ \A c \in 1..MaxCells : born'[c] \in Seq([cell : Ids, hash : Names])
    /\ verdict' \in [1..MaxCells -> {"none", "ok", "failed", "error", "lost"}]

\* A verdict, and a failed append.
VerdictNext ==
    \/ verdict' = verdict
    \/ \E c : \E v \in {"failed", "error", "ok", "lost"} : verdict' = [verdict EXCEPT ![c] = v]
FaultsNext == faults' = faults \/ (faults < MaxFaults /\ faults' = faults + 1)
BornNext ==
    \/ born' = born
    \/ \E s \in Handles : \E rt \in {st[s].eval, st[s].rt} : \E c :
          born' = [born EXCEPT ![c] = rt.ran]

\* Verdicts, faults and what was run keep their types.
LEMMA RestStep ==
    ASSUME TypeInv, VerdictNext, FaultsNext, BornNext
    PROVE  RestTyped
<1> DEFINE Verdicts == {"none", "ok", "failed", "error", "lost"}
           Rans == Seq([cell : Ids, hash : Names])
           I == 1..MaxCells
<1>1. /\ faults \in 0..MaxFaults /\ born = [c \in I |-> born[c]] /\ \A c \in I : born[c] \in Rans
      /\ verdict \in [I -> Verdicts] /\ \A s \in Handles : HandleTyped(log, st[s])
  BY DEF TypeInv
<1> HIDE DEF I
<1>2. faults' \in 0..MaxFaults
  <2>1. MaxFaults \in Nat
    BY Bounds
  <2> QED BY <1>1, <2>1 DEF FaultsNext
<1>3. verdict' \in [I -> Verdicts]
  <2>1. CASE verdict' = verdict
    BY <1>1, <2>1
  <2>2. CASE \E c : \E v \in {"failed", "error", "ok", "lost"} : verdict' = [verdict EXCEPT ![c] = v]
    BY <1>1, <2>2
  <2> QED BY <2>1, <2>2 DEF VerdictNext
<1>4. born' = [c \in I |-> born'[c]] /\ \A c \in I : born'[c] \in Rans
  <2> HIDE DEF Rans
  <2>1. CASE born' = born
    BY <1>1, <2>1
  <2>2. CASE \E s \in Handles : \E rt \in {st[s].eval, st[s].rt} : \E c :
                born' = [born EXCEPT ![c] = rt.ran]
    <3>0. PICK s \in Handles : \E rt \in {st[s].eval, st[s].rt} : \E c :
                                  born' = [born EXCEPT ![c] = rt.ran]
      BY <2>2
    <3>1. PICK rt \in {st[s].eval, st[s].rt} : \E c : born' = [born EXCEPT ![c] = rt.ran]
      BY <3>0
    <3>2. Typed(rt)
      BY <1>1, <3>1 DEF HandleTyped
    <3>3. rt.ran \in Rans
      BY <3>2 DEF Typed, IsRuntime, Rans
    <3> DEFINE x == rt.ran
    <3>4. x \in Rans /\ \E c : born' = [born EXCEPT ![c] = x]
      BY <3>1, <3>3
    <3> HIDE DEF x
    <3> QED BY <1>1, <3>4
  <2> QED BY <2>1, <2>2 DEF BornNext
<1> QED BY <1>2, <1>3, <1>4 DEF RestTyped, I

\* A submit that ends.
LEMMA FailRest ==
    ASSUME NEW s, NEW r, FailSubmit(s, r)
    PROVE  VerdictNext /\ BornNext
BY DEF FailSubmit, VerdictNext, BornNext

\* An append that fails.
LEMMA FaultRest ==
    ASSUME NEW t, Fault(t)
    PROVE  FaultsNext
BY DEF Fault, FaultsNext

\* Every step of a handle.
LEMMA StepTyped ==
    ASSUME TypeReady, [Next]_vars
    PROVE  HandlesTyped /\ RestTyped
<1>0. TypeInv
  BY DEF TypeReady
<1>1. CASE vars' = vars
  BY <1>0, <1>1 DEF vars, TypeInv, HandlesTyped, RestTyped
<1>2. CASE Next
  <2>1. PICK s \in Handles :
           \/ \E k \in Kinds : SubmitCheck(s, k)
           \/ SubmitEval(s) \/ SubmitCommit(s) \/ SubmitMove(s)
           \/ \E c \in 1..MaxCells : Restore(s, c) \/ Fork(s, c)
           \/ Open(s) \/ Stop(s)
           \/ \E h \in Hashes : Transition(s, h)
    BY <1>2 DEF Next
  <2>2. CASE \E k \in Kinds : SubmitCheck(s, k)
    <3>1. PICK k \in Kinds : SubmitCheck(s, k)
      BY <2>2
    <3>2. VerdictNext /\ FaultsNext /\ BornNext
      BY <3>1, FaultRest DEF SubmitCheck, VerdictNext, FaultsNext, BornNext
    <3> QED BY <1>0, <3>1, <3>2, CheckTyped, RestStep
  <2>3. CASE SubmitEval(s)
    <3>1. VerdictNext /\ FaultsNext /\ BornNext
      BY <2>3, FaultRest, FailRest DEF SubmitEval, VerdictNext, FaultsNext, BornNext
    <3> QED BY <1>0, <2>3, <3>1, EvalTyped, RestStep
  <2>4. CASE SubmitCommit(s)
    <3>1. VerdictNext /\ FaultsNext /\ BornNext
      BY <2>4, FaultRest, FailRest DEF SubmitCommit, VerdictNext, FaultsNext, BornNext
    <3> QED BY <1>0, <2>4, <3>1, CommitTyped, RestStep
  <2>5. CASE SubmitMove(s)
    <3> DEFINE rt == IF Fresh THEN st[s].eval ELSE st[s].rt
               c == st[s].cell
    <3>1. \/ Fault("HeadMoved") /\ FailSubmit(s, st[s])
          \/ /\ \E v \in {"error", "ok"} : verdict' = [verdict EXCEPT ![c] = v]
             /\ born' = [born EXCEPT ![c] = rt.ran] /\ faults' = faults
      BY <2>5 DEF SubmitMove
    <3>2. rt \in {st[s].eval, st[s].rt}
      OBVIOUS
    <3> HIDE DEF rt, c
    <3>3. VerdictNext /\ FaultsNext /\ BornNext
      BY <3>1, <3>2, FaultRest, FailRest DEF VerdictNext, FaultsNext, BornNext
    <3> QED BY <1>0, <2>5, <3>3, MoveTyped, RestStep
  <2>6. CASE \E c \in 1..MaxCells : Restore(s, c) \/ Fork(s, c)
    <3>1. PICK c \in 1..MaxCells : Restore(s, c) \/ Fork(s, c)
      BY <2>6
    <3>2. VerdictNext /\ FaultsNext /\ BornNext
      BY <3>1, FaultRest DEF Restore, Fork, VerdictNext, FaultsNext, BornNext
    <3> QED BY <1>0, <3>1, <3>2, RestoreTyped, ForkTyped, RestStep
  <2>7. CASE Open(s)
    <3>1. VerdictNext /\ FaultsNext /\ BornNext
      BY <2>7 DEF Open, VerdictNext, FaultsNext, BornNext
    <3> QED BY <1>0, <2>7, <3>1, OpenTyped, RestStep
  <2>8. CASE Stop(s)
    <3>1. VerdictNext /\ FaultsNext /\ BornNext
      BY <2>8 DEF Stop, VerdictNext, FaultsNext, BornNext
    <3> QED BY <1>0, <2>8, <3>1, StopTyped, RestStep
  <2>9. CASE \E h \in Hashes : Transition(s, h)
    <3>1. PICK h \in Hashes : Transition(s, h)
      BY <2>9
    <3>2. VerdictNext /\ FaultsNext /\ BornNext
      BY <3>1, FaultRest DEF Transition, VerdictNext, FaultsNext, BornNext
    <3> QED BY <1>0, <3>1, <3>2, TransitionTyped, RestStep
  <2> QED BY <2>1, <2>2, <2>3, <2>4, <2>5, <2>6, <2>7, <2>8, <2>9
<1> QED BY <1>1, <1>2

\* The first log is typed, and so is the handle of StartSession.
LEMMA InitTyped ==
    ASSUME Init
    PROVE  TypeInv
<1>1. /\ log = <<SessionStarted, RuntimeAttached(InitialHash)>> /\ faults = 0
      /\ born = [c \in 1..MaxCells |-> <<>>] /\ verdict = [c \in 1..MaxCells |-> "none"]
  BY DEF Init
<1> DEFINE q == Install(RootBranch, NoCell, NewRuntime(InitialHash), 0)
<1>2. PICK s \in Handles : st = [h \in Handles |-> IF h = s THEN q ELSE Closed]
  BY DEF Init
<1>3. /\ DOMAIN log = {1, 2} /\ log[1] = SessionStarted /\ log[2] = RuntimeAttached(InitialHash)
  BY <1>1
<1>4. BasisInv(log)
  BY InitRun DEF RunInv
<1>5. StartsFirst(log)
  BY <1>3 DEF StartsFirst, OfType, SessionStarted, RuntimeAttached
<1>6. Bounded(log)
  <2>1. \A i \in DOMAIN log : log[i].cell = NoCell /\ log[i].branch \in {RootBranch, NoBranch}
    BY <1>3 DEF SessionStarted, RuntimeAttached
  <2> QED BY <2>1, Bounds DEF Bounded, NoCell, NoBranch
<1>7. HandleTyped(log, q)
  <2>1. Typed(NewRuntime(InitialHash))
    BY SessionAssumption, Bounds, NewTyped
  <2>2. NoCell \in Known(log) /\ 0 \in Nat /\ 0 <= NoCell /\ RootBranch <= MaxBranches
    BY Bounds DEF Known, NoCell
  <2> QED BY <2>1, <2>2, InstallTyped
<1> HIDE DEF q
<1>8. \A t \in Handles : HandleTyped(log, st[t])
  <2>1. HandleTyped(log, Closed)
    BY ClosedTyped
  <2> HIDE DEF HandleTyped
  <2> QED BY <1>2, <1>7, <2>1
<1>9. /\ faults \in 0..MaxFaults /\ born = [c \in 1..MaxCells |-> born[c]]
      /\ verdict \in [1..MaxCells -> {"none", "ok", "failed", "error", "lost"}]
  BY <1>1, Bounds
<1>10. \A c \in 1..MaxCells : born[c] \in Seq([cell : Ids, hash : Names])
  <2> DEFINE Entries == [cell : Ids, hash : Names]
             e == <<>>
  <2>1. e \in Seq(Entries)
    OBVIOUS
  <2>2. \A c \in 1..MaxCells : born[c] = e
    BY <1>1
  <2> HIDE DEF e, Entries
  <2> QED BY <2>1, <2>2 DEF Entries
<1> QED BY <1>4, <1>5, <1>6, <1>8, <1>9, <1>10 DEF TypeInv, LogTyped

\* The types of the session and what they rest on: numbers rise along every lineage and
\* from a fork to the cells of its branch, and the index of a handle never passes its
\* head's number. For any number of handles, cells, branches and transitions, with any
\* append failing and handles stopping at any moment.
THEOREM TypesInvariant == Spec => []TypeInv
<1>1. Init => TypeInv
  BY InitTyped
<1>2. TypeReady /\ [Next]_vars => TypeInv'
  <2> SUFFICES ASSUME TypeReady, [Next]_vars PROVE TypeInv'
    OBVIOUS
  <2>1. HandlesTyped /\ RestTyped
    BY StepTyped
  <2> QED BY <2>1 DEF HandlesTyped, RestTyped, TypeInv
<1>3. SessionInv /\ SessionInv' /\ CellOrderInv /\ CellOrderInv' /\ TypeInv => TypeReady
  BY DEF TypeReady
<1>4. Spec => []SessionInv
  BY SessionInvariant
<1>5. Spec => []CellOrderInv
  BY CellOrderInvariant
<1> HIDE DEF TypeReady
<1> QED BY <1>1, <1>2, <1>3, <1>4, <1>5, PTL DEF Spec

\* TypeOK: no cell, branch, index or $val slot ever passes the bounds the actions
\* guard, whatever fails and wherever handles fall behind each other.
THEOREM SessionType == Spec => []TypeOK
<1>1. SessionInv /\ CellOrderInv /\ TypeInv => TypeOK
  <2> SUFFICES ASSUME SessionInv, CellOrderInv, TypeInv PROVE TypeOK
    OBVIOUS
  <2>1. /\ LogInv(log) /\ OrderInv(log) /\ LogTyped(log) /\ log \in Seq(Facts)
        /\ \A s \in Handles : HandleInv(log, st[s]) /\ HandleTyped(log, st[s])
    BY DEF SessionInv, CellOrderInv, TypeInv, LogInv
  <2>2. MaxCells \in Nat /\ MaxBranches \in Nat /\ Ids = 0..MaxCells
    BY Bounds
  <2>3. \A i \in DOMAIN log : log[i].cell \in Ids /\ log[i].branch \in 0..MaxBranches
    <3> TAKE i \in DOMAIN log
    <3>1. log[i].cell \in Nat /\ log[i].branch \in Nat
      BY <2>1, Positions
    <3>2. log[i].cell <= MaxCells /\ log[i].branch <= MaxBranches
      BY <2>1 DEF LogTyped, Bounded
    <3> QED BY <2>2, <3>1, <3>2
  <2>4. ASSUME NEW s \in Handles
        PROVE  /\ st[s].open \in BOOLEAN /\ st[s].dirty \in BOOLEAN
               /\ st[s].pc \in {"idle", "eval", "commit", "move"}
               /\ st[s].branch \in 0..MaxBranches
               /\ {st[s].head, st[s].cell, st[s].index} \subseteq Ids
               /\ st[s].hash \in Names
               /\ IsRuntime(st[s].rt) /\ IsRuntime(st[s].eval)
    <3> DEFINE r == st[s]
    <3>1. HandleInv(log, r) /\ HandleTyped(log, r)
      BY <2>1
    <3> HIDE DEF r
    <3>2. /\ r.open \in BOOLEAN /\ r.pc \in {"idle", "eval", "commit", "move"} /\ r.branch \in Nat
      BY <3>1 DEF HandleInv, IsHandle
    <3>3. /\ r.dirty \in BOOLEAN /\ r.branch <= MaxBranches /\ r.cell \in Ids
          /\ r.head \in Known(log) /\ r.index \in Nat /\ r.index <= r.head
          /\ r.hash \in Names /\ Typed(r.rt) /\ Typed(r.eval)
      BY <3>1 DEF HandleTyped
    <3>4. r.head \in Ids
      BY <2>1, <3>3, BaseTyped
    <3>5. r.index \in Ids /\ r.branch \in 0..MaxBranches
      BY <2>2, <3>2, <3>3, <3>4
    <3>6. IsRuntime(r.rt) /\ IsRuntime(r.eval)
      BY <3>3 DEF Typed
    <3>7. {r.head, r.cell, r.index} \subseteq Ids
      BY <3>3, <3>4, <3>5
    <3> QED BY <3>2, <3>3, <3>5, <3>6, <3>7 DEF r
  <2>5. /\ faults \in 0..MaxFaults
        /\ \A c \in 1..MaxCells : born[c] \in Seq([cell : Ids, hash : Names])
        /\ verdict \in [1..MaxCells -> {"none", "ok", "failed", "error", "lost"}]
    BY DEF TypeInv
  <2> QED BY <2>3, <2>4, <2>5 DEF TypeOK
<1> QED BY <1>1, TypesInvariant, SessionInvariant, CellOrderInvariant, PTL
===============================================================================
