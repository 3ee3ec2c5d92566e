-------------------------- MODULE EffectReplayProofs --------------------------
(***************************************************************************)
(* What a replayed call is given.                                          *)
(*                                                                         *)
(* In a prompt program a call is never given the record of another cell,   *)
(* and never comes too late for one.  Replay knows nothing of the program: *)
(* it counts.  So the proof has to show that SubmitCell, which looks only  *)
(* at a pending count, commits a cell when every call of its program has   *)
(* been made, once (PhaseInv), and that replay makes each of them at most  *)
(* once: then a call that is still to be made finds a record that has not  *)
(* been handed out.  Programs that are not prompt break this.              *)
(*                                                                         *)
(* In a program that works in stages a call is given its own record, calls *)
(* settle in the order of the journal and no record is left over.  For     *)
(* that, the live run has to leave its records in an order that the replay *)
(* comes to follow (StagedInv).                                            *)
(***************************************************************************)
EXTENDS EffectReplay, OrderedProofs

CallsOf(k) == {c \in Calls : prog.cell[c] = k}

\* The calls made so far: in the live run, or in the replay.
Made == {c \in Calls : got[c] # None}
Called == IF pc = "live" THEN UNION {Range(linked[k]) : k \in CellNumbers} ELSE Made

Job == [kind : {"program", "flush"}, cell : CellNumbers]

ReplayType ==
    /\ prog \in Programs /\ cell \in CellNumbers
    /\ pc \in {"live", "begin", "wait", "replayed", "failed"}
    /\ ready \in Seq(Calls) /\ open \in SUBSET Calls
    /\ linked \in [CellNumbers -> Seq(Calls)] /\ journal \in Seq(Calls)
    /\ queue \in Seq(Job) /\ settlers \in Seq(Calls)
    /\ calling \in Calls \cup {None} /\ step \in CellNumbers \cup {None}
    /\ nextStart \in [CellNumbers -> Nat] /\ pending \in [CellNumbers -> SUBSET Calls]
    /\ got \in [Calls -> Nat] /\ settled \in Seq(Calls)

\* LinkedEffects lists calls of its own cell, once each.
LinkedInv ==
    \A k \in CellNumbers :
       IsInjective(linked[k]) /\ Range(linked[k]) \subseteq CallsOf(k)

\* What is about to be called belongs to the cell that runs and has not been called
\* yet; everything called, or about to be, waited for calls that have settled.
CalledInv ==
    /\ IsInjective(ready)
    /\ Range(ready) \subseteq CallsOf(cell) \ Called
    /\ Range(settled) \subseteq Called
    /\ \A d \in Called \cup Range(ready) : prog.after[d] \subseteq Range(settled)

\* How far SubmitCell is: what it has read tells what has been called and has
\* settled. Between WaitPendingAsync and FlushLoop a last call may be made, unless
\* the program is not prompt.
PhaseInv ==
    /\ phase \in Phases
    /\ phase = "begun" => linked[cell] = <<>> /\ ready = <<>> /\ open = {}
    /\ phase \notin {"begun", "program"} => Roots(cell) \subseteq Called
    /\ phase \in {"barrier", "recheck", "drain", "over", "ended"} =>
          Roots(cell) \cup (CallsOf(cell) \cap prog.awaited) \subseteq Range(settled)
    /\ phase \in {"recheck", "drain", "over", "ended"} => CallsOf(cell) \subseteq Called
    /\ phase \in {"drain", "over", "ended"} => open = {}

\* In the live run nothing that may be called is forgotten once the program runs.
LiveInv ==
    pc = "live" =>
       /\ open = Called \ Range(settled) /\ open \subseteq CallsOf(cell)
       /\ phase # "begun" => \A d \in CallsOf(cell) :
             prog.after[d] \subseteq Range(settled) => d \in Called \cup Range(ready)
       /\ \A k \in CellNumbers : /\ k < cell => Range(linked[k]) = CallsOf(k)
                                 /\ k > cell => linked[k] = <<>>
       /\ PhaseInv
       /\ Made = {} /\ queue = <<>> /\ settlers = <<>> /\ calling = None
       /\ nextStart = [k \in CellNumbers |-> 0]
       /\ pending = [k \in CellNumbers |-> {}]

\* In the replay the records of a cell are handed out in order, one per call.
HandedInv ==
    pc # "live" =>
       /\ \A k \in CellNumbers :
             /\ Range(linked[k]) = CallsOf(k)
             /\ nextStart[k] = Cardinality(Made \cap CallsOf(k))
       /\ \A c \in Made :
             \E i \in DOMAIN linked[prog.cell[c]] :
                i <= nextStart[prog.cell[c]] /\ got[c] = linked[prog.cell[c]][i]
       /\ \A c, d \in Made : got[c] = got[d] => c = d

\* Cells are replayed one after the other; the program of a cell runs once, before
\* any of its calls.
StageInv ==
    pc # "live" =>
       /\ \A c \in Calls : /\ prog.cell[c] < cell => c \in Made
                           /\ prog.cell[c] > cell => c \notin Made
       /\ pc = "begin" => CallsOf(cell) \cap Made = {} /\ ready = <<>>
       /\ pc = "wait" => step = cell
       /\ pc = "replayed" => CallsOf(cell) \subseteq Made
       /\ \A j \in DOMAIN queue : queue[j].kind = "program" =>
             /\ queue[j].cell = cell /\ pc = "wait" /\ ready = <<>>
             /\ CallsOf(cell) \cap Made = {}
             /\ \A i \in DOMAIN queue : queue[i].kind = "program" => i = j

\* A call whose record is to be delivered is in one place, and has not settled.
OwedInv ==
    pc # "live" =>
       /\ IsInjective(settlers)
       /\ Range(settlers) \subseteq Made \ Range(settled)
       /\ calling # None => /\ calling \in Made \ (Range(settled) \cup Range(settlers))
                            /\ got[calling] \in Range(journal)
       /\ \A k \in CellNumbers :
             /\ pending[k] \subseteq Made \ (Range(settled) \cup Range(settlers) \cup {calling})
             /\ \A c \in pending[k] : got[c] \in Range(journal)
             /\ \A j \in CellNumbers : j # k => pending[j] \cap pending[k] = {}

ReplayInv ==
    ReplayType /\ LinkedInv /\ CalledInv /\ LiveInv /\ HandedInv /\ StageInv /\ OwedInv

-----------------------------------------------------------------------------
(* Programs, and what a settlement lets them do. *)

\* What the programs to run have in common.
LEMMA ProgramFacts ==
    ASSUME prog \in Programs
    PROVE  /\ Calls \in SUBSET Nat /\ IsFiniteSet(Calls) /\ None \notin Calls
           /\ \A c \in Calls : /\ prog.cell[c] \in CellNumbers
                               /\ prog.after[c] \in SUBSET Calls
                               /\ c \notin prog.after[c]
                               /\ \A d \in prog.after[c] : /\ d \in Calls /\ d < c
                                                           /\ prog.cell[d] = prog.cell[c]
           /\ \A S \in SUBSET Calls : IsFiniteSet(S) /\ S \in SUBSET Nat
<1>1. Calls \in SUBSET Nat /\ IsFiniteSet(Calls) /\ None \notin Calls
  BY ReplayAssumption DEF None
<1>2. prog \in ProgramType
      /\ \A c \in Calls : \A d \in prog.after[c] : d < c /\ prog.cell[d] = prog.cell[c]
  BY ReplayAssumption
<1>3. prog.cell \in [Calls -> CellNumbers] /\ prog.after \in [Calls -> SUBSET Calls]
  BY <1>2 DEF ProgramType, CellNumbers
<1>4. \A S \in SUBSET Calls : IsFiniteSet(S) /\ S \in SUBSET Nat
  BY <1>1, FS_Subset
<1>5. ASSUME NEW c \in Calls PROVE c \notin prog.after[c]
  <2>1. c \in Nat /\ ~(c < c)
    BY <1>1
  <2> QED BY <1>2, <2>1
<1> QED BY <1>1, <1>2, <1>3, <1>4, <1>5

\* A set of calls in program order.
LEMMA InProgramOrder ==
    ASSUME prog \in Programs, NEW S \in SUBSET Calls
    PROVE  /\ InOrder(S) \in Seq(Calls) /\ Range(InOrder(S)) = S
           /\ IsInjective(InOrder(S))
<1>1. IsFiniteSet(S) /\ S \in SUBSET Nat
  BY ProgramFacts
<1>2. InOrder(S) \in Seq(S) /\ Range(InOrder(S)) = S /\ IsInjective(InOrder(S))
  BY <1>1, InOrderDistinct
<1> QED BY <1>2

\* No call is among those of a sequence that is empty, and no other.
LEMMA EmptyRange ==
    ASSUME NEW S, NEW s \in Seq(S)
    PROVE  Range(s) = {} <=> s = <<>>
<1>1. s # <<>> => 1 \in DOMAIN s
  OBVIOUS
<1>2. s = <<>> => DOMAIN s = {}
  OBVIOUS
<1> QED BY <1>1, <1>2 DEF Range

\* A settlement continues with calls of the same cell that have not been called:
\* exactly those that were waiting for it.
LEMMA ContinuesFacts ==
    ASSUME ReplayType, CalledInv, NEW c \in Calls, c \notin Range(settled)
    PROVE  /\ Continues(c) \in Seq(Calls) /\ IsInjective(Continues(c))
           /\ Range(Continues(c)) \subseteq
                 CallsOf(prog.cell[c]) \ (Called \cup Range(ready) \cup {c})
           /\ \A d \in Range(Continues(c)) : prog.after[d] \subseteq Range(settled) \cup {c}
           /\ \A d \in Calls :
                 /\ prog.after[d] \subseteq Range(settled) \cup {c}
                 /\ d \notin Range(Continues(c))
                 => prog.after[d] \subseteq Range(settled)
<1> DEFINE D == {d \in Calls : /\ c \in prog.after[d]
                               /\ prog.after[d] \subseteq Range(settled) \cup {c}}
<1>1. prog \in Programs
  BY DEF ReplayType
<1>2. Continues(c) = InOrder(D)
  BY DEF Continues, Continuation
<1>3. D \in SUBSET Calls
  OBVIOUS
<1>4. InOrder(D) \in Seq(Calls) /\ Range(InOrder(D)) = D /\ IsInjective(InOrder(D))
  <2> HIDE DEF D
  <2> QED BY <1>1, <1>3, InProgramOrder
<1>5. ASSUME NEW d \in D
      PROVE  d \in CallsOf(prog.cell[c]) /\ d \notin Called \cup Range(ready) /\ d # c
  BY <1>1, ProgramFacts DEF CallsOf, CalledInv
<1>6. ASSUME NEW d \in Calls, prog.after[d] \subseteq Range(settled) \cup {c}, d \notin D
      PROVE  prog.after[d] \subseteq Range(settled)
  BY <1>6
<1>7. \A d \in D : prog.after[d] \subseteq Range(settled) \cup {c}
  OBVIOUS
<1> HIDE DEF D
<1> QED BY <1>2, <1>4, <1>5, <1>6, <1>7

-----------------------------------------------------------------------------
(* The three ways in which calls and settlements go on. *)

\* A call is made and stays open.
LEMMA CallStep ==
    ASSUME ReplayType, CalledInv, ready # <<>>, NEW c, c = Head(ready),
           UNCHANGED <<prog, cell, settled>>, ready' = Tail(ready),
           Called' = Called \cup {c}
    PROVE  /\ CalledInv' /\ ready' \in Seq(Calls)
           /\ c \in CallsOf(cell) \ Called /\ c \notin Range(settled)
           /\ Range(ready) = Range(ready') \cup {c}
<1>1. /\ c \in Range(ready) /\ c \in Calls /\ ready' \in Seq(Calls)
      /\ Range(ready) = Range(ready') \cup {c}
      /\ IsInjective(ready') /\ c \notin Range(ready')
  BY TailDistinct DEF ReplayType, CalledInv
<1>2. CallsOf(cell)' = CallsOf(cell)
  BY DEF CallsOf
<1> QED BY <1>1, <1>2 DEF CalledInv

\* A call is made and settles at once; its continuation is called before, or after,
\* what was to be called next.
LEMMA CallSettleStep ==
    ASSUME ReplayType, CalledInv, ready # <<>>, NEW c, c = Head(ready),
           UNCHANGED <<prog, cell>>, Settles(c),
           \/ ready' = Continues(c) \o Tail(ready)
           \/ ready' = Tail(ready) \o Continues(c),
           Called' = Called \cup {c}
    PROVE  /\ CalledInv' /\ ready' \in Seq(Calls) /\ settled' \in Seq(Calls)
           /\ c \in CallsOf(cell) \ Called /\ c \notin Range(settled)
           /\ Range(settled') = Range(settled) \cup {c}
           /\ Range(ready') \cup {c} = Range(ready) \cup Range(Continues(c))
<1> DEFINE k == Continues(c)
           t == Tail(ready)
<1>1. /\ c \in Range(ready) /\ c \in Calls /\ t \in Seq(Calls)
      /\ Range(ready) = Range(t) \cup {c}
      /\ IsInjective(t) /\ c \notin Range(t)
  BY TailDistinct DEF ReplayType, CalledInv
<1>2. c \in CallsOf(cell) \ Called /\ c \notin Range(settled) /\ prog.cell[c] = cell
  BY <1>1 DEF CalledInv, CallsOf
<1>3. /\ k \in Seq(Calls) /\ IsInjective(k)
      /\ Range(k) \subseteq CallsOf(cell) \ (Called \cup Range(ready) \cup {c})
      /\ \A d \in Range(k) : prog.after[d] \subseteq Range(settled) \cup {c}
  BY <1>1, <1>2, ContinuesFacts
<1>4. settled' \in Seq(Calls) /\ Range(settled') = Range(settled) \cup {c}
  BY <1>1, AppendDistinct DEF ReplayType, Settles
<1> HIDE DEF k, t
<1>5. /\ ready' \in Seq(Calls) /\ Range(ready') = Range(k) \cup Range(t)
      /\ IsInjective(ready')
  <2>1. Range(k) \cap Range(t) = {}
    BY <1>1, <1>3
  <2>2. /\ k \o t \in Seq(Calls) /\ Range(k \o t) = Range(k) \cup Range(t)
        /\ IsInjective(k \o t)
    BY <1>1, <1>3, <2>1, ConcatDistinct
  <2>3. /\ t \o k \in Seq(Calls) /\ Range(t \o k) = Range(t) \cup Range(k)
        /\ IsInjective(t \o k)
    BY <1>1, <1>3, <2>1, ConcatDistinct
  <2>4. ready' = k \o t \/ ready' = t \o k
    BY DEF k, t
  <2> QED BY <2>2, <2>3, <2>4
<1>6. CallsOf(cell)' = CallsOf(cell)
  BY DEF CallsOf
<1>7. CalledInv'
  <2>1. Range(ready') \subseteq CallsOf(cell) \ Called'
    BY <1>1, <1>3, <1>5 DEF CalledInv
  <2>2. Range(settled') \subseteq Called'
    BY <1>4 DEF CalledInv
  <2>3. ASSUME NEW d \in Called' \cup Range(ready')
        PROVE  prog'.after[d] \subseteq Range(settled')
    <3>1. CASE d \in Range(k)
      BY <1>3, <1>4, <3>1
    <3>2. CASE d \in Called \cup Range(ready)
      BY <1>4, <3>2 DEF CalledInv
    <3> QED BY <1>1, <1>5, <2>3, <3>1, <3>2
  <2> QED BY <1>5, <1>6, <2>1, <2>2, <2>3 DEF CalledInv
<1> QED BY <1>1, <1>2, <1>4, <1>5, <1>7 DEF k

\* A call that was made earlier settles, with nothing else to be called.
LEMMA SettleStep ==
    ASSUME ReplayType, CalledInv, ready = <<>>, NEW c \in Called \cap Calls,
           c \notin Range(settled),
           UNCHANGED <<prog, cell>>, Settles(c), ready' = Continues(c),
           Called' = Called,
           Range(Continues(c)) \subseteq CallsOf(cell)
    PROVE  /\ CalledInv' /\ ready' \in Seq(Calls) /\ settled' \in Seq(Calls)
           /\ Range(settled') = Range(settled) \cup {c}
<1>1. /\ ready' \in Seq(Calls) /\ IsInjective(ready')
      /\ Range(ready') \cap Called = {}
      /\ \A d \in Range(ready') : prog.after[d] \subseteq Range(settled) \cup {c}
  BY ContinuesFacts
<1>2. settled' \in Seq(Calls) /\ Range(settled') = Range(settled) \cup {c}
  BY AppendDistinct DEF ReplayType, Settles
<1>3. CallsOf(cell)' = CallsOf(cell)
  BY DEF CallsOf
<1> QED BY <1>1, <1>2, <1>3 DEF CalledInv

-----------------------------------------------------------------------------
(* The live run. *)

\* What the replay keeps is as it was at the start while the live run goes on.
LEMMA LiveKeepsReplay ==
    ASSUME ReplayType, LiveInv, pc = "live", pc' = "live", UNCHANGED <<prog, replayVars>>
    PROVE  /\ Made' = {} /\ queue' = <<>> /\ settlers' = <<>> /\ calling' = None
           /\ nextStart' = [k \in CellNumbers |-> 0]
           /\ pending' = [k \in CellNumbers |-> {}]
           /\ queue' \in Seq(Job) /\ settlers' \in Seq(Calls)
           /\ calling' \in Calls \cup {None} /\ step' \in CellNumbers \cup {None}
           /\ nextStart' \in [CellNumbers -> Nat]
           /\ pending' \in [CellNumbers -> SUBSET Calls] /\ got' \in [Calls -> Nat]
           /\ HandedInv' /\ StageInv' /\ OwedInv'
BY DEF replayVars, ReplayType, LiveInv, Made, HandedInv, StageInv, OwedInv

\* While a call is to be made, the value is awaited: not all is called.
LEMMA CallPhase ==
    ASSUME ReplayInv, pc = "live", ready # <<>>
    PROVE  phase \in {"program", "pending", "barrier"}
<1>1. ReplayType /\ CalledInv /\ PhaseInv
  BY DEF ReplayInv, LiveInv
<1>2. Head(ready) \in Range(ready)
  BY <1>1, TailDistinct DEF ReplayType, CalledInv
<1>3. Head(ready) \in CallsOf(cell) /\ Head(ready) \notin Called
  BY <1>1, <1>2 DEF CalledInv
<1> QED BY <1>1, <1>3 DEF PhaseInv, Phases

\* So no call comes between two cells.
LEMMA NoLateCall ==
    ASSUME ReplayInv
    PROVE  ~LateCall
BY CallPhase DEF LateCall

\* SubmitCell stands still while calls are made and settle.
LEMMA PhaseStays ==
    ASSUME PhaseInv, phase \in {"program", "pending", "barrier", "recheck"},
           UNCHANGED <<prog, cell, phase>>,
           Called \subseteq Called', Range(settled) \subseteq Range(settled')
    PROVE  PhaseInv'
<1>1. Roots(cell)' = Roots(cell) /\ CallsOf(cell)' = CallsOf(cell)
  BY DEF Roots, CallsOf
<1> QED BY <1>1 DEF PhaseInv

\* EffectStarted is journaled: the call joins the effects of its cell.
LEMMA LiveCallStep ==
    ASSUME ReplayInv, LiveCall
    PROVE  ReplayInv'
<1> DEFINE c == Head(ready)
<1>0. phase \in {"program", "pending", "barrier"} /\ phase' = phase
  BY CallPhase DEF LiveCall
<1>1. /\ ReplayType /\ LinkedInv /\ CalledInv /\ LiveInv /\ PhaseInv
      /\ pc = "live" /\ pc' = "live" /\ ready # <<>>
      /\ linked' = [linked EXCEPT ![cell] = Append(@, c)]
      /\ UNCHANGED <<prog, cell, replayVars>>
  BY <1>0 DEF ReplayInv, LiveInv, LiveCall
<1>2. /\ c \in Range(ready) /\ c \in Calls /\ c \in CallsOf(cell) \ Called
      /\ cell \in CellNumbers /\ linked[cell] \in Seq(Calls)
  BY <1>1, TailDistinct DEF ReplayType, CalledInv
<1> HIDE DEF c
<1>3. Called = UNION {Range(linked[k]) : k \in CellNumbers}
      /\ Called' = UNION {Range(linked'[k]) : k \in CellNumbers}
  BY <1>1 DEF Called
<1>4. c \notin Range(linked[cell])
  BY <1>2, <1>3
<1>5. /\ linked'[cell] \in Seq(Calls) /\ IsInjective(linked'[cell])
      /\ Range(linked'[cell]) = Range(linked[cell]) \cup {c}
      /\ linked' \in [CellNumbers -> Seq(Calls)]
      /\ \A k \in CellNumbers : k # cell => linked'[k] = linked[k]
  <2>1. /\ Append(linked[cell], c) \in Seq(Calls) /\ IsInjective(Append(linked[cell], c))
        /\ Range(Append(linked[cell], c)) = Range(linked[cell]) \cup {c}
    BY <1>1, <1>2, <1>4, AppendDistinct DEF LinkedInv
  <2>2. linked'[cell] = Append(linked[cell], c)
    BY <1>1, <1>2 DEF ReplayType
  <2>3. linked' \in [CellNumbers -> Seq(Calls)]
        /\ \A k \in CellNumbers : k # cell => linked'[k] = linked[k]
    BY <1>1, <2>1 DEF ReplayType
  <2> QED BY <2>1, <2>2, <2>3
<1>6. Called' = Called \cup {c}
  BY <1>2, <1>3, <1>5
<1>7. CallsOf(cell)' = CallsOf(cell) /\ \A k \in CellNumbers : CallsOf(k)' = CallsOf(k)
  BY <1>1 DEF CallsOf
<1>8. LinkedInv'
  BY <1>1, <1>2, <1>5, <1>7 DEF LinkedInv
<1>9. \A k \in CellNumbers : /\ k < cell => Range(linked'[k]) = CallsOf(k)
                             /\ k > cell => linked'[k] = <<>>
  <2> TAKE k \in CellNumbers
  <2>1. k # cell => linked'[k] = linked[k]
    BY <1>5
  <2>2. k < cell \/ k > cell => k # cell
    BY <1>2 DEF CellNumbers
  <2> QED BY <1>1, <2>1, <2>2 DEF LiveInv
<1>10. CASE c \in prog.sync
  <2>1. /\ Settles(c) /\ ready' = Continues(c) \o Tail(ready) /\ open' = open
        /\ (journal' = journal \/ journal' = Append(journal, c))
    BY <1>10 DEF LiveCall, Journal, c
  <2>2. /\ CalledInv' /\ ready' \in Seq(Calls) /\ settled' \in Seq(Calls)
        /\ c \notin Range(settled) /\ Range(settled') = Range(settled) \cup {c}
        /\ Range(ready') \cup {c} = Range(ready) \cup Range(Continues(c))
    BY <1>1, <1>6, <2>1, CallSettleStep DEF c
  <2>3. journal' \in Seq(Calls)
    <3>1. journal \in Seq(Calls)
      BY <1>1 DEF ReplayType
    <3> QED BY <1>2, <2>1, <3>1, AppendDistinct
  <2>4. ReplayType'
    BY <1>1, <1>5, <2>1, <2>2, <2>3, LiveKeepsReplay DEF ReplayType
  <2>5. LiveInv'
    <3>1. open' = Called' \ Range(settled') /\ open' \subseteq CallsOf(cell)
      BY <1>1, <1>2, <1>6, <2>1, <2>2 DEF LiveInv
    <3>2. ASSUME NEW d \in CallsOf(cell), prog.after[d] \subseteq Range(settled')
          PROVE  d \in Called' \cup Range(ready')
      <4>1. d \in Calls
        BY DEF CallsOf
      <4>2. CASE d \in Range(Continues(c))
        BY <1>6, <2>2, <4>2
      <4>3. CASE d \notin Range(Continues(c))
        <5>1. prog.after[d] \subseteq Range(settled)
          BY <1>1, <1>2, <2>2, <3>2, <4>1, <4>3, ContinuesFacts
        <5> QED BY <1>0, <1>1, <1>6, <2>2, <5>1 DEF LiveInv
      <4> QED BY <4>2, <4>3
    <3>3. /\ Made' = {} /\ queue' = <<>> /\ settlers' = <<>> /\ calling' = None
          /\ nextStart' = [k \in CellNumbers |-> 0]
          /\ pending' = [k \in CellNumbers |-> {}]
      BY <1>1, LiveKeepsReplay
    <3>4. PhaseInv'
      BY <1>0, <1>1, <1>6, <2>2, PhaseStays
    <3> QED BY <1>1, <1>7, <1>9, <3>1, <3>2, <3>3, <3>4 DEF LiveInv
  <2> QED BY <1>1, <1>8, <2>2, <2>4, <2>5, LiveKeepsReplay DEF ReplayInv
<1>11. CASE c \notin prog.sync
  <2>1. open' = open \cup {c} /\ ready' = Tail(ready) /\ UNCHANGED <<journal, settled>>
    BY <1>11 DEF LiveCall, c
  <2>2. /\ CalledInv' /\ ready' \in Seq(Calls) /\ c \notin Range(settled)
        /\ Range(ready) = Range(ready') \cup {c}
    BY <1>1, <1>6, <2>1, CallStep DEF c
  <2>3. ReplayType'
    BY <1>1, <1>2, <1>5, <2>1, <2>2, LiveKeepsReplay DEF ReplayType
  <2>4. LiveInv'
    <3>1. open' = Called' \ Range(settled') /\ open' \subseteq CallsOf(cell)
      BY <1>1, <1>2, <1>6, <2>1, <2>2 DEF LiveInv
    <3>2. ASSUME NEW d \in CallsOf(cell), prog.after[d] \subseteq Range(settled')
          PROVE  d \in Called' \cup Range(ready')
      BY <1>0, <1>1, <1>6, <2>1, <2>2, <3>2 DEF LiveInv
    <3>3. /\ Made' = {} /\ queue' = <<>> /\ settlers' = <<>> /\ calling' = None
          /\ nextStart' = [k \in CellNumbers |-> 0]
          /\ pending' = [k \in CellNumbers |-> {}]
      BY <1>1, LiveKeepsReplay
    <3>4. PhaseInv'
      BY <1>0, <1>1, <1>6, <2>1, PhaseStays
    <3> QED BY <1>1, <1>7, <1>9, <3>1, <3>2, <3>3, <3>4 DEF LiveInv
  <2> QED BY <1>1, <1>8, <2>2, <2>3, <2>4, LiveKeepsReplay DEF ReplayInv
<1> QED BY <1>10, <1>11

\* EffectCompleted is journaled, unless the call failed.
LEMMA LiveSettleStep ==
    ASSUME ReplayInv, NEW c \in Calls, LiveSettle(c)
    PROVE  ReplayInv'
<1>1. /\ ReplayType /\ LinkedInv /\ CalledInv /\ LiveInv /\ PhaseInv
      /\ pc = "live" /\ pc' = "live" /\ ready = <<>> /\ ready' = Continues(c)
      /\ c \in open /\ open' = open \ {c} /\ Settles(c)
      /\ (journal' = journal \/ journal' = Append(journal, c))
      /\ UNCHANGED <<prog, cell, phase, linked, replayVars>>
  BY DEF ReplayInv, LiveInv, LiveSettle, Journal
<1>0. phase \in {"program", "pending", "barrier", "recheck"}
  BY <1>1 DEF PhaseInv, Phases
<1>2. c \in Called \cap Calls /\ c \notin Range(settled) /\ Called' = Called
  BY <1>1 DEF LiveInv, Called
<1>3. CallsOf(cell)' = CallsOf(cell) /\ \A k \in CellNumbers : CallsOf(k)' = CallsOf(k)
  BY <1>1 DEF CallsOf
<1>4. prog.cell[c] = cell
  BY <1>1 DEF LiveInv, CallsOf
<1>5. Range(Continues(c)) \subseteq CallsOf(cell)
  BY <1>1, <1>2, <1>4, ContinuesFacts
<1>6. /\ CalledInv' /\ ready' \in Seq(Calls) /\ settled' \in Seq(Calls)
      /\ Range(settled') = Range(settled) \cup {c}
  BY <1>1, <1>2, <1>5, SettleStep
<1>7. journal' \in Seq(Calls)
  <2>1. journal \in Seq(Calls)
    BY <1>1 DEF ReplayType
  <2> QED BY <1>1, <2>1, AppendDistinct
<1>8. ReplayType'
  BY <1>1, <1>6, <1>7, LiveKeepsReplay DEF ReplayType
<1>9. LinkedInv'
  BY <1>1, <1>3 DEF LinkedInv
<1>10. LiveInv'
  <2>1. open' = Called' \ Range(settled') /\ open' \subseteq CallsOf(cell)
    BY <1>1, <1>2, <1>6 DEF LiveInv
  <2>2. ASSUME NEW d \in CallsOf(cell), prog.after[d] \subseteq Range(settled')
        PROVE  d \in Called' \cup Range(ready')
    <3>1. d \in Calls
      BY DEF CallsOf
    <3>2. CASE d \in Range(Continues(c))
      BY <1>1, <3>2
    <3>3. CASE d \notin Range(Continues(c))
      <4>1. prog.after[d] \subseteq Range(settled)
        BY <1>1, <1>2, <1>6, <2>2, <3>1, <3>3, ContinuesFacts
      <4>2. Range(ready) = {}
        BY <1>1, EmptyRange DEF ReplayType
      <4> QED BY <1>0, <1>1, <1>2, <4>1, <4>2 DEF LiveInv
    <3> QED BY <3>2, <3>3
  <2>3. /\ Made' = {} /\ queue' = <<>> /\ settlers' = <<>> /\ calling' = None
        /\ nextStart' = [k \in CellNumbers |-> 0]
        /\ pending' = [k \in CellNumbers |-> {}]
    BY <1>1, LiveKeepsReplay
  <2>4. PhaseInv'
    BY <1>0, <1>1, <1>2, <1>6, PhaseStays
  <2> QED BY <1>1, <1>3, <2>1, <2>2, <2>3, <2>4 DEF LiveInv
<1> QED BY <1>1, <1>6, <1>8, <1>9, <1>10, LiveKeepsReplay DEF ReplayInv

\* A call that has been made is linked by its cell.
LEMMA CalledIsLinked ==
    ASSUME ReplayType, LinkedInv, pc = "live", NEW d \in Called
    PROVE  d \in Calls /\ prog.cell[d] \in CellNumbers /\ d \in Range(linked[prog.cell[d]])
<1>1. PICK k \in CellNumbers : d \in Range(linked[k])
  BY DEF Called
<1>2. d \in CallsOf(k)
  BY <1>1 DEF LinkedInv
<1> QED BY <1>1, <1>2 DEF CallsOf

\* SubmitCell goes on and nothing else happens.
LEMMA GoesStep ==
    ASSUME ReplayInv, NEW from, NEW to, from # "begun", Goes(from, to), PhaseInv'
    PROVE  ReplayInv' /\ pc' = "live"
<1>1. /\ ReplayType /\ LinkedInv /\ CalledInv /\ LiveInv
      /\ pc = "live" /\ pc' = "live" /\ phase # "begun"
      /\ UNCHANGED <<prog, cell, ready, open, linked, journal, replayVars, settled>>
  BY DEF ReplayInv, Goes
<1>2. Called' = Called /\ \A k : CallsOf(k)' = CallsOf(k)
  BY <1>1 DEF Called, CallsOf
<1>3. CallsOf(cell)' = CallsOf(cell)
  BY <1>1 DEF CallsOf
<1>4. ReplayType' /\ LinkedInv' /\ CalledInv'
  <2>1. ReplayType'
    BY <1>1, LiveKeepsReplay DEF ReplayType
  <2> QED BY <1>1, <1>2, <1>3, <2>1 DEF LinkedInv, CalledInv
<1>5. LiveInv'
  <2>1. /\ Made' = {} /\ queue' = <<>> /\ settlers' = <<>> /\ calling' = None
        /\ nextStart' = [k \in CellNumbers |-> 0]
        /\ pending' = [k \in CellNumbers |-> {}]
    BY <1>1, LiveKeepsReplay
  <2>2. open' = Called' \ Range(settled') /\ open' \subseteq CallsOf(cell)'
    BY <1>1, <1>2, <1>3 DEF LiveInv
  <2>3. \A d \in CallsOf(cell) :
           prog.after[d] \subseteq Range(settled) => d \in Called \cup Range(ready)
    BY <1>1 DEF LiveInv
  <2>4. \A k \in CellNumbers : /\ k < cell => Range(linked[k]) = CallsOf(k)
                               /\ k > cell => linked[k] = <<>>
    BY <1>1 DEF LiveInv
  <2> QED BY <1>1, <1>2, <1>3, <2>1, <2>2, <2>3, <2>4 DEF LiveInv
<1> QED BY <1>1, <1>4, <1>5, LiveKeepsReplay DEF ReplayInv

\* The job of the program returns, with its first calls made.
LEMMA LiveReturnsStep ==
    ASSUME ReplayInv, LiveReturns
    PROVE  ReplayInv'
<1>1. /\ ReplayType /\ LiveInv /\ PhaseInv /\ Goes("program", "pending")
      /\ ready = <<>> /\ phase = "program" /\ phase' = "pending" /\ pc = "live"
      /\ UNCHANGED <<prog, cell, ready, open, linked, settled, pc>>
  BY DEF ReplayInv, LiveInv, LiveReturns, Goes
<1>2. Called' = Called /\ Roots(cell)' = Roots(cell) /\ Range(ready) = {}
  BY <1>1, EmptyRange DEF ReplayType, Called, Roots
<1>3. ASSUME NEW d \in Roots(cell) PROVE d \in Called
  <2>1. d \in CallsOf(cell) /\ prog.after[d] \subseteq Range(settled)
    BY DEF Roots, CallsOf
  <2> QED BY <1>1, <1>2, <2>1 DEF LiveInv
<1>4. PhaseInv'
  BY <1>1, <1>2, <1>3 DEF PhaseInv, Phases
<1> QED BY <1>1, <1>4, GoesStep

\* Nothing is pending when all that has been made has settled.
LEMMA NothingPending ==
    ASSUME ReplayInv, pc = "live", Pending = {}
    PROVE  open = {} /\ Called \subseteq Range(settled)
<1>1. ReplayType /\ LinkedInv /\ LiveInv
  BY DEF ReplayInv
<1>2. ASSUME NEW d \in open PROVE FALSE
  <2>1. d \in Called /\ d \in CallsOf(cell)
    BY <1>1 DEF LiveInv
  <2>2. d \in Range(linked[cell])
    BY <1>1, <2>1, CalledIsLinked DEF CallsOf
  <2> QED BY <2>2 DEF Pending
<1> QED BY <1>1, <1>2 DEF LiveInv

\* waitPendingAsync reads 0 after the value is known.
LEMMA WaitPendingAsyncStep ==
    ASSUME ReplayInv, WaitPendingAsync
    PROVE  ReplayInv'
<1>1. /\ LiveInv /\ PhaseInv /\ Goes("pending", "barrier") /\ ValueKnown /\ Pending = {}
      /\ phase = "pending" /\ phase' = "barrier" /\ pc = "live"
      /\ UNCHANGED <<prog, cell, ready, open, linked, settled, pc>>
  BY DEF ReplayInv, LiveInv, WaitPendingAsync, Goes
<1>2. Called' = Called /\ Roots(cell)' = Roots(cell) /\ CallsOf(cell)' = CallsOf(cell)
  BY <1>1 DEF Called, Roots, CallsOf
<1>3. Roots(cell) \subseteq Range(settled)
  BY <1>1, NothingPending DEF PhaseInv
<1>4. CallsOf(cell) \cap prog.awaited \subseteq Range(settled)
  BY <1>1 DEF ValueKnown, CallsOf
<1>5. PhaseInv'
  BY <1>1, <1>2, <1>3, <1>4 DEF PhaseInv, Phases
<1> QED BY <1>1, <1>5, GoesStep

\* The barrier: in a prompt program every call of the cell is made before it, as
\* those it waits for have settled.
LEMMA FlushLoopStep ==
    ASSUME ReplayInv, Prompt, FlushLoop
    PROVE  ReplayInv'
<1>1. /\ ReplayType /\ CalledInv /\ LiveInv /\ PhaseInv /\ Goes("barrier", "recheck")
      /\ ready = <<>> /\ phase = "barrier" /\ phase' = "recheck" /\ pc = "live"
      /\ UNCHANGED <<prog, cell, ready, open, linked, settled, pc>>
  BY DEF ReplayInv, LiveInv, FlushLoop, Goes
<1>2. Called' = Called /\ Roots(cell)' = Roots(cell) /\ CallsOf(cell)' = CallsOf(cell)
      /\ Range(ready) = {}
  BY <1>1, EmptyRange DEF ReplayType, Called, Roots, CallsOf
<1>3. Roots(cell) \cup (CallsOf(cell) \cap prog.awaited) \subseteq Range(settled)
  BY <1>1 DEF PhaseInv
<1>4. ASSUME NEW c \in CallsOf(cell) PROVE c \in Called
  <2>1. CASE c \in prog.awaited
    BY <1>1, <1>3, <2>1 DEF CalledInv
  <2>2. CASE c \notin prog.awaited
    <3>1. c \in Calls /\ prog \in Programs /\ prog.cell[c] = cell
      BY <1>1 DEF ReplayType, CallsOf
    <3>2. ASSUME NEW d \in prog.after[c] PROVE d \in Range(settled)
      <4>1. d \in CallsOf(cell) /\ (d \in prog.awaited \/ prog.after[d] = {})
        BY <2>2, <3>1, ProgramFacts DEF Prompt, CallsOf
      <4> QED BY <1>3, <4>1 DEF Roots, CallsOf
    <3> QED BY <1>1, <1>2, <3>2 DEF LiveInv
  <2> QED BY <2>1, <2>2
<1>5. PhaseInv'
  BY <1>1, <1>2, <1>4 DEF PhaseInv, Phases
<1> QED BY <1>1, <1>5, GoesStep

\* The pending count is read again; then the facts are appended, and the job of
\* setIndexedResult runs.
LEMMA RecheckStep ==
    ASSUME ReplayInv, Recheck \/ Drain \/ SetIndexedResult
    PROVE  ReplayInv'
<1>1. PICK from \in Phases, to \in Phases :
         /\ Goes(from, to)
         /\ \/ from = "recheck" /\ to = "drain" /\ Pending = {}
            \/ from = "recheck" /\ to = "pending"
            \/ from = "drain" /\ to = "over"
            \/ from = "over" /\ to = "ended"
  BY DEF Recheck, Drain, SetIndexedResult, Phases
<1>2. /\ LiveInv /\ PhaseInv /\ phase = from /\ phase' = to /\ pc = "live"
      /\ UNCHANGED <<prog, cell, ready, open, linked, settled, pc>>
  BY <1>1 DEF ReplayInv, LiveInv, Goes
<1>3. Called' = Called /\ Roots(cell)' = Roots(cell) /\ CallsOf(cell)' = CallsOf(cell)
  BY <1>2 DEF Called, Roots, CallsOf
<1>4. to = "drain" => open = {}
  BY <1>1, <1>2, NothingPending
<1>5. PhaseInv'
  BY <1>1, <1>2, <1>3, <1>4 DEF PhaseInv, Phases
<1>6. from # "begun"
  BY <1>1
<1> QED BY <1>1, <1>5, <1>6, GoesStep

\* The program of the cell runs, and is about to make its first calls.
LEMMA LiveProgramStep ==
    ASSUME ReplayInv, LiveProgram
    PROVE  ReplayInv'
<1> DEFINE R == Roots(cell)
<1>1. /\ ReplayType /\ LinkedInv /\ CalledInv /\ LiveInv /\ PhaseInv
      /\ pc = "live" /\ pc' = "live" /\ phase = "begun" /\ phase' = "program"
      /\ ready' = InOrder(R)
      /\ UNCHANGED <<prog, cell, open, linked, journal, replayVars, settled>>
  BY DEF ReplayInv, LiveInv, LiveProgram
<1>2. prog \in Programs /\ cell \in CellNumbers /\ linked[cell] = <<>> /\ open = {}
  BY <1>1 DEF ReplayType, PhaseInv
<1>3. /\ R \in SUBSET Calls /\ R \subseteq CallsOf(cell)
      /\ \A d \in R : prog.after[d] = {}
  BY DEF Roots, CallsOf
<1>4. ready' \in Seq(Calls) /\ Range(ready') = R /\ IsInjective(ready')
  <2> HIDE DEF R
  <2> QED BY <1>1, <1>2, <1>3, InProgramOrder
<1>5. Called' = Called /\ CallsOf(cell)' = CallsOf(cell) /\ \A k : CallsOf(k)' = CallsOf(k)
  BY <1>1 DEF Called, CallsOf
<1>6. CallsOf(cell) \cap Called = {}
  <2> SUFFICES ASSUME NEW d \in CallsOf(cell), d \in Called PROVE FALSE
    OBVIOUS
  <2>1. d \in Range(linked[cell])
    BY <1>1, CalledIsLinked DEF CallsOf
  <2> QED BY <1>2, <2>1, EmptyRange DEF Range
<1>7. ASSUME NEW d \in CallsOf(cell), prog.after[d] \subseteq Range(settled)
      PROVE  d \in R
  <2>1. d \in Calls /\ prog.cell[d] = cell
    BY DEF CallsOf
  <2>2. ASSUME NEW x \in prog.after[d] PROVE FALSE
    <3>1. x \in CallsOf(cell)
      BY <1>2, <2>1, ProgramFacts DEF CallsOf
    <3>2. x \in Called
      BY <1>1, <1>7 DEF CalledInv
    <3> QED BY <1>6, <3>1, <3>2
  <2> QED BY <2>1, <2>2 DEF Roots
<1> HIDE DEF R
<1>8. CalledInv'
  BY <1>1, <1>3, <1>4, <1>5, <1>6 DEF CalledInv
<1>9. ReplayType' /\ LinkedInv'
  BY <1>1, <1>4, <1>5, LiveKeepsReplay DEF ReplayType, LinkedInv
<1>10. LiveInv'
  <2>1. open' = Called' \ Range(settled') /\ open' \subseteq CallsOf(cell)'
    BY <1>1, <1>5 DEF LiveInv
  <2>2. \A k \in CellNumbers : /\ k < cell => Range(linked[k]) = CallsOf(k)
                               /\ k > cell => linked[k] = <<>>
    BY <1>1 DEF LiveInv
  <2>3. PhaseInv'
    BY <1>1 DEF PhaseInv, Phases
  <2>4. /\ Made' = {} /\ queue' = <<>> /\ settlers' = <<>> /\ calling' = None
        /\ nextStart' = [k \in CellNumbers |-> 0]
        /\ pending' = [k \in CellNumbers |-> {}]
    BY <1>1, LiveKeepsReplay
  <2> QED BY <1>1, <1>4, <1>5, <1>7, <2>1, <2>2, <2>3, <2>4 DEF LiveInv
<1> QED BY <1>1, <1>8, <1>9, <1>10, LiveKeepsReplay DEF ReplayInv

\* The next cell is begun; after the last one replay begins, with nothing called.
LEMMA NextCellStep ==
    ASSUME ReplayInv, NextCell
    PROVE  ReplayInv'
<1>0. phase = "ended" /\ ready = <<>>
  BY CallPhase DEF NextCell
<1>1. /\ ReplayType /\ LinkedInv /\ CalledInv /\ LiveInv /\ PhaseInv
      /\ pc = "live" /\ ready = <<>> /\ ready' = <<>> /\ open = {} /\ open' = {}
      /\ UNCHANGED <<prog, linked, journal, replayVars>>
  BY <1>0 DEF ReplayInv, LiveInv, PhaseInv, NextCell
<1>2. /\ prog \in Programs /\ cell \in CellNumbers /\ MaxCell \in Nat \ {0}
      /\ cell \in Nat /\ cell <= MaxCell /\ Range(ready) = {}
  <2>1. /\ prog \in Programs /\ cell \in CellNumbers /\ ready \in Seq(Calls)
        /\ MaxCell \in Nat \ {0}
    BY <1>1, ReplayAssumption DEF ReplayType
  <2>2. Range(ready) = {}
    BY <1>1, <2>1, EmptyRange
  <2>3. cell \in Nat /\ cell <= MaxCell
    BY <2>1 DEF CellNumbers
  <2> QED BY <2>1, <2>2, <2>3
<1>3. Range(linked[cell]) = CallsOf(cell)
  <2>1. \A d \in CallsOf(cell) : d \in Called /\ prog.cell[d] = cell
    BY <1>0, <1>1 DEF PhaseInv, CallsOf
  <2>2. \A d \in CallsOf(cell) : d \in Range(linked[cell])
    BY <1>1, <2>1, CalledIsLinked
  <2> QED BY <1>1, <1>2, <2>2 DEF LinkedInv
<1>4. \A k \in CellNumbers : CallsOf(k)' = CallsOf(k)
  BY <1>1 DEF CallsOf
<1>5. LinkedInv'
  BY <1>1, <1>4 DEF LinkedInv
<1>6. CASE cell < MaxCell
  <2>1. cell' = cell + 1 /\ phase' = "begun" /\ pc' = "live" /\ settled' = settled
    BY <1>1, <1>6 DEF NextCell
  <2>2. cell + 1 \in CellNumbers
    BY <1>2, <1>6 DEF CellNumbers
  <2>3. Called' = Called /\ Range(ready') = {} /\ Called \subseteq Range(settled)
    BY <1>1, <1>2, <2>1 DEF Called, LiveInv
  <2>4. CalledInv'
    BY <1>1, <2>1, <2>3 DEF CalledInv
  <2>5. ReplayType'
    BY <1>1, <2>1, <2>2, LiveKeepsReplay DEF ReplayType
  <2>6. LiveInv'
    <3>1. open' = Called' \ Range(settled')
      BY <1>1, <2>1, <2>3
    <3>2. \A k \in CellNumbers : /\ k < cell + 1 => Range(linked[k]) = CallsOf(k)
                                 /\ k > cell => linked[k] = <<>>
      <4> TAKE k \in CellNumbers
      <4>1. k \in Nat
        BY DEF CellNumbers
      <4>2. k < cell + 1 => k < cell \/ k = cell
        BY <1>2, <4>1
      <4> QED BY <1>1, <1>3, <4>2 DEF LiveInv
    <3>3. \A k \in CellNumbers : k > cell + 1 => linked[k] = <<>>
      <4> TAKE k \in CellNumbers
      <4>1. k \in Nat
        BY DEF CellNumbers
      <4>2. k > cell + 1 => k > cell
        BY <1>2, <4>1
      <4> QED BY <3>2, <4>2
    <3>4. PhaseInv'
      <4>1. linked'[cell'] = <<>>
        <5>1. cell + 1 > cell
          BY <1>2
        <5> QED BY <1>1, <2>1, <2>2, <3>2, <5>1
      <4> QED BY <1>1, <2>1, <4>1 DEF PhaseInv, Phases
    <3>5. /\ Made' = {} /\ queue' = <<>> /\ settlers' = <<>> /\ calling' = None
          /\ nextStart' = [k \in CellNumbers |-> 0]
          /\ pending' = [k \in CellNumbers |-> {}]
      BY <1>1, <2>1, LiveKeepsReplay
    <3> QED BY <1>1, <1>4, <2>1, <3>1, <3>2, <3>3, <3>4, <3>5 DEF LiveInv
  <2> QED BY <1>1, <1>5, <2>1, <2>4, <2>5, <2>6, LiveKeepsReplay DEF ReplayInv
<1>7. CASE ~(cell < MaxCell)
  <2>1. pc' = "begin" /\ cell' = 1 /\ settled' = <<>> /\ ready' = ready
    BY <1>1, <1>7 DEF NextCell
  <2>2. /\ Made' = {} /\ queue' = <<>> /\ settlers' = <<>> /\ calling' = None
        /\ nextStart' = [k \in CellNumbers |-> 0]
        /\ pending' = [k \in CellNumbers |-> {}]
    BY <1>1 DEF LiveInv, Made, replayVars
  <2>3. cell' \in CellNumbers /\ settled' \in Seq(Calls) /\ Range(settled') = {}
    <3>1. cell' \in CellNumbers
      BY <1>2, <2>1 DEF CellNumbers
    <3>2. settled' \in Seq(Calls)
      BY <2>1
    <3> QED BY <2>1, <3>1, <3>2, EmptyRange
  <2>4. ReplayType'
    BY <1>1, <2>1, <2>3 DEF ReplayType, replayVars
  <2>5. Called' = {}
    BY <2>1, <2>2 DEF Called
  <2>6. CalledInv'
    BY <1>1, <1>2, <2>1, <2>3, <2>5 DEF CalledInv
  <2>7. LiveInv'
    BY <2>1 DEF LiveInv
  <2>8. HandedInv'
    <3>1. \A k \in CellNumbers : Range(linked[k]) = CallsOf(k)
      <4> TAKE k \in CellNumbers
      <4>1. k < cell \/ k = cell
        BY <1>2, <1>7 DEF CellNumbers
      <4> QED BY <1>1, <1>3, <4>1 DEF LiveInv
    <3>2. \A S : {} \cap S = {} /\ Cardinality({}) = 0
      BY FS_EmptySet
    <3>3. \A k \in CellNumbers : nextStart'[k] = Cardinality(Made' \cap CallsOf(k)')
      BY <2>2, <3>2
    <3> QED BY <1>1, <1>4, <2>2, <3>1, <3>3 DEF HandedInv
  <2>9. StageInv'
    <3>1. \A c \in Calls : ~(prog.cell[c] < 1)
      BY <1>2, ProgramFacts DEF CellNumbers
    <3> QED BY <1>1, <2>1, <2>2, <3>1 DEF StageInv
  <2>10. OwedInv'
    <3>1. IsInjective(settlers') /\ Range(settlers') = {}
      BY <2>2 DEF IsInjective, Range
    <3> QED BY <2>2, <3>1 DEF OwedInv
  <2> QED BY <1>5, <2>4, <2>6, <2>7, <2>8, <2>9, <2>10 DEF ReplayInv
<1> QED BY <1>6, <1>7

-----------------------------------------------------------------------------
(* The replay: the goroutine. *)

\* The loop's job is queued behind the others; no program was waiting.
LEMMA BeginStep ==
    ASSUME ReplayInv, BeginReplayStep
    PROVE  ReplayInv'
<1> DEFINE job == [kind |-> "program", cell |-> cell]
<1>1. /\ ReplayType /\ LinkedInv /\ CalledInv /\ HandedInv /\ StageInv /\ OwedInv
      /\ pc = "begin" /\ pc' = "wait" /\ step' = cell /\ queue' = Append(queue, job)
      /\ UNCHANGED <<prog, cell, ready, open, linked, journal, settlers, calling,
                     nextStart, pending, got, settled>>
  BY DEF ReplayInv, BeginReplayStep, liveVars
<1>2. job \in Job /\ job.kind = "program" /\ job.cell = cell /\ queue \in Seq(Job)
  BY <1>1 DEF ReplayType, Job
<1> HIDE DEF job
<1>3. /\ queue' \in Seq(Job) /\ queue'[Len(queue) + 1] = job
      /\ \A j \in DOMAIN queue' : j # Len(queue) + 1 =>
            j \in DOMAIN queue /\ queue'[j] = queue[j]
  BY <1>1, <1>2
<1>4. Called' = Called /\ Made' = Made /\ CallsOf(cell)' = CallsOf(cell)
      /\ \A k \in CellNumbers : CallsOf(k)' = CallsOf(k)
  BY <1>1 DEF Called, Made, CallsOf
<1>5. ReplayType'
  BY <1>1, <1>3 DEF ReplayType
<1>6. LinkedInv' /\ CalledInv' /\ LiveInv' /\ HandedInv' /\ OwedInv'
  BY <1>1, <1>4 DEF LinkedInv, CalledInv, LiveInv, HandedInv, OwedInv
<1>7. \A j \in DOMAIN queue : queue[j].kind # "program"
  BY <1>1 DEF StageInv
<1>8. \A j \in DOMAIN queue' : queue'[j].kind = "program" => j = Len(queue) + 1
  BY <1>3, <1>7
<1>9. StageInv'
  BY <1>1, <1>2, <1>3, <1>4, <1>8 DEF StageInv
<1> QED BY <1>5, <1>6, <1>9 DEF ReplayInv

\* In the replay, the effects of a cell are as many as its calls: they are consumed
\* when all of them have been called, and not before.
LEMMA Counting ==
    ASSUME ReplayType, LinkedInv, HandedInv, pc # "live", NEW k \in CellNumbers
    PROVE  /\ nextStart[k] <= Len(linked[k])
           /\ nextStart[k] = Len(linked[k]) <=> CallsOf(k) \subseteq Made
<1> DEFINE S == CallsOf(k)
           T == Made \cap S
<1>1. /\ linked[k] \in Seq(Calls) /\ IsInjective(linked[k]) /\ Range(linked[k]) = S
      /\ nextStart[k] = Cardinality(T) /\ T \in SUBSET S
  BY DEF ReplayType, LinkedInv, HandedInv
<1> HIDE DEF S, T
<1>2. linked[k] \in Seq(S)
  BY <1>1 DEF Range
<1>3. IsFiniteSet(S) /\ Cardinality(S) = Len(linked[k])
  BY <1>1, <1>2, DistinctLength
<1>4. Cardinality(T) <= Cardinality(S) /\ (Cardinality(S) = Cardinality(T) => S = T)
  BY <1>1, <1>3, FS_Subset
<1>5. S = T <=> S \subseteq Made
  BY DEF T
<1> QED BY <1>1, <1>3, <1>4, <1>5 DEF S

\* ensureConsumed has found every effect handed out, so that no call of the cell is
\* left; or the replay has failed and nothing is called any more.
LEMMA FinishStep ==
    ASSUME ReplayInv, FinishReplayStep
    PROVE  ReplayInv'
<1>1. /\ ReplayType /\ LinkedInv /\ CalledInv /\ HandedInv /\ StageInv /\ OwedInv
      /\ pc = "wait" /\ step' = None
      /\ \A j \in DOMAIN queue : queue[j].kind # "program"
      /\ pc' = IF nextStart[cell] # Len(linked[cell]) THEN "failed"
               ELSE IF cell < MaxCell THEN "begin" ELSE "replayed"
      /\ cell' = IF pc' = "begin" THEN cell + 1 ELSE cell
      /\ UNCHANGED <<prog, ready, open, linked, journal, queue, settlers, calling,
                     nextStart, pending, got, settled>>
  BY DEF ReplayInv, FinishReplayStep, Evaluated, liveVars
<1>2. cell \in CellNumbers /\ cell \in Nat /\ MaxCell \in Nat /\ prog \in Programs
  BY <1>1, ReplayAssumption DEF ReplayType, CellNumbers
<1>3. Called' = Called /\ Made' = Made /\ Called = Made
      /\ \A k \in CellNumbers : CallsOf(k)' = CallsOf(k)
  BY <1>1 DEF Called, Made, CallsOf
<1>4. pc' # "live" /\ pc' # "wait"
  BY <1>1
<1>5. LinkedInv' /\ LiveInv' /\ HandedInv' /\ OwedInv'
  BY <1>1, <1>3, <1>4 DEF LinkedInv, LiveInv, HandedInv, OwedInv
<1>6. CASE nextStart[cell] # Len(linked[cell])
  <2>1. pc' = "failed" /\ cell' = cell
    BY <1>1, <1>6
  <2>2. CallsOf(cell)' = CallsOf(cell)
    BY <1>1, <2>1 DEF CallsOf
  <2>3. ReplayType'
    BY <1>1, <2>1 DEF ReplayType
  <2>4. CalledInv' /\ StageInv'
    BY <1>1, <1>3, <2>1, <2>2 DEF CalledInv, StageInv
  <2> QED BY <1>5, <2>3, <2>4 DEF ReplayInv
<1>7. CASE nextStart[cell] = Len(linked[cell])
  <2>1. CallsOf(cell) \subseteq Made
    BY <1>1, <1>2, <1>7, Counting
  <2>2. Range(ready) = {} /\ ready = <<>>
    <3>1. Range(ready) = {} /\ ready \in Seq(Calls)
      BY <1>1, <1>3, <2>1 DEF CalledInv, ReplayType
    <3> QED BY <3>1, EmptyRange
  <2>3. CASE cell < MaxCell
    <3>1. pc' = "begin" /\ cell' = cell + 1 /\ cell' \in CellNumbers
      BY <1>1, <1>2, <1>7, <2>3 DEF CellNumbers
    <3>2. ReplayType'
      BY <1>1, <3>1 DEF ReplayType
    <3>3. CalledInv'
      BY <1>1, <1>3, <2>2 DEF CalledInv
    <3>4. \A c \in Calls : /\ prog.cell[c] < cell + 1 => c \in Made
                           /\ prog.cell[c] >= cell + 1 => c \notin Made
      <4> TAKE c \in Calls
      <4>1. prog.cell[c] \in Nat
        BY <1>2, ProgramFacts DEF CellNumbers
      <4>2. /\ prog.cell[c] < cell + 1 => prog.cell[c] < cell \/ prog.cell[c] = cell
            /\ prog.cell[c] >= cell + 1 => prog.cell[c] > cell
        BY <1>2, <4>1
      <4>3. prog.cell[c] = cell => c \in Made
        BY <2>1 DEF CallsOf
      <4> QED BY <1>1, <4>2, <4>3 DEF StageInv
    <3>5. CallsOf(cell)' \cap Made = {}
      <4> SUFFICES ASSUME NEW c \in Calls, prog.cell[c] = cell + 1, c \in Made PROVE FALSE
        BY <1>1, <3>1 DEF CallsOf
      <4> QED BY <1>2, <3>4
    <3>6. \A c \in Calls : /\ prog.cell[c] < cell + 1 => c \in Made
                           /\ prog.cell[c] > cell + 1 => c \notin Made
      <4> TAKE c \in Calls
      <4>1. prog.cell[c] \in Nat
        BY <1>2, ProgramFacts DEF CellNumbers
      <4>2. prog.cell[c] > cell + 1 => prog.cell[c] >= cell + 1
        BY <1>2, <4>1
      <4> QED BY <3>4, <4>2
    <3>7. StageInv'
      BY <1>1, <1>3, <2>2, <3>1, <3>5, <3>6 DEF StageInv
    <3> QED BY <1>5, <3>2, <3>3, <3>7 DEF ReplayInv
  <2>4. CASE ~(cell < MaxCell)
    <3>1. pc' = "replayed" /\ cell' = cell
      BY <1>1, <1>7, <2>4
    <3>2. CallsOf(cell)' = CallsOf(cell)
      BY <1>1, <3>1 DEF CallsOf
    <3>3. ReplayType'
      BY <1>1, <3>1 DEF ReplayType
    <3>4. CalledInv' /\ StageInv'
      BY <1>1, <1>3, <2>1, <3>1, <3>2 DEF CalledInv, StageInv
    <3> QED BY <1>5, <3>3, <3>4 DEF ReplayInv
  <2> QED BY <2>3, <2>4
<1> QED BY <1>6, <1>7

-----------------------------------------------------------------------------
(* The replay: the event loop. *)

\* What is left of the queue when its first job has been taken.
LEMMA TakeJob ==
    ASSUME ReplayType, queue # <<>>, queue' = Tail(queue)
    PROVE  /\ queue' \in Seq(Job) /\ Head(queue) \in Job /\ Head(queue) = queue[1]
           /\ 1 \in DOMAIN queue
           /\ \A j \in DOMAIN queue' : /\ j + 1 \in DOMAIN queue /\ j + 1 # 1
                                       /\ queue'[j] = queue[j + 1] /\ j \in Nat
BY DEF ReplayType

\* The program of the cell runs, and makes the calls that wait for nothing.
LEMMA RunProgramStep ==
    ASSUME ReplayInv, RunProgram
    PROVE  ReplayInv'
<1> DEFINE R == Roots(cell)
<1>1. /\ ReplayType /\ LinkedInv /\ CalledInv /\ HandedInv /\ StageInv /\ OwedInv
      /\ pc # "live" /\ queue # <<>> /\ Head(queue).kind = "program"
      /\ ready' = InOrder(Roots(Head(queue).cell)) /\ queue' = Tail(queue)
      /\ UNCHANGED <<prog, pc, cell, open, linked, journal, settlers, calling, step,
                     nextStart, pending, got, settled>>
  BY DEF ReplayInv, RunProgram, LoopIdle, liveVars
<1>2. /\ queue' \in Seq(Job) /\ Head(queue) = queue[1] /\ 1 \in DOMAIN queue
      /\ \A j \in DOMAIN queue' : /\ j + 1 \in DOMAIN queue /\ j + 1 # 1
                                  /\ queue'[j] = queue[j + 1]
  BY <1>1, TakeJob
<1>3. /\ Head(queue).cell = cell /\ pc = "wait" /\ CallsOf(cell) \cap Made = {}
      /\ \A i \in DOMAIN queue : queue[i].kind = "program" => i = 1
  BY <1>1, <1>2 DEF StageInv
<1>4. \A j \in DOMAIN queue' : queue'[j].kind # "program"
  BY <1>2, <1>3
<1>5. R \in SUBSET Calls /\ R \subseteq CallsOf(cell) /\ \A d \in R : prog.after[d] = {}
  BY DEF Roots, CallsOf
<1>6. ready' \in Seq(Calls) /\ Range(ready') = R /\ IsInjective(ready')
  <2>1. prog \in Programs /\ ready' = InOrder(R)
    BY <1>1, <1>3 DEF ReplayType
  <2> HIDE DEF R
  <2> QED BY <1>5, <2>1, InProgramOrder
<1> HIDE DEF R
<1>7. Called' = Called /\ Made' = Made /\ Called = Made /\ CallsOf(cell)' = CallsOf(cell)
      /\ \A k \in CellNumbers : CallsOf(k)' = CallsOf(k)
  BY <1>1 DEF Called, Made, CallsOf
<1>8. ReplayType'
  BY <1>1, <1>2, <1>6 DEF ReplayType
<1>9. LinkedInv' /\ LiveInv' /\ HandedInv' /\ OwedInv'
  BY <1>1, <1>7 DEF LinkedInv, LiveInv, HandedInv, OwedInv
<1>10. CalledInv'
  BY <1>1, <1>3, <1>5, <1>6, <1>7 DEF CalledInv
<1>11. StageInv'
  BY <1>1, <1>3, <1>4, <1>7 DEF StageInv
<1> QED BY <1>8, <1>9, <1>10, <1>11 DEF ReplayInv

\* The recorded results of different calls have different places in the journal.
LEMMA CompletionOrders ==
    ASSUME ReplayType, NEW e \in Range(journal)
    PROVE  CompletionOrder(e) \in DOMAIN journal /\ journal[CompletionOrder(e)] = e
           /\ CompletionOrder(e) \in Nat
<1> DEFINE P == {i \in DOMAIN journal : journal[i] = e}
<1>1. P \in SUBSET Nat /\ P # {}
  BY DEF ReplayType, Range
<1>2. Min(P) \in P
  <2> HIDE DEF P
  <2> QED BY <1>1, MinProperties
<1> QED BY <1>1, <1>2 DEF CompletionOrder

\* takePendingAsync: every pending call is settled once.
LEMMA RunFlushStep ==
    ASSUME ReplayInv, RunFlush
    PROVE  ReplayInv'
<1> DEFINE k == Head(queue).cell
           P == pending[k]
           key == [c \in P |-> CompletionOrder(got[c])]
<1>1. /\ ReplayType /\ LinkedInv /\ CalledInv /\ HandedInv /\ StageInv /\ OwedInv
      /\ pc # "live" /\ queue # <<>> /\ settlers = <<>> /\ calling = None
      /\ settlers' = Sorted(P) /\ pending' = [pending EXCEPT ![k] = {}]
      /\ queue' = Tail(queue)
      /\ UNCHANGED <<prog, pc, cell, ready, open, linked, journal, calling, step,
                     nextStart, got, settled>>
  BY DEF ReplayInv, RunFlush, LoopIdle, liveVars
<1>2. /\ queue' \in Seq(Job) /\ Head(queue) \in Job
      /\ \A j \in DOMAIN queue' : /\ j + 1 \in DOMAIN queue /\ j \in Nat
                                  /\ queue'[j] = queue[j + 1]
  BY <1>1, TakeJob
<1>3. k \in CellNumbers /\ pending \in [CellNumbers -> SUBSET Calls]
  BY <1>1, <1>2 DEF Job, ReplayType
<1>4. /\ P \in SUBSET Calls /\ IsFiniteSet(P) /\ P \subseteq Made \ Range(settled)
      /\ \A c \in P : got[c] \in Range(journal)
      /\ \A c, d \in P : got[c] = got[d] => c = d
  <2>1. P \in SUBSET Calls /\ prog \in Programs
    BY <1>1, <1>3 DEF ReplayType
  <2> HIDE DEF k
  <2>2. IsFiniteSet(P)
    BY <2>1, ProgramFacts
  <2>3. P \subseteq Made \ Range(settled) /\ \A c \in P : got[c] \in Range(journal)
    BY <1>1, <1>3 DEF OwedInv
  <2>4. \A c, d \in P : got[c] = got[d] => c = d
    BY <1>1, <2>3 DEF HandedInv
  <2> QED BY <2>1, <2>2, <2>3, <2>4
<1> HIDE DEF k
<1>5. key \in [P -> Nat]
  BY <1>1, <1>4, CompletionOrders
<1>6. ASSUME NEW x \in P, NEW y \in P, key[x] = key[y] PROVE x = y
  <2>1. CompletionOrder(got[x]) = CompletionOrder(got[y])
    BY <1>6
  <2>2. got[x] = got[y]
    BY <1>1, <1>4, <2>1, CompletionOrders
  <2> QED BY <1>4, <2>2
<1>7. settlers' = SortedBy(P, key)
  BY <1>1, Zenon DEF Sorted
<1> HIDE DEF P, key
<1>8. settlers' \in Seq(P) /\ Range(settlers') = P /\ IsInjective(settlers')
  BY <1>4, <1>5, <1>6, <1>7, SortedByDistinct, Zenon
<1>9. settlers' \in Seq(Calls)
  BY <1>4, <1>8
<1>10. /\ pending' \in [CellNumbers -> SUBSET Calls]
       /\ \A j \in CellNumbers : pending'[j] = IF j = k THEN {} ELSE pending[j]
  BY <1>1, <1>3
<1>11. Called' = Called /\ Made' = Made /\ CallsOf(cell)' = CallsOf(cell)
       /\ \A j \in CellNumbers : CallsOf(j)' = CallsOf(j)
  BY <1>1 DEF Called, Made, CallsOf
<1>12. ReplayType'
  BY <1>1, <1>2, <1>9, <1>10 DEF ReplayType
<1>13. LinkedInv' /\ LiveInv' /\ HandedInv' /\ CalledInv'
  BY <1>1, <1>11 DEF LinkedInv, LiveInv, HandedInv, CalledInv
<1>14. StageInv'
  <2>1. ASSUME NEW j \in DOMAIN queue', queue'[j].kind = "program"
        PROVE  /\ queue'[j].cell = cell /\ pc = "wait" /\ ready = <<>>
               /\ CallsOf(cell) \cap Made = {}
               /\ \A i \in DOMAIN queue' : queue'[i].kind = "program" => i = j
    <3>1. /\ j + 1 \in DOMAIN queue /\ queue[j + 1].kind = "program"
          /\ queue'[j] = queue[j + 1] /\ j \in Nat
      BY <1>2, <2>1
    <3>2. ASSUME NEW i \in DOMAIN queue', queue'[i].kind = "program" PROVE i = j
      <4>1. i + 1 \in DOMAIN queue /\ queue[i + 1].kind = "program" /\ i \in Nat
        BY <1>2, <3>2
      <4>2. i + 1 = j + 1
        BY <1>1, <3>1, <4>1 DEF StageInv
      <4> QED BY <3>1, <4>1, <4>2
    <3> QED BY <1>1, <3>1, <3>2 DEF StageInv
  <2> QED BY <1>1, <1>11, <2>1 DEF StageInv
<1>15. OwedInv'
  <2>1. Range(settlers') \subseteq Made \ Range(settled)
    BY <1>4, <1>8
  <2>2. ASSUME NEW j \in CellNumbers
        PROVE  /\ pending'[j] \subseteq
                     Made \ (Range(settled) \cup Range(settlers') \cup {calling})
               /\ \A c \in pending'[j] : got[c] \in Range(journal)
               /\ \A i \in CellNumbers : i # j => pending'[i] \cap pending'[j] = {}
    <3>1. CASE j = k
      BY <1>10, <3>1
    <3>2. CASE j # k
      <4>1. pending'[j] = pending[j] /\ pending[j] \cap P = {}
        BY <1>1, <1>3, <1>10, <3>2 DEF OwedInv, P
      <4> QED BY <1>1, <1>8, <1>10, <4>1 DEF OwedInv
    <3> QED BY <3>1, <3>2
  <2> QED BY <1>1, <1>8, <1>11, <2>1, <2>2 DEF OwedInv
<1> QED BY <1>12, <1>13, <1>14, <1>15 DEF ReplayInv

\* The program returns: nothing of what it called is touched.
LEMMA ProgramReturnsStep ==
    ASSUME ReplayInv, ProgramReturns
    PROVE  ReplayInv'
<1>1. /\ ReplayType /\ LinkedInv /\ CalledInv /\ LiveInv /\ HandedInv /\ StageInv /\ OwedInv
      /\ UNCHANGED <<prog, pc, cell, ready, phase, open, linked, journal, queue, settlers,
                     calling, step, nextStart, pending, got, settled>>
  BY DEF ReplayInv, ProgramReturns, liveVars
<1>2. Called' = Called /\ Made' = Made /\ CallsOf(cell)' = CallsOf(cell)
      /\ Roots(cell)' = Roots(cell) /\ \A k \in CellNumbers : CallsOf(k)' = CallsOf(k)
  BY <1>1 DEF Called, Made, CallsOf, Roots
<1>3. ReplayType' /\ LinkedInv' /\ CalledInv'
  BY <1>1, <1>2 DEF ReplayType, LinkedInv, CalledInv
<1>4. LiveInv' /\ HandedInv'
  BY <1>1, <1>2 DEF LiveInv, PhaseInv, HandedInv
<1>5. StageInv' /\ OwedInv'
  BY <1>1, <1>2 DEF StageInv, OwedInv
<1> QED BY <1>3, <1>4, <1>5 DEF ReplayInv

\* queueReplayAsync: the call waits for a flush, or it is forgotten.
LEMMA QueueReplayStep ==
    ASSUME ReplayInv, QueueReplayAsync
    PROVE  ReplayInv'
<1> DEFINE job == [kind |-> "flush", cell |-> step]
<1>1. /\ ReplayType /\ LinkedInv /\ CalledInv /\ LiveInv /\ HandedInv /\ StageInv /\ OwedInv
      /\ calling # None /\ calling' = None
      /\ UNCHANGED <<prog, pc, cell, ready, open, linked, journal, settlers, step,
                     nextStart, got, settled>>
      /\ IF step = None THEN UNCHANGED <<pending, queue>>
         ELSE /\ pending' = [pending EXCEPT ![step] = @ \cup {calling}]
              /\ queue' = IF flush[step] THEN queue ELSE Append(queue, job)
  BY DEF ReplayInv, QueueReplayAsync, liveVars
<1>2. pc # "live" /\ pc' # "live"
  BY <1>1 DEF LiveInv
<1>3. Called' = Called /\ Made' = Made /\ CallsOf(cell)' = CallsOf(cell)
      /\ \A k \in CellNumbers : CallsOf(k)' = CallsOf(k)
  BY <1>1 DEF Called, Made, CallsOf
<1>4. calling \in Calls /\ None \notin Calls /\ Made \subseteq Calls
  BY <1>1, ProgramFacts DEF ReplayType, Made
<1>5. LinkedInv' /\ CalledInv' /\ LiveInv' /\ HandedInv'
  BY <1>1, <1>2, <1>3 DEF LinkedInv, CalledInv, LiveInv, HandedInv
<1>6. CASE step = None
  <2>1. ReplayType'
    BY <1>1, <1>6 DEF ReplayType
  <2>2. StageInv'
    BY <1>1, <1>3, <1>6 DEF StageInv
  <2>3. OwedInv'
    BY <1>1, <1>3, <1>4, <1>6 DEF OwedInv
  <2> QED BY <1>5, <2>1, <2>2, <2>3 DEF ReplayInv
<1>7. CASE step # None
  <2>1. step \in CellNumbers /\ pending \in [CellNumbers -> SUBSET Calls] /\ queue \in Seq(Job)
    BY <1>1, <1>7 DEF ReplayType
  <2>2. /\ pending' \in [CellNumbers -> SUBSET Calls]
        /\ \A k \in CellNumbers :
              pending'[k] = IF k = step THEN pending[k] \cup {calling} ELSE pending[k]
    BY <1>1, <1>4, <1>7, <2>1
  <2>3. job \in Job /\ job.kind = "flush"
    BY <2>1 DEF Job
  <2> HIDE DEF job
  <2>4. /\ queue' \in Seq(Job)
        /\ \A j \in DOMAIN queue' :
              queue'[j].kind = "program" => j \in DOMAIN queue /\ queue'[j] = queue[j]
    <3>1. CASE queue' = queue
      BY <2>1, <3>1
    <3>2. CASE queue' = Append(queue, job)
      BY <2>1, <2>3, <3>2
    <3> QED BY <1>1, <1>7, <3>1, <3>2
  <2>5. ReplayType'
    BY <1>1, <2>2, <2>4 DEF ReplayType
  <2>6. StageInv'
    BY <1>1, <1>3, <2>4 DEF StageInv
  <2>7. OwedInv'
    <3>1. ASSUME NEW k \in CellNumbers
          PROVE  /\ pending'[k] \subseteq Made \ (Range(settled) \cup Range(settlers) \cup {None})
                 /\ \A c \in pending'[k] : got[c] \in Range(journal)
                 /\ \A j \in CellNumbers : j # k => pending'[j] \cap pending'[k] = {}
      BY <1>1, <1>2, <1>4, <2>1, <2>2 DEF OwedInv
    <3> QED BY <1>1, <1>2, <1>3, <3>1 DEF OwedInv
  <2> QED BY <1>5, <2>5, <2>6, <2>7 DEF ReplayInv
<1> QED BY <1>6, <1>7

\* A settlement of the flush. It may be of an earlier cell, which has then made all
\* its calls: only the cell that is replayed goes on.
LEMMA ReplaySettleStep ==
    ASSUME ReplayInv, ReplaySettle
    PROVE  ReplayInv'
<1> DEFINE c == Head(settlers)
<1>1. /\ ReplayType /\ LinkedInv /\ CalledInv /\ LiveInv /\ HandedInv /\ StageInv /\ OwedInv
      /\ pc # "failed" /\ settlers # <<>> /\ ready = <<>> /\ calling = None
      /\ Settles(c) /\ ready' = Continues(c) /\ settlers' = Tail(settlers)
      /\ UNCHANGED <<prog, pc, cell, open, linked, journal, queue, calling, step,
                     nextStart, pending, got>>
  BY DEF ReplayInv, ReplaySettle, liveVars
<1>2. pc # "live" /\ pc' # "live"
  BY <1>1 DEF LiveInv
<1>3. Called' = Called /\ Made' = Made /\ Called = Made /\ CallsOf(cell)' = CallsOf(cell)
      /\ \A k \in CellNumbers : CallsOf(k)' = CallsOf(k)
  BY <1>1, <1>2 DEF Called, Made, CallsOf
<1>4. /\ settlers' \in Seq(Calls) /\ Range(settlers) = Range(settlers') \cup {c}
      /\ IsInjective(settlers') /\ c \notin Range(settlers') /\ c \in Calls
  BY <1>1, <1>2, TailDistinct DEF ReplayType, OwedInv
<1> HIDE DEF c
<1>5. c \in Made /\ c \notin Range(settled)
  BY <1>1, <1>2, <1>4 DEF OwedInv
<1>6. /\ Continues(c) \in Seq(Calls)
      /\ Range(Continues(c)) \subseteq CallsOf(prog.cell[c]) \ Made
  BY <1>1, <1>3, <1>4, <1>5, ContinuesFacts
<1>7. prog.cell[c] \in CellNumbers /\ cell \in CellNumbers
  BY <1>1, <1>4, ProgramFacts DEF ReplayType
<1>8. /\ prog.cell[c] < cell \/ prog.cell[c] = cell
      /\ prog.cell[c] < cell => CallsOf(prog.cell[c]) \subseteq Made
  <2>1. ~(prog.cell[c] > cell)
    BY <1>1, <1>2, <1>4, <1>5 DEF StageInv
  <2>2. prog.cell[c] < cell \/ prog.cell[c] = cell
    BY <1>7, <2>1 DEF CellNumbers
  <2>3. prog.cell[c] < cell => CallsOf(prog.cell[c]) \subseteq Made
    BY <1>1, <1>2 DEF StageInv, CallsOf
  <2> QED BY <2>2, <2>3
<1>9. Range(Continues(c)) \subseteq CallsOf(cell)
  BY <1>6, <1>8
<1>10. /\ CalledInv' /\ ready' \in Seq(Calls) /\ settled' \in Seq(Calls)
       /\ Range(settled') = Range(settled) \cup {c}
  BY <1>1, <1>3, <1>4, <1>5, <1>9, SettleStep
<1>11. CallsOf(cell) \cap Made = {} => ready' = <<>>
  <2> SUFFICES ASSUME CallsOf(cell) \cap Made = {} PROVE ready' = <<>>
    OBVIOUS
  <2>1. prog.cell[c] # cell
    BY <1>4, <1>5 DEF CallsOf
  <2>2. Range(ready') = {}
    BY <1>1, <1>6, <1>8, <2>1
  <2> QED BY <1>10, <2>2, EmptyRange
<1>12. ReplayType'
  BY <1>1, <1>4, <1>10 DEF ReplayType
<1>13. LinkedInv' /\ LiveInv' /\ HandedInv'
  BY <1>1, <1>2, <1>3 DEF LinkedInv, LiveInv, HandedInv
<1>14. StageInv'
  BY <1>1, <1>2, <1>3, <1>11 DEF StageInv
<1>15. OwedInv'
  <2>1. \A k \in CellNumbers : c \notin pending[k]
    BY <1>1, <1>2, <1>4 DEF OwedInv
  <2>2. Range(settlers') \subseteq Made \ Range(settled')
    BY <1>1, <1>2, <1>4, <1>10 DEF OwedInv
  <2> QED BY <1>1, <1>2, <1>3, <1>4, <1>10, <2>1, <2>2 DEF OwedInv
<1> QED BY <1>10, <1>12, <1>13, <1>14, <1>15 DEF ReplayInv

\* A call that is still to be made finds a record that has not been handed out: the
\* effects of its cell are as many as its calls.
LEMMA NextEffect ==
    ASSUME ReplayType, LinkedInv, CalledInv, LiveInv, HandedInv, StageInv,
           NEW c \in Calls, Making(c)
    PROVE  /\ pc = "wait" /\ step = cell /\ c \in CallsOf(cell) \ Made
           /\ nextStart[cell] < Len(linked[cell])
           /\ nextEffect(cell) \in CallsOf(cell)
           /\ \A d \in Made : got[d] # nextEffect(cell)
           /\ \A j \in DOMAIN queue : queue[j].kind # "program"
<1>1. pc \notin {"live", "failed"} /\ ready # <<>> /\ c = Head(ready)
  BY DEF Making
<1>2. c \in Range(ready) /\ Called = Made /\ cell \in CellNumbers /\ prog \in Programs
  BY <1>1, TailDistinct DEF ReplayType, CalledInv, Called
<1>3. c \in CallsOf(cell) \ Made
  BY <1>2 DEF CalledInv
<1>4. pc = "wait" /\ step = cell
  <2>1. pc # "begin"
    BY <1>1 DEF StageInv
  <2>2. pc # "replayed"
    BY <1>1, <1>3 DEF StageInv
  <2>3. pc = "wait"
    BY <1>1, <2>1, <2>2 DEF ReplayType
  <2> QED BY <2>3 DEF StageInv
<1> DEFINE n == nextStart[cell]
           s == linked[cell]
<1>5. n \in Nat /\ s \in Seq(Calls) /\ IsInjective(s) /\ Range(s) = CallsOf(cell)
  BY <1>1, <1>2 DEF ReplayType, LinkedInv, HandedInv
<1>6. n < Len(s)
  <2>1. n <= Len(s) /\ (n = Len(s) <=> CallsOf(cell) \subseteq Made)
    BY <1>1, <1>2, Counting
  <2> QED BY <1>3, <1>5, <2>1
<1>7. n + 1 \in DOMAIN s /\ nextEffect(cell) = s[n + 1] /\ s[n + 1] \in Range(s)
  BY <1>5, <1>6 DEF nextEffect, Range
<1>8. ASSUME NEW d \in Made PROVE got[d] # nextEffect(cell)
  <2>1. d \in Calls /\ prog.cell[d] \in CellNumbers
    BY <1>2, ProgramFacts DEF Made
  <2>2. PICK i \in DOMAIN linked[prog.cell[d]] :
              i <= nextStart[prog.cell[d]] /\ got[d] = linked[prog.cell[d]][i]
    BY <1>1 DEF HandedInv
  <2>3. CASE prog.cell[d] = cell
    <3>1. i \in DOMAIN s /\ i <= n /\ got[d] = s[i]
      BY <2>2, <2>3
    <3>2. i # n + 1
      BY <1>5, <3>1
    <3> QED BY <1>5, <1>7, <3>1, <3>2 DEF IsInjective
  <2>4. CASE prog.cell[d] # cell
    <3>1. got[d] \in CallsOf(prog.cell[d])
      <4>1. got[d] \in Range(linked[prog.cell[d]])
        BY <2>2 DEF Range
      <4>2. Range(linked[prog.cell[d]]) = CallsOf(prog.cell[d])
        BY <1>1, <2>1 DEF HandedInv
      <4> QED BY <4>1, <4>2
    <3> QED BY <1>5, <1>7, <2>4, <3>1 DEF CallsOf
  <2> QED BY <2>3, <2>4
<1>9. \A j \in DOMAIN queue : queue[j].kind # "program"
  BY <1>1 DEF StageInv
<1> QED BY <1>3, <1>4, <1>5, <1>6, <1>7, <1>8, <1>9

\* The next effect is handed out, and the count of its cell goes up with the calls
\* the cell has made.
LEMMA HandOutStep ==
    ASSUME ReplayType, LinkedInv, HandedInv, pc = "wait",
           NEW c \in Calls, c \in CallsOf(cell) \ Made,
           nextStart[cell] < Len(linked[cell]),
           nextEffect(cell) \in CallsOf(cell),
           \A d \in Made : got[d] # nextEffect(cell),
           UNCHANGED <<prog, pc, cell, linked>>,
           nextStart' = [nextStart EXCEPT ![cell] = @ + 1],
           got' = [got EXCEPT ![c] = nextEffect(cell)]
    PROVE  /\ Made' = Made \cup {c} /\ HandedInv'
           /\ got' \in [Calls -> Nat] /\ nextStart' \in [CellNumbers -> Nat]
           /\ got'[c] = nextEffect(cell) /\ \A d \in Made : got'[d] = got[d]
<1> DEFINE e == nextEffect(cell)
<1>1. prog \in Programs /\ cell \in CellNumbers /\ prog.cell[c] = cell
  BY DEF ReplayType, CallsOf
<1>2. e \in Calls /\ e \in Nat /\ e # None
  BY <1>1, ProgramFacts DEF CallsOf
<1>3. got \in [Calls -> Nat] /\ nextStart \in [CellNumbers -> Nat]
  BY DEF ReplayType
<1> HIDE DEF e
<1>4. got' \in [Calls -> Nat] /\ got'[c] = e /\ \A d \in Calls : d # c => got'[d] = got[d]
  BY <1>2, <1>3 DEF e
<1>5. Made' = Made \cup {c} /\ c \notin Made /\ Made \subseteq Calls
  BY <1>2, <1>4 DEF Made
<1>6. /\ nextStart' \in [CellNumbers -> Nat]
      /\ \A k \in CellNumbers :
            nextStart'[k] = IF k = cell THEN nextStart[k] + 1 ELSE nextStart[k]
  BY <1>1, <1>3
<1>7. \A k \in CellNumbers : CallsOf(k)' = CallsOf(k)
  BY DEF CallsOf
<1>8. ASSUME NEW k \in CellNumbers
      PROVE  nextStart'[k] = Cardinality(Made' \cap CallsOf(k))
  <2>1. nextStart[k] = Cardinality(Made \cap CallsOf(k))
    BY DEF HandedInv
  <2>2. CASE k = cell
    <3>1. /\ Made' \cap CallsOf(k) = (Made \cap CallsOf(k)) \cup {c}
          /\ c \notin Made \cap CallsOf(k)
      BY <1>5, <2>2
    <3>2. IsFiniteSet(Made \cap CallsOf(k))
      BY <1>1, <1>5, ProgramFacts
    <3>3. Cardinality((Made \cap CallsOf(k)) \cup {c}) = Cardinality(Made \cap CallsOf(k)) + 1
      BY <3>1, <3>2, FS_AddElement
    <3> QED BY <1>6, <2>1, <2>2, <3>1, <3>3
  <2>3. CASE k # cell
    <3>1. Made' \cap CallsOf(k) = Made \cap CallsOf(k)
      BY <1>1, <1>5, <2>3 DEF CallsOf
    <3> QED BY <1>6, <2>1, <2>3, <3>1
  <2> QED BY <2>2, <2>3
<1>9. ASSUME NEW d \in Made'
      PROVE  \E i \in DOMAIN linked[prog.cell[d]] :
                i <= nextStart'[prog.cell[d]] /\ got'[d] = linked[prog.cell[d]][i]
  <2>1. CASE d = c
    <3>1. nextStart[cell] + 1 \in DOMAIN linked[cell]
      BY <1>1, <1>3 DEF ReplayType
    <3>2. /\ nextStart[cell] + 1 <= nextStart'[cell]
          /\ got'[c] = linked[cell][nextStart[cell] + 1]
      BY <1>1, <1>3, <1>4, <1>6 DEF nextEffect, e
    <3> QED BY <1>1, <2>1, <3>1, <3>2
  <2>2. CASE d # c
    <3>1. d \in Made /\ got'[d] = got[d] /\ prog.cell[d] \in CellNumbers
      BY <1>1, <1>4, <1>5, <2>2, ProgramFacts
    <3>2. PICK i \in DOMAIN linked[prog.cell[d]] :
                i <= nextStart[prog.cell[d]] /\ got[d] = linked[prog.cell[d]][i]
      BY <3>1 DEF HandedInv
    <3>3. nextStart[prog.cell[d]] \in Nat /\ i \in Nat
      <4>1. nextStart[prog.cell[d]] \in Nat /\ linked[prog.cell[d]] \in Seq(Calls)
        BY <1>3, <3>1 DEF ReplayType
      <4> QED BY <4>1
    <3>4. i <= nextStart'[prog.cell[d]]
      BY <1>6, <3>1, <3>2, <3>3
    <3> QED BY <3>1, <3>2, <3>4
  <2> QED BY <2>1, <2>2
<1>10. \A d, f \in Made' : got'[d] = got'[f] => d = f
  BY <1>4, <1>5 DEF HandedInv, e
<1>11. \A k \in CellNumbers : Range(linked[k]) = CallsOf(k)
  BY DEF HandedInv
<1>12. HandedInv'
  BY <1>7, <1>8, <1>9, <1>10, <1>11 DEF HandedInv
<1> QED BY <1>4, <1>5, <1>6, <1>12 DEF e

\* A call in replay mode: it settles at once, or its record is to be queued.
LEMMA ReplayCallStep ==
    ASSUME ReplayInv, NEW c \in Calls, ReplayCall(c)
    PROVE  ReplayInv'
<1> DEFINE e == nextEffect(cell)
<1>1. /\ ReplayType /\ LinkedInv /\ CalledInv /\ LiveInv /\ HandedInv /\ StageInv /\ OwedInv
      /\ Making(c)
      /\ UNCHANGED <<prog, pc, cell, open, linked, journal, queue, settlers, step, pending>>
  BY DEF ReplayInv, ReplayCall, liveVars
<1>2. /\ pc = "wait" /\ step = cell /\ c \in CallsOf(cell) \ Made
      /\ nextStart[cell] < Len(linked[cell]) /\ nextEffect(cell) \in CallsOf(cell)
      /\ \A d \in Made : got[d] # nextEffect(cell)
      /\ \A j \in DOMAIN queue : queue[j].kind # "program"
  BY <1>1, NextEffect
<1>3. prog \in Programs /\ cell \in CellNumbers /\ cell # None /\ None \notin Calls
  BY <1>1, ProgramFacts DEF ReplayType, CellNumbers, None
<1>4. /\ nextStart' = [nextStart EXCEPT ![cell] = @ + 1]
      /\ got' = [got EXCEPT ![c] = nextEffect(cell)]
      /\ \/ /\ Settles(c) /\ calling' = calling
            /\ \/ ready' = Continues(c) \o Tail(ready)
               \/ ready' = Tail(ready) \o Continues(c)
         \/ /\ Recorded(nextEffect(cell)) /\ calling' = c
            /\ ready' = Tail(ready) /\ settled' = settled
  BY <1>2, <1>3, Zenon DEF ReplayCall
<1>5. /\ Made' = Made \cup {c} /\ HandedInv'
      /\ got' \in [Calls -> Nat] /\ nextStart' \in [CellNumbers -> Nat]
      /\ got'[c] = e /\ \A d \in Made : got'[d] = got[d]
  BY <1>1, <1>2, <1>4, HandOutStep
<1>6. ready # <<>> /\ c = Head(ready) /\ calling = None
  BY <1>1 DEF Making
<1>7. Called' = Called \cup {c} /\ Called = Made /\ CallsOf(cell)' = CallsOf(cell)
      /\ \A k \in CellNumbers : CallsOf(k)' = CallsOf(k)
  BY <1>1, <1>2, <1>5 DEF Called, CallsOf
<1>8. LinkedInv' /\ LiveInv'
  BY <1>1, <1>2, <1>7 DEF LinkedInv, LiveInv
<1>9. StageInv'
  BY <1>1, <1>2, <1>3, <1>5, <1>7 DEF StageInv, CallsOf
<1>10. /\ IsInjective(settlers') /\ Range(settlers') \subseteq Made \ Range(settled)
       /\ c \notin Range(settlers')
       /\ \A k \in CellNumbers :
             /\ pending'[k] \subseteq Made \ (Range(settled) \cup Range(settlers'))
             /\ c \notin pending'[k]
             /\ \A d \in pending'[k] : got'[d] \in Range(journal)
             /\ \A j \in CellNumbers : j # k => pending'[j] \cap pending'[k] = {}
  BY <1>1, <1>2, <1>5 DEF OwedInv
<1>11. CASE /\ Settles(c) /\ calling' = calling
            /\ \/ ready' = Continues(c) \o Tail(ready)
               \/ ready' = Tail(ready) \o Continues(c)
  <2>1. /\ CalledInv' /\ ready' \in Seq(Calls) /\ settled' \in Seq(Calls)
        /\ Range(settled') = Range(settled) \cup {c}
    BY <1>1, <1>6, <1>7, <1>11, CallSettleStep
  <2>2. ReplayType'
    BY <1>1, <1>5, <1>11, <2>1 DEF ReplayType
  <2>3. Made \subseteq Calls
    BY DEF Made
  <2>4. OwedInv'
    BY <1>1, <1>2, <1>3, <1>5, <1>6, <1>10, <1>11, <2>1, <2>3 DEF OwedInv
  <2> QED BY <1>5, <1>8, <1>9, <2>1, <2>2, <2>4 DEF ReplayInv
<1>12. CASE /\ Recorded(nextEffect(cell)) /\ calling' = c
            /\ ready' = Tail(ready) /\ settled' = settled
  <2>1. CalledInv' /\ ready' \in Seq(Calls) /\ c \notin Range(settled)
    BY <1>1, <1>6, <1>7, <1>12, CallStep
  <2>2. ReplayType'
    BY <1>1, <1>5, <1>12, <2>1 DEF ReplayType
  <2>3. e \in Range(journal)
    BY <1>12 DEF Recorded
  <2>4. OwedInv'
    BY <1>1, <1>2, <1>5, <1>10, <1>12, <2>1, <2>3 DEF OwedInv
  <2> QED BY <1>5, <1>8, <1>9, <2>1, <2>2, <2>4 DEF ReplayInv
<1> QED BY <1>4, <1>11, <1>12

-----------------------------------------------------------------------------
(* The invariant of the specification. *)

\* Before the first call.
LEMMA InitInv ==
    ASSUME Init
    PROVE  ReplayInv
<1>1. /\ prog \in Programs /\ pc = "live" /\ cell = 1 /\ phase = "begun" /\ ready = <<>>
      /\ open = {} /\ linked = [k \in CellNumbers |-> <<>>] /\ journal = <<>>
      /\ queue = <<>> /\ settlers = <<>> /\ calling = None /\ step = None
      /\ nextStart = [k \in CellNumbers |-> 0] /\ pending = [k \in CellNumbers |-> {}]
      /\ got = [c \in Calls |-> None] /\ settled = <<>>
  BY DEF Init
<1>2. 1 \in CellNumbers
  BY ReplayAssumption DEF CellNumbers
<1>5. /\ Range(settled) = {} /\ \A k \in CellNumbers : Range(linked[k]) = {}
      /\ \A k \in CellNumbers : IsInjective(linked[k])
  BY <1>1 DEF Range, IsInjective
<1>6. Called = {} /\ Made = {}
  BY <1>1, <1>5 DEF Called, Made
<1>7. ReplayType
  BY <1>1, <1>2 DEF ReplayType, None
<1>8. LinkedInv /\ HandedInv /\ StageInv /\ OwedInv
  BY <1>1, <1>5 DEF LinkedInv, HandedInv, StageInv, OwedInv
<1>9. CalledInv
  BY <1>1, <1>5, <1>6 DEF CalledInv, Range, IsInjective
<1>10. PhaseInv
  BY <1>1, <1>2 DEF PhaseInv, Phases
<1>11. \A k \in CellNumbers : ~(k < cell)
  BY <1>1 DEF CellNumbers
<1>12. LiveInv
  BY <1>1, <1>5, <1>6, <1>10, <1>11 DEF LiveInv
<1> QED BY <1>7, <1>8, <1>9, <1>12 DEF ReplayInv

\* Every step keeps the invariant.
LEMMA StepInv ==
    ASSUME ReplayInv, Prompt, [Next]_vars
    PROVE  ReplayInv'
<1>1. CASE UNCHANGED vars
  <2>1. /\ ReplayType /\ LinkedInv /\ CalledInv /\ LiveInv /\ HandedInv /\ StageInv
        /\ OwedInv
        /\ UNCHANGED <<prog, pc, cell, ready, phase, open, linked, journal, queue, settlers,
                       calling, step, nextStart, pending, got, settled>>
    BY <1>1 DEF ReplayInv, vars, liveVars, replayVars
  <2>2. Called' = Called /\ Made' = Made /\ CallsOf(cell)' = CallsOf(cell)
        /\ Roots(cell)' = Roots(cell) /\ \A k \in CellNumbers : CallsOf(k)' = CallsOf(k)
    BY <2>1 DEF Called, Made, CallsOf, Roots
  <2>3. ReplayType' /\ LinkedInv' /\ CalledInv'
    BY <2>1, <2>2 DEF ReplayType, LinkedInv, CalledInv
  <2>4. LiveInv' /\ HandedInv'
    BY <2>1, <2>2 DEF LiveInv, PhaseInv, HandedInv
  <2>5. StageInv' /\ OwedInv'
    BY <2>1, <2>2 DEF StageInv, OwedInv
  <2> QED BY <2>3, <2>4, <2>5 DEF ReplayInv
<1>2. CASE Submit \/ LiveCall \/ LateCall \/ \E c \in Calls : LiveSettle(c)
  <2>1. CASE Submit
    BY <2>1, LiveProgramStep, LiveReturnsStep, WaitPendingAsyncStep, FlushLoopStep,
       RecheckStep, NextCellStep DEF Submit
  <2> QED BY <1>2, <2>1, LiveCallStep, NoLateCall, LiveSettleStep
<1>3. CASE Goroutine
  BY <1>3, BeginStep, FinishStep DEF Goroutine
<1>4. CASE Loop
  <2>1. CASE \E c \in Calls : ReplayCall(c)
    BY <2>1, ReplayCallStep
  <2> QED BY <1>4, <2>1, RunProgramStep, ProgramReturnsStep, RunFlushStep, QueueReplayStep,
             ReplaySettleStep DEF Loop
<1> QED BY <1>1, <1>2, <1>3, <1>4 DEF Next

\* The program does not change.
LEMMA ProgramStays ==
    ASSUME [Next]_vars
    PROVE  prog' = prog
BY DEF Next, Submit, LiveProgram, LiveReturns, WaitPendingAsync, FlushLoop, Recheck, Drain,
       SetIndexedResult, NextCell, Goes, LiveCall, LateCall, LiveSettle, Goroutine, Loop,
       BeginReplayStep, FinishReplayStep, RunProgram, ProgramReturns, RunFlush,
       QueueReplayAsync, ReplaySettle, ReplayCall, vars

\* SubmitCell reads a pending count and a barrier. If the program is prompt, that is
\* enough: every call of a committed cell has been made once and is linked, and
\* replay hands out one record for each.
THEOREM ReplayInvariant == Spec => [](Prompt => ReplayInv)
<1>1. Init => (Prompt => ReplayInv)
  BY InitInv
<1>2. (Prompt => ReplayInv) /\ [Next]_vars => (Prompt => ReplayInv)'
  <2> SUFFICES ASSUME Prompt => ReplayInv, [Next]_vars, Prompt' PROVE ReplayInv'
    OBVIOUS
  <2>1. Prompt
    BY ProgramStays DEF Prompt
  <2> QED BY <2>1, StepInv
<1> QED BY <1>1, <1>2, PTL DEF Spec

\* nextReplayInvocation counts, and never looks at what is called. For every prompt
\* program, in whatever order results arrive, wherever SubmitCell reads the pending
\* count and wherever the goroutine of the replay and the loop interleave: a replayed
\* call is given a record of its own cell and none comes too late for one.
THEOREM OwnCellInvariant == Spec => []OwnCell
<1>1. (Prompt => ReplayInv) => OwnCell
  <2> SUFFICES ASSUME ReplayInv, NEW c \in Calls, got[c] # None
               PROVE  got[c] # Refused /\ prog.cell[got[c]] = prog.cell[c]
    BY DEF OwnCell
  <2>1. ReplayType /\ LiveInv /\ HandedInv /\ c \in Made
    BY DEF ReplayInv, Made
  <2>2. pc # "live" /\ prog.cell[c] \in CellNumbers
    BY <2>1, ProgramFacts DEF LiveInv, ReplayType
  <2>3. got[c] \in Range(linked[prog.cell[c]])
    BY <2>1, <2>2 DEF HandedInv, Range
  <2>4. got[c] \in CallsOf(prog.cell[c])
    BY <2>1, <2>2, <2>3 DEF HandedInv
  <2>5. got[c] # Refused
    <3>1. Calls \in SUBSET Nat /\ IsFiniteSet(Calls) /\ Calls # {}
      BY <2>1, ProgramFacts DEF ReplayType
    <3>2. Max(Calls) \in Nat /\ \A d \in Calls : d <= Max(Calls)
      BY <3>1, FiniteMaxProperties
    <3>3. got[c] \in Calls /\ got[c] \in Nat
      BY <2>4, <3>1 DEF CallsOf
    <3> QED BY <3>2, <3>3 DEF Refused
  <2> QED BY <2>4, <2>5 DEF CallsOf
<1> QED BY <1>1, ReplayInvariant, PTL

-----------------------------------------------------------------------------
(* Programs that work in stages. *)

Begun == Called \cup Range(ready)

\* Two calls of one stage.
Peers(c, d) == prog.cell[c] = prog.cell[d] /\ stage[c] = stage[d]

\* The order in which the calls of a cell are made, stage by stage.
Before(c, d) == stage[c] < stage[d] \/ (stage[c] = stage[d] /\ c < d)

\* The order in which results are recorded: cell by cell and stage by stage; within
\* a stage those of synchronous calls first, in program order.
Precedes(c, d) ==
    \/ prog.cell[c] < prog.cell[d]
    \/ prog.cell[c] = prog.cell[d] /\ stage[c] < stage[d]
    \/ Peers(c, d) /\ (d \in prog.sync => c \in prog.sync /\ c < d)

\* A stage begins as a whole, and once everything before it has settled.
StagesInv ==
    /\ \A c \in Calls, d \in Begun : prog.cell[c] = prog.cell[d] =>
          /\ stage[c] < stage[d] => c \in Range(settled)
          /\ stage[c] = stage[d] => c \in Begun
    /\ \A i, j \in DOMAIN ready : i < j => ready[i] < ready[j]
    /\ \A c \in Called, d \in Range(ready) : Peers(c, d) => c < d

\* The live run leaves calls and results in order.
LinkedInOrder ==
    \A k \in CellNumbers : \A i, j \in DOMAIN linked[k] :
       i < j => Before(linked[k][i], linked[k][j])
JournalInOrder ==
    \A i, j \in DOMAIN journal : i < j => Precedes(journal[i], journal[j])

RecordsInv ==
    /\ LinkedInOrder /\ JournalInOrder
    /\ pc = "live" =>
          /\ open \cap prog.sync = {} /\ Range(journal) \subseteq Range(settled)
          /\ \A c \in Range(settled) \ prog.sync : \A d \in Calls :
                Peers(c, d) => d \in Called

\* In the replay a call is given its own record.
OwnInv ==
    pc # "live" =>
       /\ \A c \in Made : got[c] = c
       /\ \A k \in CellNumbers : \A i \in DOMAIN linked[k] :
             i <= nextStart[k] => linked[k][i] \in Made

\* A call that has been made and has not settled waits for its settlement, in the
\* step of its cell; earlier cells have settled before the program of a cell runs.
WaitingInv ==
    /\ flush \in [CellNumbers -> BOOLEAN]
    /\ pc = "live" => \A k \in CellNumbers : ~flush[k]
    /\ pc # "live" =>
          /\ \A c \in Made \ Range(settled) :
                /\ c \notin prog.sync
                /\ c = calling \/ c \in Range(settlers) \/ c \in pending[prog.cell[c]]
          /\ calling # None => pc = "wait" /\ calling \in CallsOf(cell)
          /\ \A k \in CellNumbers : pending[k] \subseteq CallsOf(k)
          /\ \A c \in Begun, d \in Calls :
                prog.cell[d] < prog.cell[c] => d \in Range(settled)
          /\ \A k \in CellNumbers : pending[k] # {} => flush[k]
          /\ \A k \in CellNumbers : flush[k] =>
                \E i \in DOMAIN queue : queue[i].kind = "flush" /\ queue[i].cell = k
          /\ \A i, j \in DOMAIN queue :
                i < j /\ queue[i].kind = "program" => cell <= queue[j].cell

\* Calls that wait for nothing are made by the program itself.
RootsInv ==
    pc = "wait" /\ (\A j \in DOMAIN queue : queue[j].kind # "program") =>
       \A c \in Roots(cell) :
          c \in Begun /\ (running = None => c \in Made /\ c # calling)

\* A flush settles a whole stage, in the order of completion.
FlushInv ==
    pc # "live" =>
       /\ \A c \in Range(settlers), d \in Calls : Peers(c, d) =>
             d \in Made /\ d # calling /\ d \notin pending[prog.cell[d]]
       /\ \A i, j \in DOMAIN settlers :
             i < j => CompletionOrder(got[settlers[i]]) < CompletionOrder(got[settlers[j]])

\* Recorded results are delivered in the order of the journal.
DeliveredInv ==
    /\ IsInjective(settled)
    /\ pc # "live" => \A j \in DOMAIN settled, d \in Range(journal) :
          settled[j] \in Range(journal) /\ CompletionOrder(d) < CompletionOrder(settled[j])
          => \E i \in DOMAIN settled : i < j /\ settled[i] = d

\* What holds of a program that works in stages.
StagedParts ==
    /\ StagesInv /\ RecordsInv /\ OwnInv /\ WaitingInv /\ RootsInv /\ FlushInv
    /\ DeliveredInv /\ pc # "failed"

StagedInv == Staged => StagedParts

\* The largest of some positive numbers.
LEMMA PositiveMax ==
    ASSUME NEW f, NEW S, IsFiniteSet(S), S # {}, \A d \in S : f[d] \in Nat \ {0}
    PROVE  Max({f[d] : d \in S}) \in Nat \ {0}
<1> DEFINE V == {f[d] : d \in S}
<1>1. V \in SUBSET Nat /\ 0 \notin V /\ V # {}
  OBVIOUS
<1>2. IsFiniteSet(V)
  <2> DEFINE g == [d \in S |-> f[d]]
  <2>1. g \in Surjection(S, V)
    BY DEF Surjection
  <2> HIDE DEF g, V
  <2> QED BY <2>1, FS_Surjection
<1> HIDE DEF V
<1>3. Max(V) \in Nat \ {0}
  BY <1>1, <1>2, FiniteMaxProperties
<1> QED BY <1>3 DEF V

\* The recursion by which stages are defined has a solution.
LEMMA StageExists ==
    ASSUME prog \in Programs
    PROVE  \E f : f = [c \in Calls |-> IF prog.after[c] = {} THEN 1
                                       ELSE 1 + Max({f[d] : d \in prog.after[c]})]
<1> DEFINE StageIn(f, c) == IF prog.after[c] = {} THEN 1
                            ELSE 1 + Max({f[d] : d \in prog.after[c]})
           Solves(f, n) == \A c \in Calls : c <= n => f[c] = StageIn(f, c)
           Bad == {n \in Nat : ~\E f : Solves(f, n)}
<1>1. /\ Calls \in SUBSET Nat /\ IsFiniteSet(Calls) /\ None \notin Calls
      /\ \A c \in Calls : /\ prog.after[c] \in SUBSET Calls
                          /\ \A d \in prog.after[c] : d \in Calls /\ d < c
  BY ProgramFacts
<1>2. ASSUME NEW f, NEW g, NEW c \in Calls, \A d \in prog.after[c] : f[d] = g[d]
      PROVE  StageIn(f, c) = StageIn(g, c)
  <2>1. {f[d] : d \in prog.after[c]} = {g[d] : d \in prog.after[c]}
    BY <1>2
  <2> QED BY <2>1, Zenon
<1> HIDE DEF StageIn
<1>3. Bad = {}
  <2> SUFFICES ASSUME Bad # {} PROVE FALSE
    OBVIOUS
  <2> DEFINE n == Min(Bad)
  <2>1. n \in Bad /\ \A y \in Bad : n <= y
    <3>1. Bad \in SUBSET Nat
      OBVIOUS
    <3> HIDE DEF Bad
    <3> QED BY <3>1, MinProperties
  <2>2. n \in Nat /\ ~\E f : Solves(f, n)
    BY <2>1
  <2> HIDE DEF n
  <2>3. CASE n = 0
    <3>1. \A c \in Calls : ~(c <= n)
      BY <1>1, <2>3 DEF None
    <3> QED BY <2>2, <3>1
  <2>4. CASE n # 0
    <3>1. n - 1 \in Nat /\ n - 1 \notin Bad
      <4> HIDE DEF Bad
      <4> QED BY <2>1, <2>2, <2>4
    <3>2. PICK f : Solves(f, n - 1)
      BY <3>1
    <3> DEFINE g == [c \in Calls |-> IF c = n THEN StageIn(f, c) ELSE f[c]]
    <3>3. ASSUME NEW c \in Calls, c <= n PROVE g[c] = StageIn(g, c)
      <4>1. ASSUME NEW d \in prog.after[c] PROVE d \in Calls /\ d < n /\ d # n
        <5>1. c \in Nat /\ d \in Nat /\ d < c /\ d \in Calls
          BY <1>1
        <5> QED BY <2>2, <3>3, <5>1
      <4>2. \A d \in prog.after[c] : g[d] = f[d]
        BY <4>1
      <4>3. StageIn(g, c) = StageIn(f, c)
        <5> HIDE DEF g
        <5> QED BY <1>2, <4>2
      <4>4. CASE c = n
        BY <4>3, <4>4
      <4>5. CASE c # n
        <5>1. c <= n - 1
          BY <1>1, <2>2, <3>3, <4>5
        <5> QED BY <3>2, <4>3, <4>5, <5>1
      <4> QED BY <4>4, <4>5
    <3>4. Solves(g, n)
      <4> HIDE DEF g
      <4> QED BY <3>3
    <3> HIDE DEF Solves, g
    <3> QED BY <2>2, <3>4
  <2> QED BY <2>3, <2>4
<1>4. PICK m \in Nat : \A c \in Calls : c <= m
  <2>1. CASE Calls = {}
    BY <2>1
  <2>2. CASE Calls # {}
    BY <1>1, <2>2, FiniteMaxProperties
  <2> QED BY <2>1, <2>2
<1>5. PICK f : Solves(f, m)
  BY <1>3, <1>4
<1> DEFINE g == [c \in Calls |-> f[c]]
<1>6. ASSUME NEW c \in Calls PROVE g[c] = StageIn(g, c)
  <2>1. \A d \in prog.after[c] : g[d] = f[d]
    BY <1>1
  <2>2. StageIn(g, c) = StageIn(f, c)
    <3> HIDE DEF g
    <3> QED BY <1>2, <2>1
  <2> QED BY <1>4, <1>5, <2>2
<1>7. g = [c \in Calls |-> StageIn(g, c)]
  BY <1>6
<1> HIDE DEF g
<1> QED BY <1>7, Zenon DEF StageIn

\* The stages of the calls of a program.
LEMMA StageFacts ==
    ASSUME prog \in Programs
    PROVE  /\ stage \in [Calls -> Nat \ {0}]
           /\ \A c \in Calls : prog.after[c] = {} <=> stage[c] = 1
<1> DEFINE F == CHOOSE f : f = [c \in Calls |-> IF prog.after[c] = {} THEN 1
                                                ELSE 1 + Max({f[d] : d \in prog.after[c]})]
           V(c) == {F[d] : d \in prog.after[c]}
<1>1. stage = F
  BY Zenon DEF stage
<1>2. F = [c \in Calls |-> IF prog.after[c] = {} THEN 1
                           ELSE 1 + Max({F[d] : d \in prog.after[c]})]
  BY StageExists, Zenon
<1> HIDE DEF F
<1>3. F = [c \in Calls |-> IF prog.after[c] = {} THEN 1 ELSE 1 + Max(V(c))]
  BY <1>2
<1>4. /\ Calls \in SUBSET Nat /\ IsFiniteSet(Calls) /\ None \notin Calls
      /\ \A c \in Calls : /\ prog.after[c] \in SUBSET Calls /\ IsFiniteSet(prog.after[c])
                          /\ \A d \in prog.after[c] : d \in Calls /\ d < c
  BY ProgramFacts
<1>5. ASSUME NEW c \in Calls, \A d \in prog.after[c] : F[d] \in Nat \ {0}, prog.after[c] # {}
      PROVE  Max(V(c)) \in Nat \ {0}
  <2>1. IsFiniteSet(prog.after[c])
    BY <1>4
  <2> QED BY <1>5, <2>1, PositiveMax
<1> HIDE DEF V
<1> DEFINE Bad == {c \in Calls : F[c] \notin Nat \ {0}}
<1>6. Bad = {}
  <2> SUFFICES ASSUME Bad # {} PROVE FALSE
    OBVIOUS
  <2> DEFINE c == Min(Bad)
  <2>1. c \in Bad /\ \A y \in Bad : c <= y
    <3>1. Bad \in SUBSET Nat
      BY <1>4
    <3> HIDE DEF Bad
    <3> QED BY <3>1, MinProperties
  <2>2. c \in Calls /\ F[c] \notin Nat \ {0}
    BY <2>1
  <2> HIDE DEF c
  <2>3. \A d \in prog.after[c] : F[d] \in Nat \ {0}
    <3>1. \A d \in prog.after[c] : d \in Calls /\ d < c /\ d \in Nat /\ c \in Nat
      BY <1>4, <2>2
    <3>2. \A d \in prog.after[c] : d \notin Bad
      <4> HIDE DEF Bad
      <4> QED BY <2>1, <3>1
    <3> QED BY <3>1, <3>2
  <2>4. F[c] = IF prog.after[c] = {} THEN 1 ELSE 1 + Max(V(c))
    BY <1>3, <2>2, Zenon
  <2> QED BY <1>5, <2>2, <2>3, <2>4
<1>7. ASSUME NEW c \in Calls
      PROVE  F[c] \in Nat \ {0} /\ (prog.after[c] = {} <=> F[c] = 1)
  <2>1. F[c] = IF prog.after[c] = {} THEN 1 ELSE 1 + Max(V(c))
    BY <1>3, Zenon
  <2>2. \A d \in prog.after[c] : F[d] \in Nat \ {0}
    BY <1>4, <1>6
  <2> QED BY <1>5, <2>1, <2>2
<1>8. F \in [Calls -> Nat \ {0}]
  BY <1>3, <1>7
<1> QED BY <1>1, <1>7, <1>8

-----------------------------------------------------------------------------
(* Stages, and what a settlement does to them. *)

\* In a staged program, a call waits for the whole stage before its own.
LEMMA StagedFacts ==
    ASSUME prog \in Programs, Staged, NEW c \in Calls
    PROVE  /\ stage[c] \in Nat /\ stage[c] >= 1 /\ c \in Nat
           /\ prog.after[c] = {} <=> stage[c] = 1
           /\ \A d \in Calls : d \in prog.after[c] <=>
                 prog.cell[d] = prog.cell[c] /\ stage[d] = stage[c] - 1
           /\ c \notin prog.awaited => /\ prog.after[c] = {}
                                       /\ \A d \in Calls : c \notin prog.after[d]
<1>1. stage[c] \in Nat \ {0} /\ (prog.after[c] = {} <=> stage[c] = 1)
  BY StageFacts
<1>2. c \in Nat
  BY ProgramFacts
<1>3. prog.after[c] = {d \in Calls : prog.cell[d] = prog.cell[c] /\ stage[d] = stage[c] - 1}
  BY DEF Staged
<1> QED BY <1>1, <1>2, <1>3 DEF Staged

\* As long as the program is the same, so are its stages.
LEMMA StagesStay ==
    ASSUME prog' = prog
    PROVE  stage' = stage /\ Staged' = Staged /\ \A k : CallsOf(k)' = CallsOf(k)
<1>1. stage' = stage
  BY DEF stage
<1> QED BY <1>1 DEF Staged, CallsOf

\* Calls in program order.
LEMMA ProgramOrder ==
    ASSUME prog \in Programs, NEW S \in SUBSET Calls
    PROVE  \A i, j \in DOMAIN InOrder(S) : i < j => InOrder(S)[i] < InOrder(S)[j]
<1>1. IsFiniteSet(S) /\ S \in SUBSET Nat
  BY ProgramFacts
<1>2. /\ Cardinality(S) \in Nat /\ InOrder(S) \in [1..Cardinality(S) -> S]
      /\ \A i, j \in 1..Cardinality(S) : i < j => InOrder(S)[i] < InOrder(S)[j]
  BY <1>1, InOrderProperties
<1> QED BY <1>2

\* A settlement continues with the next stage, or with nothing.
LEMMA NextStage ==
    ASSUME ReplayType, CalledInv, Staged, StagesInv,
           NEW c \in Begun \cap Calls, c \notin Range(settled)
    PROVE  LET K == Continues(c)
           IN  /\ K \in Seq(Calls)
               /\ \A i, j \in DOMAIN K : i < j => K[i] < K[j]
               /\ \A d \in Range(K) : /\ d \in Calls /\ d \notin Begun
                                      /\ prog.cell[d] = prog.cell[c]
                                      /\ stage[d] = stage[c] + 1
               /\ \A d \in Range(K), e \in Calls : Peers(d, e) => e \in Range(K)
               /\ \A d \in Range(K), e \in Calls : Peers(c, e) => e \in Range(settled) \cup {c}
<1> DEFINE K == Continues(c)
           D == {d \in Calls : /\ c \in prog.after[d]
                               /\ prog.after[d] \subseteq Range(settled) \cup {c}}
<1>1. prog \in Programs
  BY DEF ReplayType
<1>2. K = InOrder(D)
  BY DEF Continues, Continuation
<1>3. D \in SUBSET Calls
  OBVIOUS
<1>4. /\ K \in Seq(Calls) /\ Range(K) = D
      /\ \A i, j \in DOMAIN K : i < j => K[i] < K[j]
  <2> HIDE DEF D, K
  <2> QED BY <1>1, <1>2, <1>3, InProgramOrder, ProgramOrder
<1>5. ASSUME NEW d \in D
      PROVE  /\ d \in Calls /\ prog.cell[d] = prog.cell[c] /\ stage[d] = stage[c] + 1
             /\ d \notin Begun
             /\ \A e \in Calls : Peers(c, e) => e \in Range(settled) \cup {c}
             /\ \A e \in Calls : Peers(d, e) => e \in D
  <2>1. d \in Calls /\ c \in prog.after[d] /\ prog.after[d] \subseteq Range(settled) \cup {c}
    OBVIOUS
  <2>2. stage[c] \in Nat /\ stage[d] \in Nat
    BY <1>1, <2>1, StagedFacts
  <2>3. prog.cell[d] = prog.cell[c] /\ stage[d] = stage[c] + 1
    BY <1>1, <2>1, <2>2, StagedFacts
  <2>4. d \notin Begun
    <3>1. d \in Begun /\ stage[c] < stage[d] => c \in Range(settled)
      BY <2>1, <2>3 DEF StagesInv
    <3> QED BY <2>2, <2>3, <3>1
  <2>5. ASSUME NEW e \in Calls, Peers(c, e) PROVE e \in Range(settled) \cup {c}
    <3>1. e \in prog.after[d]
      BY <1>1, <2>1, <2>2, <2>3, <2>5, StagedFacts DEF Peers
    <3> QED BY <2>1, <3>1
  <2>6. ASSUME NEW e \in Calls, Peers(d, e) PROVE e \in D
    <3>1. prog.cell[e] = prog.cell[d] /\ stage[e] = stage[d]
      BY <2>6 DEF Peers
    <3>2. /\ prog.after[d] = {x \in Calls : prog.cell[x] = prog.cell[d] /\ stage[x] = stage[d] - 1}
          /\ prog.after[e] = {x \in Calls : prog.cell[x] = prog.cell[e] /\ stage[x] = stage[e] - 1}
      BY <2>1 DEF Staged
    <3>3. prog.after[e] = prog.after[d]
      BY <3>1, <3>2
    <3> QED BY <2>1, <3>3
  <2> QED BY <2>1, <2>3, <2>4, <2>5, <2>6
<1> HIDE DEF D
<1> QED BY <1>4, <1>5

\* What is about to be called is of one stage.
LEMMA OneStage ==
    ASSUME ReplayType, CalledInv, Staged, StagesInv, NEW c \in Range(ready), NEW d \in Range(ready)
    PROVE  Peers(c, d) /\ c \in Calls /\ d \in Calls
<1>1. prog \in Programs /\ ready \in Seq(Calls)
  BY DEF ReplayType
<1>2. c \in Calls /\ d \in Calls /\ c \in Begun /\ d \in Begun
  BY <1>1 DEF Range, Begun
<1>3. prog.cell[c] = cell /\ prog.cell[d] = cell
  BY DEF CalledInv, CallsOf
<1>4. c \notin Range(settled) /\ d \notin Range(settled)
  BY DEF CalledInv
<1>5. ~(stage[c] < stage[d]) /\ ~(stage[d] < stage[c])
  BY <1>2, <1>3, <1>4 DEF StagesInv
<1>6. stage[c] \in Nat /\ stage[d] \in Nat
  BY <1>1, <1>2, StagedFacts
<1> QED BY <1>2, <1>3, <1>5, <1>6 DEF Peers

\* The first of the calls that are about to be made comes before the others.
LEMMA FirstReady ==
    ASSUME ReplayType, CalledInv, Staged, StagesInv, ready # <<>>
    PROVE  LET c == Head(ready)
               T == Tail(ready)
           IN  /\ c \in Range(ready) /\ c \in Calls /\ c \in Begun
               /\ c \notin Range(settled) /\ c \notin Called /\ c \in CallsOf(cell)
               /\ T \in Seq(Calls) /\ c \notin Range(T) /\ Range(ready) = Range(T) \cup {c}
               /\ \A i, j \in DOMAIN T : i < j => T[i] < T[j]
               /\ \A d \in Range(T) : Peers(c, d) /\ c < d
               /\ \A d \in Called : Peers(d, c) => d < c
<1> DEFINE c == Head(ready)
           T == Tail(ready)
<1>1. ready \in Seq(Calls) /\ prog \in Programs /\ IsInjective(ready)
  BY DEF ReplayType, CalledInv
<1>2. /\ c \in Range(ready) /\ c \in Calls /\ T \in Seq(Calls) /\ c \notin Range(T)
      /\ Range(ready) = Range(T) \cup {c}
  BY <1>1, TailDistinct
<1>3. c \in CallsOf(cell) /\ c \notin Called /\ c \notin Range(settled) /\ c \in Begun
  BY <1>2 DEF CalledInv, Begun
<1>4. c = ready[1] /\ \A i \in DOMAIN T : i + 1 \in DOMAIN ready /\ T[i] = ready[i + 1] /\ i > 0
  BY <1>1
<1>5. \A i, j \in DOMAIN ready : i < j => ready[i] < ready[j]
  BY DEF StagesInv
<1> HIDE DEF c, T
<1>6. \A i, j \in DOMAIN T : i < j => T[i] < T[j]
  BY <1>1, <1>2, <1>4, <1>5
<1>7. ASSUME NEW d \in Range(T) PROVE Peers(c, d) /\ c < d
  <2>1. d \in Range(ready)
    BY <1>2
  <2>2. PICK i \in DOMAIN T : T[i] = d
    BY DEF Range
  <2>3. i + 1 \in DOMAIN ready /\ 1 \in DOMAIN ready /\ 1 < i + 1
    BY <1>1, <1>2, <1>4, <2>2
  <2> QED BY <1>2, <1>4, <1>5, <2>1, <2>2, <2>3, OneStage
<1>8. \A d \in Called : Peers(d, c) => d < c
  BY <1>2 DEF StagesInv
<1> QED BY <1>1, <1>2, <1>3, <1>6, <1>7, <1>8 DEF c, T

\* A call is made and does not settle yet.
LEMMA StagesCall ==
    ASSUME ReplayType, CalledInv, Staged, StagesInv, ready # <<>>, NEW c, c = Head(ready),
           UNCHANGED <<prog, settled>>, ready' = Tail(ready), Called' = Called \cup {c}
    PROVE  StagesInv' /\ Begun' = Begun
<1>1. /\ c \in Calls /\ c \notin Range(Tail(ready)) /\ Range(ready) = Range(ready') \cup {c}
      /\ \A i, j \in DOMAIN ready' : i < j => ready'[i] < ready'[j]
      /\ \A d \in Range(ready') : c < d
  BY FirstReady
<1>2. Begun' = Begun
  BY <1>1 DEF Begun
<1>3. stage' = stage
  BY StagesStay
<1>4. \A d \in Called', e \in Range(ready') : Peers(d, e)' => d < e
  BY <1>1, <1>3 DEF StagesInv, Peers
<1>5. \A d \in Calls, e \in Begun' : prog'.cell[d] = prog'.cell[e] =>
          /\ stage'[d] < stage'[e] => d \in Range(settled')
          /\ stage'[d] = stage'[e] => d \in Begun'
  BY <1>2, <1>3 DEF StagesInv
<1> QED BY <1>1, <1>2, <1>4, <1>5 DEF StagesInv

\* A call settles; T is what else was to be called.
LEMMA StagesSettle ==
    ASSUME ReplayType, CalledInv, Staged, StagesInv,
           NEW c \in Begun \cap Calls, c \notin Range(settled),
           NEW T, \/ ready # <<>> /\ c = Head(ready) /\ T = Tail(ready)
                  \/ ready = <<>> /\ T = <<>>,
           Called' = Called \cup {c}, UNCHANGED prog, Settles(c),
           ready' = Continues(c) \o T \/ ready' = T \o Continues(c)
    PROVE  StagesInv'
<1> DEFINE K == Continues(c)
<1>1. /\ K \in Seq(Calls)
      /\ \A i, j \in DOMAIN K : i < j => K[i] < K[j]
      /\ \A d \in Range(K) : /\ d \in Calls /\ d \notin Begun
                             /\ prog.cell[d] = prog.cell[c] /\ stage[d] = stage[c] + 1
      /\ \A d \in Range(K), e \in Calls : Peers(d, e) => e \in Range(K)
      /\ \A d \in Range(K), e \in Calls : Peers(c, e) => e \in Range(settled) \cup {c}
  BY NextStage
<1> HIDE DEF K
<1>2. /\ T \in Seq(Calls) /\ c \notin Range(T) /\ Range(ready) \cup {c} = Range(T) \cup {c}
      /\ \A i, j \in DOMAIN T : i < j => T[i] < T[j]
      /\ \A d \in Range(T) : Peers(c, d) /\ c < d /\ d \in Range(ready)
  <2>1. CASE ready # <<>> /\ c = Head(ready) /\ T = Tail(ready)
    BY <2>1, FirstReady
  <2>2. CASE ready = <<>> /\ T = <<>>
    BY <2>2 DEF Range
  <2> QED BY <2>1, <2>2
<1>3. prog \in Programs /\ c \in Begun /\ c \in Calls /\ stage[c] \in Nat
  BY StagedFacts DEF ReplayType
<1>4. K = <<>> \/ T = <<>>
  <2> SUFFICES ASSUME K # <<>>, T # <<>> PROVE FALSE
    OBVIOUS
  <2>1. PICK d \in Range(K) : TRUE
    BY <1>1, EmptyRange
  <2>2. PICK e \in Range(T) : TRUE
    BY <1>2, EmptyRange
  <2>3. Peers(c, e) /\ e \in Range(ready) /\ e # c /\ e \in Calls
    BY <1>2, <2>2, OneStage
  <2>4. e \in Range(settled)
    BY <1>1, <2>1, <2>3
  <2> QED BY <2>3, <2>4 DEF CalledInv
<1>5. ready' = K \/ ready' = T
  <2>1. K \o <<>> = K /\ <<>> \o K = K /\ T \o <<>> = T /\ <<>> \o T = T
    BY <1>1, <1>2
  <2>2. ready' = K \o T \/ ready' = T \o K
    BY DEF K
  <2> QED BY <1>4, <2>1, <2>2
<1>6. Range(ready') = Range(K) \cup Range(T)
  <2>1. ready' = K \o T \/ ready' = T \o K
    BY DEF K
  <2>2. Range(K \o T) = Range(K) \cup Range(T)
    BY <1>1, <1>2, ConcatDistinct
  <2>3. Range(T \o K) = Range(T) \cup Range(K)
    BY <1>1, <1>2, ConcatDistinct
  <2> QED BY <2>1, <2>2, <2>3
<1>7. Begun' = Begun \cup Range(K)
  BY <1>2, <1>3, <1>6 DEF Begun
<1>8. Range(settled') = Range(settled) \cup {c}
  BY <1>3, AppendDistinct DEF ReplayType, Settles
<1>9. stage' = stage /\ prog' = prog
  BY StagesStay
<1>10. ASSUME NEW d \in Calls, NEW e \in Begun', prog.cell[d] = prog.cell[e]
       PROVE  /\ stage[d] < stage[e] => d \in Range(settled')
              /\ stage[d] = stage[e] => d \in Begun'
  <2>1. CASE e \in Begun
    BY <1>7, <1>8, <1>10, <2>1 DEF StagesInv
  <2>2. CASE e \in Range(K)
    <3>1. stage[d] \in Nat /\ stage[e] = stage[c] + 1 /\ prog.cell[d] = prog.cell[c]
      BY <1>1, <1>3, <1>10, <2>2, StagedFacts
    <3>2. stage[d] < stage[c] => d \in Range(settled)
      BY <1>3, <3>1 DEF StagesInv
    <3>3. stage[d] = stage[c] => d \in Range(settled) \cup {c}
      BY <1>1, <2>2, <3>1 DEF Peers
    <3>4. stage[d] = stage[e] => d \in Range(K)
      BY <1>1, <1>10, <2>2 DEF Peers
    <3> QED BY <1>3, <1>7, <1>8, <3>1, <3>2, <3>3, <3>4
  <2> QED BY <1>7, <2>1, <2>2
<1>11. \A i, j \in DOMAIN ready' : i < j => ready'[i] < ready'[j]
  BY <1>1, <1>2, <1>5
<1>12. ASSUME NEW d \in Called', NEW e \in Range(ready'), Peers(d, e) PROVE d < e
  <2>1. CASE e \in Range(T)
    BY <1>2, <1>12, <2>1 DEF StagesInv, Peers
  <2>2. CASE e \in Range(K)
    <3>1. d \notin Range(K)
      <4>1. d \in Begun
        BY <1>3 DEF Begun
      <4> QED BY <1>1, <4>1
    <3>2. d \in Calls => d \in Range(K)
      BY <1>1, <1>12, <2>2 DEF Peers
    <3>3. d \in Calls
      <4>1. Called \subseteq Calls
        BY DEF Called, Made, ReplayType, Range
      <4> QED BY <1>3, <4>1
    <3> QED BY <3>1, <3>2, <3>3
  <2> QED BY <1>6, <2>1, <2>2
<1>13. \A d \in Called', e \in Range(ready') : Peers(d, e)' => d < e
  BY <1>9, <1>12 DEF Peers
<1> QED BY <1>9, <1>10, <1>11, <1>13 DEF StagesInv

-----------------------------------------------------------------------------
(* The live run leaves its records in order. *)

\* A settlement is the last one.
LEMMA SettledOnce ==
    ASSUME ReplayType, IsInjective(settled), NEW c \in Calls, c \notin Range(settled), Settles(c)
    PROVE  /\ IsInjective(settled') /\ Range(settled') = Range(settled) \cup {c}
           /\ settled' \in Seq(Calls) /\ Len(settled') = Len(settled) + 1
           /\ settled'[Len(settled) + 1] = c
           /\ DOMAIN settled' = DOMAIN settled \cup {Len(settled) + 1}
           /\ \A i \in DOMAIN settled : settled'[i] = settled[i] /\ i < Len(settled) + 1
<1>1. settled \in Seq(Calls) /\ settled' = Append(settled, c)
  BY DEF ReplayType, Settles
<1> QED BY <1>1, AppendDistinct

\* In the live run nothing has been called of later cells.
LEMMA LiveCells ==
    ASSUME ReplayType, LinkedInv, LiveInv, pc = "live", NEW d \in Called
    PROVE  d \in Calls /\ prog.cell[d] \in CellNumbers /\ prog.cell[d] <= cell
<1>1. PICK k \in CellNumbers : d \in Range(linked[k])
  BY DEF Called
<1>2. d \in CallsOf(k)
  BY <1>1 DEF LinkedInv
<1>3. linked[k] # <<>>
  BY <1>1 DEF Range
<1>4. ~(k > cell) /\ cell \in CellNumbers
  BY <1>3 DEF LiveInv, ReplayType
<1> QED BY <1>2, <1>4 DEF CallsOf, CellNumbers

\* A result is recorded after those of earlier cells and stages; of its own stage, if
\* it is that of a synchronous call, only such ones have been recorded that were
\* called before.
LEMMA RecordStep ==
    ASSUME ReplayType, LinkedInv, LiveInv, CalledInv, Staged, StagesInv, RecordsInv, pc = "live",
           NEW c \in CallsOf(cell), c \in Begun, c \notin Range(settled),
           Journal(c), Settles(c), UNCHANGED prog,
           c \in prog.sync => \A d \in Range(settled) : Peers(d, c) => d \in prog.sync /\ d < c
    PROVE  /\ JournalInOrder'
           /\ Range(journal') \subseteq Range(settled')
<1>1. /\ prog \in Programs /\ journal \in Seq(Calls) /\ cell \in CellNumbers
      /\ c \in Calls /\ prog.cell[c] = cell
  BY DEF ReplayType, CallsOf
<1>2. stage' = stage
  BY StagesStay
<1>3. Range(settled') = Range(settled) \cup {c}
  BY <1>1, AppendDistinct DEF Settles, ReplayType
<1>4. ASSUME NEW d \in Range(journal) PROVE Precedes(d, c)
  <2>1. d \in Range(settled) /\ d \in Called /\ d \in Begun
    BY DEF RecordsInv, CalledInv, Begun
  <2>2. d \in Calls /\ prog.cell[d] \in CellNumbers /\ prog.cell[d] <= cell
    BY <2>1, LiveCells
  <2>3. stage[d] \in Nat /\ stage[c] \in Nat
    BY <1>1, <2>2, StagedFacts
  <2>4. prog.cell[d] = cell => ~(stage[c] < stage[d])
    BY <1>1, <2>1 DEF StagesInv
  <2>5. prog.cell[d] = cell \/ prog.cell[d] < cell
    BY <1>1, <2>2 DEF CellNumbers
  <2> QED BY <1>1, <2>1, <2>3, <2>4, <2>5 DEF Precedes, Peers
<1>5. \A i, j \in DOMAIN journal : i < j => Precedes(journal[i], journal[j])
  BY DEF RecordsInv, JournalInOrder
<1>6. \A i \in DOMAIN journal : journal[i] \in Range(journal)
  BY DEF Range
<1>7. \A i, j \in DOMAIN journal' : i < j => Precedes(journal'[i], journal'[j])
  <2>1. CASE journal' = journal
    BY <1>5, <2>1
  <2>2. CASE journal' = Append(journal, c)
    <3> TAKE i \in DOMAIN journal', j \in DOMAIN journal'
    <3> HAVE i < j
    <3>1. i \in DOMAIN journal /\ journal'[i] = journal[i]
      BY <1>1, <2>2
    <3>2. CASE j \in DOMAIN journal
      BY <1>1, <1>5, <2>2, <3>1, <3>2
    <3>3. CASE j = Len(journal) + 1
      BY <1>1, <1>4, <1>6, <2>2, <3>1, <3>3
    <3> QED BY <1>1, <2>2, <3>2, <3>3
  <2> QED BY <2>1, <2>2 DEF Journal
<1>8. Range(journal') \subseteq Range(journal) \cup {c}
  BY <1>1, AppendDistinct DEF Journal
<1>9. JournalInOrder'
  BY <1>2, <1>7 DEF JournalInOrder, Precedes, Peers
<1> QED BY <1>3, <1>8, <1>9 DEF RecordsInv

\* EffectStarted joins the effects of the cell.
LEMMA LiveLinked ==
    ASSUME ReplayInv, pc = "live", pc' = "live", NEW c \in CallsOf(cell) \ Called,
           linked' = [linked EXCEPT ![cell] = Append(@, c)]
    PROVE  /\ Called' = Called \cup {c}
           /\ linked[cell] \in Seq(Calls) /\ linked'[cell] = Append(linked[cell], c)
           /\ \A k \in CellNumbers : k # cell => linked'[k] = linked[k]
<1>1. cell \in CellNumbers /\ linked \in [CellNumbers -> Seq(Calls)] /\ c \in Calls
  BY DEF ReplayInv, ReplayType, CallsOf
<1>2. /\ linked'[cell] = Append(linked[cell], c)
      /\ \A k \in CellNumbers : k # cell => linked'[k] = linked[k]
  BY <1>1
<1>3. Range(linked'[cell]) = Range(linked[cell]) \cup {c}
  BY <1>1, <1>2, AppendDistinct
<1>4. Called = UNION {Range(linked[k]) : k \in CellNumbers}
      /\ Called' = UNION {Range(linked'[k]) : k \in CellNumbers}
  BY DEF Called
<1> QED BY <1>1, <1>2, <1>3, <1>4

\* Nothing of a replay happens in the live run.
LEMMA LiveParts ==
    ASSUME pc' = "live", StagesInv', RecordsInv', IsInjective(settled'), UNCHANGED flush,
           pc = "live", WaitingInv
    PROVE  StagedParts'
BY DEF StagedParts, OwnInv, WaitingInv, RootsInv, FlushInv, DeliveredInv

\* A call is linked after those of earlier stages, and of its stage.
LEMMA LiveCallStaged ==
    ASSUME ReplayInv, Staged, StagedParts, LiveCall
    PROVE  StagedParts'
<1> DEFINE c == Head(ready)
           T == Tail(ready)
<1>1. /\ ReplayType /\ LinkedInv /\ LiveInv /\ CalledInv /\ StagesInv /\ RecordsInv
      /\ WaitingInv /\ DeliveredInv
      /\ pc = "live" /\ pc' = "live" /\ ready # <<>>
      /\ linked' = [linked EXCEPT ![cell] = Append(@, c)]
      /\ UNCHANGED <<prog, cell, flush>>
      /\ \/ /\ c \in prog.sync /\ Journal(c) /\ Settles(c)
            /\ ready' = Continues(c) \o T /\ open' = open
         \/ /\ ready' = T /\ UNCHANGED <<journal, settled>>
            /\ c \notin prog.sync /\ open' = open \cup {c}
  BY CallPhase DEF ReplayInv, StagedParts, LiveCall, replayVars
<1>2. /\ c \in Calls /\ c \in Begun /\ c \notin Range(settled) /\ c \in CallsOf(cell) \ Called
      /\ \A d \in Called : Peers(d, c) => d < c
  BY <1>1, FirstReady
<1>3. prog \in Programs /\ prog.cell[c] = cell /\ cell \in CellNumbers
  BY <1>1, <1>2 DEF ReplayType, CallsOf
<1> HIDE DEF c, T
<1>4. /\ Called' = Called \cup {c}
      /\ linked[cell] \in Seq(Calls) /\ linked'[cell] = Append(linked[cell], c)
      /\ \A k \in CellNumbers : k # cell => linked'[k] = linked[k]
  BY <1>1, <1>2, LiveLinked
<1>5. stage' = stage
  BY <1>1, StagesStay
<1>6. StagesInv'
  <2>1. CASE Settles(c) /\ ready' = Continues(c) \o T
    BY <1>1, <1>2, <1>4, <2>1, StagesSettle DEF c, T
  <2>2. CASE ready' = T /\ UNCHANGED settled
    BY <1>1, <1>4, <2>2, StagesCall DEF c, T
  <2> QED BY <1>1, <2>1, <2>2
<1>7. ASSUME NEW d \in Range(linked[cell]) PROVE Before(d, c)
  <2>1. d \in Called /\ d \in Begun
    BY <1>1, <1>3 DEF Called, Begun
  <2>2. d \in Calls /\ prog.cell[d] = cell
    BY <1>1, <1>3 DEF LinkedInv, CallsOf
  <2>3. ~(stage[c] < stage[d])
    BY <1>1, <1>2, <1>3, <2>1, <2>2 DEF StagesInv
  <2>4. stage[c] \in Nat /\ stage[d] \in Nat
    BY <1>2, <1>3, <2>2, StagedFacts
  <2> QED BY <1>2, <1>3, <2>1, <2>2, <2>3, <2>4 DEF Before, Peers
<1>8. ASSUME NEW k \in CellNumbers, NEW i \in DOMAIN linked'[k], NEW j \in DOMAIN linked'[k], i < j
      PROVE  Before(linked'[k][i], linked'[k][j])
  <2>1. CASE k # cell
    BY <1>1, <1>4, <1>8, <2>1 DEF RecordsInv, LinkedInOrder
  <2>2. CASE k = cell
    <3>1. i \in DOMAIN linked[cell] /\ linked'[k][i] = linked[cell][i]
      BY <1>4, <1>8, <2>2
    <3>2. CASE j \in DOMAIN linked[cell]
      <4>1. linked'[k][j] = linked[cell][j]
        BY <1>4, <2>2, <3>2
      <4> QED BY <1>1, <1>3, <1>8, <3>1, <3>2, <4>1 DEF RecordsInv, LinkedInOrder
    <3>3. CASE j = Len(linked[cell]) + 1
      <4>1. linked'[k][j] = c
        BY <1>4, <2>2, <3>3
      <4>2. linked[cell][i] \in Range(linked[cell])
        BY <3>1 DEF Range
      <4> QED BY <1>7, <3>1, <4>1, <4>2
    <3> QED BY <1>4, <2>2, <3>2, <3>3
  <2> QED BY <2>1, <2>2
<1>9. \A d, e : Peers(d, e)' <=> Peers(d, e)
  BY <1>1, <1>5 DEF Peers
<1>10. /\ JournalInOrder'
       /\ Range(journal') \subseteq Range(settled')
       /\ Range(settled') \ prog.sync \subseteq Range(settled) /\ IsInjective(settled')
  <2>1. CASE c \in prog.sync /\ Journal(c) /\ Settles(c)
    <3>1. ASSUME NEW d \in Range(settled), Peers(d, c) PROVE d \in prog.sync /\ d < c
      <4>1. d \in Called
        BY <1>1 DEF CalledInv
      <4>2. d \notin prog.sync => c \in Called
        BY <1>1, <1>2, <3>1 DEF RecordsInv
      <4> QED BY <1>2, <3>1, <4>1, <4>2
    <3>2. Range(settled') = Range(settled) \cup {c} /\ IsInjective(settled')
      BY <1>1, <1>2, <2>1, SettledOnce DEF DeliveredInv
    <3> QED BY <1>1, <1>2, <2>1, <3>1, <3>2, RecordStep
  <2>2. CASE UNCHANGED <<journal, settled>>
    <3>1. JournalInOrder'
      BY <1>1, <1>5, <2>2 DEF RecordsInv, JournalInOrder, Precedes, Peers
    <3> QED BY <1>1, <2>2, <3>1 DEF RecordsInv, DeliveredInv
  <2> QED BY <1>1, <2>1, <2>2
<1>11. RecordsInv'
  <2>1. \A d \in Range(settled') \ prog'.sync : \A e \in Calls : Peers(d, e)' => e \in Called'
    BY <1>1, <1>4, <1>9, <1>10 DEF RecordsInv
  <2>2. LinkedInOrder'
    BY <1>5, <1>8 DEF LinkedInOrder, Before
  <2>3. open' \cap prog'.sync = {}
    BY <1>1 DEF RecordsInv
  <2> QED BY <1>10, <2>1, <2>2, <2>3 DEF RecordsInv
<1> QED BY <1>1, <1>6, <1>10, <1>11, LiveParts

\* A settlement comes when the whole stage has been called.
LEMMA LiveSettleStaged ==
    ASSUME ReplayInv, Staged, StagedParts, NEW c \in Calls, LiveSettle(c)
    PROVE  StagedParts'
<1>1. /\ ReplayType /\ LinkedInv /\ LiveInv /\ CalledInv /\ StagesInv /\ RecordsInv
      /\ WaitingInv /\ DeliveredInv
      /\ pc = "live" /\ pc' = "live" /\ ready = <<>> /\ ready' = Continues(c)
      /\ c \in open /\ Journal(c) /\ Settles(c)
      /\ UNCHANGED <<prog, cell, linked, flush>> /\ open' = open \ {c}
  BY DEF ReplayInv, StagedParts, LiveSettle, replayVars
<1>2. c \in Called /\ c \in Begun /\ c \notin Range(settled) /\ c \in CallsOf(cell)
      /\ Called' = Called /\ Begun = Called
  BY <1>1 DEF LiveInv, Called, Begun, Range
<1>3. Continues(c) \in Seq(Calls)
  BY <1>1, <1>2, NextStage
<1>4. ready' = Continues(c) \o <<>>
  BY <1>1, <1>3
<1>5. StagesInv'
  BY <1>1, <1>2, <1>4, StagesSettle
<1>6. stage' = stage
  BY <1>1, StagesStay
<1>7. \A d, e : Peers(d, e)' <=> Peers(d, e)
  BY <1>1, <1>6 DEF Peers
<1>8. Range(settled') = Range(settled) \cup {c} /\ IsInjective(settled')
  BY <1>1, <1>2, SettledOnce DEF DeliveredInv
<1>9. c \notin prog.sync
  BY <1>1 DEF RecordsInv
<1>10. /\ JournalInOrder'
       /\ Range(journal') \subseteq Range(settled')
  BY <1>1, <1>2, <1>9, RecordStep
<1>11. \A d \in Range(settled') \ prog'.sync : \A e \in Calls : Peers(d, e)' => e \in Called'
  <2> SUFFICES ASSUME NEW d \in Range(settled') \ prog.sync, NEW e \in Calls, Peers(d, e)
               PROVE  e \in Called
    BY <1>1, <1>2, <1>7
  <2>1. CASE d = c
    BY <1>1, <1>2, <2>1 DEF StagesInv, Peers
  <2>2. CASE d \in Range(settled)
    BY <1>1, <2>2 DEF RecordsInv
  <2> QED BY <1>8, <2>1, <2>2
<1>12. RecordsInv'
  <2>1. open' \cap prog'.sync = {}
    BY <1>1 DEF RecordsInv
  <2>2. LinkedInOrder'
    BY <1>1, <1>6 DEF RecordsInv, LinkedInOrder, Before
  <2> QED BY <1>1, <1>10, <1>11, <2>1, <2>2 DEF RecordsInv
<1> QED BY <1>1, <1>5, <1>8, <1>12, LiveParts

\* The live run is over: what it recorded stays.
LEMMA RecordsStay ==
    ASSUME RecordsInv, pc' # "live", UNCHANGED <<prog, linked, journal>>
    PROVE  RecordsInv'
<1>1. stage' = stage
  BY StagesStay
<1>2. LinkedInOrder'
  BY <1>1 DEF RecordsInv, LinkedInOrder, Before
<1>3. JournalInOrder'
  BY <1>1 DEF RecordsInv, JournalInOrder, Precedes, Peers
<1> QED BY <1>2, <1>3 DEF RecordsInv

\* The program of a cell begins with its first stage.
LEMMA LiveProgramStaged ==
    ASSUME ReplayInv, Staged, StagedParts, LiveProgram
    PROVE  StagedParts'
<1> DEFINE R == Roots(cell)
<1>1. /\ ReplayType /\ LinkedInv /\ LiveInv /\ PhaseInv /\ StagesInv /\ RecordsInv
      /\ WaitingInv /\ DeliveredInv
      /\ pc = "live" /\ ready = <<>> /\ linked[cell] = <<>>
      /\ ready' = InOrder(R) /\ pc' = "live"
      /\ UNCHANGED <<prog, cell, open, linked, journal, flush, settled>>
  BY DEF ReplayInv, LiveInv, PhaseInv, StagedParts, LiveProgram, replayVars
<1>2. prog \in Programs /\ cell \in CellNumbers /\ Range(ready) = {} /\ stage' = stage
  <2>1. prog \in Programs /\ cell \in CellNumbers /\ ready \in Seq(Calls)
    BY <1>1 DEF ReplayType
  <2> QED BY <1>1, <2>1, EmptyRange, StagesStay
<1>3. R \in SUBSET Calls /\ \A d \in Calls : d \in R <=> prog.cell[d] = cell /\ stage[d] = 1
  BY <1>2, StagedFacts DEF Roots
<1> HIDE DEF R
<1>4. /\ ready' \in Seq(Calls) /\ Range(ready') = R
      /\ \A i, j \in DOMAIN ready' : i < j => ready'[i] < ready'[j]
  BY <1>1, <1>2, <1>3, InProgramOrder, ProgramOrder
<1>5. Called' = Called
  BY <1>1 DEF Called
<1>6. Begun = Called /\ Begun' = Called \cup R
  BY <1>2, <1>4, <1>5 DEF Begun
<1>7. ASSUME NEW d \in Called PROVE d \in Calls /\ prog.cell[d] # cell
  <2>1. d \in Calls /\ d \in Range(linked[prog.cell[d]])
    BY <1>1, CalledIsLinked
  <2>2. Range(linked[cell]) = {}
    BY <1>1 DEF Range
  <2> QED BY <2>1, <2>2
<1>8. ASSUME NEW c \in Calls, NEW d \in Begun', prog.cell[c] = prog.cell[d]
      PROVE  /\ stage[c] < stage[d] => c \in Range(settled)
             /\ stage[c] = stage[d] => c \in Begun'
  <2>1. CASE d \in Called
    BY <1>1, <1>6, <1>8, <2>1 DEF StagesInv
  <2>2. CASE d \in R
    <3>1. stage[c] \in Nat /\ stage[c] >= 1 /\ stage[d] = 1 /\ prog.cell[c] = cell
      BY <1>2, <1>3, <1>8, <2>2, StagedFacts
    <3> QED BY <1>3, <1>6, <3>1
  <2> QED BY <1>6, <2>1, <2>2
<1>9. \A c \in Called, d \in R : ~Peers(c, d)'
  BY <1>1, <1>3, <1>7 DEF Peers
<1>10. StagesInv'
  BY <1>1, <1>2, <1>4, <1>5, <1>8, <1>9 DEF StagesInv
<1>11. RecordsInv'
  <2>1. LinkedInOrder' /\ JournalInOrder'
    BY <1>1, <1>2 DEF RecordsInv, LinkedInOrder, JournalInOrder, Before, Precedes, Peers
  <2>2. \A c, d : Peers(c, d)' <=> Peers(c, d)
    BY <1>1, <1>2 DEF Peers
  <2> QED BY <1>1, <1>5, <2>1, <2>2 DEF RecordsInv
<1> QED BY <1>1, <1>10, <1>11, LiveParts DEF DeliveredInv

\* The next cell has made no calls; the replay begins with nothing.
LEMMA NextCellStaged ==
    ASSUME ReplayInv, Staged, StagedParts, NextCell
    PROVE  StagedParts'
<1>0. phase = "ended" /\ ready = <<>>
  BY CallPhase DEF NextCell
<1>1. /\ ReplayType /\ LinkedInv /\ LiveInv /\ CalledInv /\ StagesInv /\ RecordsInv
      /\ WaitingInv /\ DeliveredInv
      /\ pc = "live" /\ ready = <<>> /\ ready' = <<>> /\ open = {} /\ open' = {}
      /\ UNCHANGED <<prog, linked, journal, queue, settlers, calling, nextStart,
                     pending, flush, got>>
  BY <1>0 DEF ReplayInv, LiveInv, PhaseInv, StagedParts, NextCell, replayVars
<1>2. prog \in Programs /\ cell \in Nat /\ Range(ready) = {} /\ stage' = stage
  <2>1. prog \in Programs /\ cell \in Nat /\ ready \in Seq(Calls)
    BY <1>1 DEF ReplayType, CellNumbers
  <2> QED BY <1>1, <2>1, EmptyRange, StagesStay
<1>3. CASE cell < MaxCell
  <2>1. pc' = "live" /\ settled' = settled
    BY <1>1, <1>3 DEF NextCell
  <2>2. Called' = Called
    BY <1>1, <2>1 DEF Called
  <2>3. Begun' = Begun
    BY <1>1, <2>2 DEF Begun
  <2>4. \A c, d : Peers(c, d)' <=> Peers(c, d)
    BY <1>1, <1>2 DEF Peers
  <2>5. StagesInv'
    BY <1>1, <1>2, <2>1, <2>2, <2>3, <2>4 DEF StagesInv
  <2>6. RecordsInv'
    <3>1. LinkedInOrder' /\ JournalInOrder'
      BY <1>1, <1>2 DEF RecordsInv, LinkedInOrder, JournalInOrder, Before, Precedes, Peers
    <3> QED BY <1>1, <2>1, <2>2, <2>4, <3>1 DEF RecordsInv
  <2> QED BY <1>1, <2>1, <2>5, <2>6, LiveParts DEF DeliveredInv
<1>4. CASE ~(cell < MaxCell)
  <2>1. pc' = "begin" /\ settled' = <<>> /\ ready' = ready
    BY <1>1, <1>4 DEF NextCell
  <2>2. /\ Made' = {} /\ queue' = <<>> /\ settlers' = <<>> /\ calling' = None
        /\ nextStart' = [k \in CellNumbers |-> 0]
        /\ pending' = [k \in CellNumbers |-> {}]
    BY <1>1 DEF LiveInv, Made
  <2>3. Called' = {} /\ Begun' = {} /\ Range(ready') = {} /\ Range(settlers') = {}
    BY <1>1, <1>2, <2>1, <2>2 DEF Called, Begun, Range
  <2>4. StagesInv'
    BY <1>1, <2>1, <2>3 DEF StagesInv
  <2>5. RecordsInv'
    BY <1>1, <2>1, RecordsStay
  <2>6. OwnInv'
    <3>1. \A k \in CellNumbers : \A i \in DOMAIN linked'[k] : ~(i <= nextStart'[k])
      BY <1>1, <2>2 DEF ReplayType
    <3> QED BY <2>2, <3>1 DEF OwnInv
  <2>7. WaitingInv'
    BY <1>1, <2>1, <2>2, <2>3 DEF WaitingInv
  <2>8. RootsInv' /\ FlushInv' /\ DeliveredInv'
    BY <2>1, <2>2, <2>3 DEF RootsInv, FlushInv, DeliveredInv, IsInjective
  <2> QED BY <2>1, <2>4, <2>5, <2>6, <2>7, <2>8 DEF StagedParts
<1> QED BY <1>3, <1>4

-----------------------------------------------------------------------------
(* The goroutine of the replay. *)

\* What only depends on what has been made and has settled stays, if that does.
LEMMA MadeStay ==
    ASSUME pc # "live", pc' # "live",
           UNCHANGED <<prog, linked, journal, got, nextStart, settled, ready>>, StagedParts
    PROVE  /\ Made' = Made /\ Called = Made /\ Called' = Made /\ Begun' = Begun
           /\ StagesInv' /\ RecordsInv' /\ OwnInv' /\ DeliveredInv'
           /\ stage' = stage /\ \A c, d : Peers(c, d)' <=> Peers(c, d)
           /\ \A e : CompletionOrder(e)' = CompletionOrder(e)
<1>1. stage' = stage
  BY StagesStay
<1>2. Made' = Made /\ Called = Made /\ Called' = Made
  BY DEF Made, Called
<1>3. Begun' = Begun
  BY <1>2 DEF Begun
<1>4. \A c, d : Peers(c, d)' <=> Peers(c, d)
  BY <1>1 DEF Peers
<1>5. \A e : CompletionOrder(e)' = CompletionOrder(e)
  BY DEF CompletionOrder
<1>6. StagesInv'
  BY <1>1, <1>2, <1>3, <1>4 DEF StagesInv, StagedParts
<1>7. OwnInv' /\ DeliveredInv'
  BY <1>2, <1>5 DEF StagedParts, OwnInv, DeliveredInv
<1> QED BY <1>1, <1>2, <1>3, <1>4, <1>5, <1>6, <1>7, RecordsStay DEF StagedParts

\* The program is queued behind the flushes of earlier cells.
LEMMA BeginStaged ==
    ASSUME ReplayInv, Staged, StagedParts, BeginReplayStep
    PROVE  StagedParts'
<1> DEFINE job == [kind |-> "program", cell |-> cell]
<1>1. /\ ReplayType /\ StageInv /\ OwedInv /\ WaitingInv /\ FlushInv
      /\ pc = "begin" /\ pc' = "wait" /\ queue' = Append(queue, job)
      /\ UNCHANGED <<prog, cell, ready, open, linked, journal, running, settlers, calling,
                     nextStart, pending, flush, got, settled>>
  BY DEF ReplayInv, StagedParts, BeginReplayStep, liveVars
<1>2. queue \in Seq(Job) /\ cell \in CellNumbers /\ job \in Job /\ job.kind = "program"
      /\ job.cell = cell
  BY <1>1 DEF ReplayType, Job
<1> HIDE DEF job
<1>3. /\ queue' \in Seq(Job) /\ queue'[Len(queue) + 1] = job
      /\ DOMAIN queue' = DOMAIN queue \cup {Len(queue) + 1}
      /\ \A j \in DOMAIN queue : queue'[j] = queue[j]
  BY <1>1, <1>2
<1>4. /\ Made' = Made /\ Begun' = Begun
      /\ StagesInv' /\ RecordsInv' /\ OwnInv' /\ DeliveredInv'
      /\ \A c, d : Peers(c, d)' <=> Peers(c, d)
      /\ \A e : CompletionOrder(e)' = CompletionOrder(e)
  BY <1>1, MadeStay
<1>5. \A j \in DOMAIN queue : queue[j].kind # "program"
  BY <1>1 DEF StageInv
<1>6. WaitingInv'
  <2>1. \A k \in CellNumbers : flush'[k] =>
           \E i \in DOMAIN queue' : queue'[i].kind = "flush" /\ queue'[i].cell = k
    BY <1>1, <1>3 DEF WaitingInv
  <2>2. \A k : CallsOf(k)' = CallsOf(k)
    BY <1>1, StagesStay
  <2>3. \A i, j \in DOMAIN queue' : ~(i < j /\ queue'[i].kind = "program")
    BY <1>2, <1>3, <1>5
  <2> QED BY <1>1, <1>4, <2>1, <2>2, <2>3 DEF WaitingInv
<1>7. RootsInv'
  BY <1>2, <1>3 DEF RootsInv
<1>8. FlushInv'
  BY <1>1, <1>4 DEF FlushInv
<1> QED BY <1>1, <1>4, <1>6, <1>7, <1>8 DEF StagedParts

\* When the value of a cell is known all its calls have been made: those that were
\* awaited have settled, and the others were made by the program itself.
LEMMA CellIsMade ==
    ASSUME ReplayInv, Staged, StagedParts, pc = "wait", Evaluated(cell)
    PROVE  CallsOf(cell) \subseteq Made /\ calling = None
<1>1. /\ ReplayType /\ CalledInv /\ OwedInv /\ WaitingInv /\ RootsInv
      /\ running = None /\ \A j \in DOMAIN queue : queue[j].kind # "program"
      /\ \A c \in prog.awaited : prog.cell[c] = cell => c \in Range(settled)
  BY DEF ReplayInv, StagedParts, Evaluated
<1>2. Called = Made /\ prog \in Programs
  BY <1>1 DEF Called, ReplayType
<1>3. ASSUME NEW c \in CallsOf(cell), c \notin Range(settled)
      PROVE  c \in Made /\ c # calling
  <2>1. c \in Calls /\ prog.cell[c] = cell /\ c \notin prog.awaited
    BY <1>1, <1>3 DEF CallsOf
  <2>2. c \in Roots(cell)
    BY <1>2, <2>1, StagedFacts DEF Roots
  <2> QED BY <1>1, <2>2 DEF RootsInv
<1>4. CallsOf(cell) \subseteq Made
  BY <1>1, <1>2, <1>3 DEF CalledInv
<1>5. calling = None
  <2>1. calling # None => calling \in CallsOf(cell) /\ calling \notin Range(settled)
    BY <1>1 DEF WaitingInv, OwedInv
  <2> QED BY <1>3, <2>1
<1> QED BY <1>4, <1>5

\* All effects have been handed out.
LEMMA FinishStaged ==
    ASSUME ReplayInv, Staged, StagedParts, FinishReplayStep
    PROVE  StagedParts'
<1>1. /\ ReplayType /\ LinkedInv /\ HandedInv /\ WaitingInv /\ FlushInv
      /\ pc = "wait" /\ Evaluated(cell)
      /\ \A j \in DOMAIN queue : queue[j].kind # "program"
      /\ pc' = IF nextStart[cell] # Len(linked[cell]) THEN "failed"
               ELSE IF cell < MaxCell THEN "begin" ELSE "replayed"
      /\ UNCHANGED <<prog, ready, linked, journal, queue, settlers, calling,
                     nextStart, pending, flush, got, settled>>
  BY DEF ReplayInv, StagedParts, FinishReplayStep, Evaluated, liveVars
<1>2. CallsOf(cell) \subseteq Made /\ calling = None /\ cell \in CellNumbers
  BY <1>1, CellIsMade DEF ReplayType
<1>3. nextStart[cell] = Len(linked[cell])
  BY <1>1, <1>2, Counting
<1>4. pc' \in {"begin", "replayed"}
  BY <1>1, <1>3
<1>5. /\ Made' = Made /\ Begun' = Begun
      /\ StagesInv' /\ RecordsInv' /\ OwnInv' /\ DeliveredInv'
      /\ \A c, d : Peers(c, d)' <=> Peers(c, d)
      /\ \A e : CompletionOrder(e)' = CompletionOrder(e)
  BY <1>1, <1>4, MadeStay
<1>6. WaitingInv'
  <2>1. \A k : CallsOf(k)' = CallsOf(k)
    BY <1>1, StagesStay
  <2>2. \A i, j \in DOMAIN queue' : ~(i < j /\ queue'[i].kind = "program")
    BY <1>1
  <2> QED BY <1>1, <1>2, <1>4, <1>5, <2>1, <2>2 DEF WaitingInv
<1>7. RootsInv'
  BY <1>4 DEF RootsInv
<1>8. FlushInv'
  BY <1>1, <1>5 DEF FlushInv
<1> QED BY <1>4, <1>5, <1>6, <1>7, <1>8 DEF StagedParts

-----------------------------------------------------------------------------
(* The loop of the replay, in stages. *)

\* When the program of a cell is the next job, nothing of earlier cells waits for a
\* flush: that flush would have been queued before it.
LEMMA EarlierSettled ==
    ASSUME ReplayInv, StagedParts, LoopIdle, queue # <<>>, Head(queue).kind = "program",
           NEW d \in Calls, prog.cell[d] < cell
    PROVE  d \in Range(settled)
<1>1. /\ ReplayType /\ StageInv /\ WaitingInv
      /\ calling = None /\ settlers = <<>> /\ pc # "live"
  BY DEF ReplayInv, StagedParts, LoopIdle
<1>2. SUFFICES ASSUME d \notin Range(settled) PROVE FALSE
  OBVIOUS
<1>3. d \in Made /\ d \notin Range(settlers) /\ None \notin Calls /\ prog.cell[d] \in CellNumbers
  <2>1. d \in Made
    BY <1>1 DEF StageInv
  <2>2. Range(settlers) = {}
    BY <1>1 DEF Range
  <2> QED BY <1>1, <2>1, <2>2, ProgramFacts DEF ReplayType
<1>4. d \in pending[prog.cell[d]]
  BY <1>1, <1>2, <1>3 DEF WaitingInv
<1>5. PICK i \in DOMAIN queue : queue[i].kind = "flush" /\ queue[i].cell = prog.cell[d]
  BY <1>1, <1>3, <1>4 DEF WaitingInv
<1>6. queue \in Seq(Job) /\ cell \in CellNumbers
  BY <1>1 DEF ReplayType
<1>7. 1 \in DOMAIN queue /\ queue[1].kind = "program" /\ (i = 1 \/ 1 < i)
  BY <1>6
<1>8. cell <= queue[i].cell
  BY <1>1, <1>5, <1>7 DEF WaitingInv
<1> QED BY <1>3, <1>5, <1>6, <1>8 DEF CellNumbers

\* The program makes the calls of the first stage.
LEMMA RunProgramStaged ==
    ASSUME ReplayInv, Staged, StagedParts, RunProgram
    PROVE  StagedParts'
<1> DEFINE R == Roots(cell)
<1>1. /\ ReplayType /\ CalledInv /\ StageInv /\ OwedInv /\ StagesInv /\ RecordsInv /\ OwnInv
      /\ WaitingInv /\ FlushInv /\ DeliveredInv
      /\ LoopIdle /\ pc \notin {"live", "failed"} /\ queue # <<>> /\ Head(queue).kind = "program"
      /\ ready = <<>> /\ ready' = InOrder(Roots(Head(queue).cell))
      /\ running' = Head(queue).cell /\ queue' = Tail(queue)
      /\ UNCHANGED <<prog, pc, cell, linked, journal, settlers, calling,
                     nextStart, pending, flush, got, settled>>
  BY DEF ReplayInv, StagedParts, RunProgram, LoopIdle, liveVars
<1>2. /\ queue' \in Seq(Job) /\ Head(queue) = queue[1] /\ 1 \in DOMAIN queue
      /\ \A j \in DOMAIN queue' : /\ j + 1 \in DOMAIN queue /\ j + 1 # 1 /\ j \in Nat
                                  /\ queue'[j] = queue[j + 1]
      /\ \A j \in DOMAIN queue : j # 1 => j - 1 \in DOMAIN queue' /\ queue'[j - 1] = queue[j]
  <2>1. queue \in Seq(Job)
    BY <1>1 DEF ReplayType
  <2>2. \A j \in DOMAIN queue : j # 1 => j - 1 \in DOMAIN queue' /\ queue'[j - 1] = queue[j]
    BY <1>1, <2>1
  <2> QED BY <1>1, <2>2, TakeJob
<1>3. /\ Head(queue).cell = cell /\ pc = "wait" /\ CallsOf(cell) \cap Made = {}
      /\ \A i \in DOMAIN queue : queue[i].kind = "program" => i = 1
  BY <1>1, <1>2 DEF StageInv
<1>4. \A j \in DOMAIN queue' : queue'[j].kind # "program"
  BY <1>2, <1>3
<1>5. prog \in Programs /\ cell \in CellNumbers /\ cell # None /\ stage' = stage
      /\ \A k : CallsOf(k)' = CallsOf(k)
  BY <1>1, StagesStay DEF ReplayType, CellNumbers, None
<1>6. R \in SUBSET Calls /\ \A d \in Calls : d \in R <=> prog.cell[d] = cell /\ stage[d] = 1
  BY <1>5, StagedFacts DEF Roots
<1> HIDE DEF R
<1>7. /\ ready' \in Seq(Calls) /\ Range(ready') = R /\ Range(ready) = {}
      /\ \A i, j \in DOMAIN ready' : i < j => ready'[i] < ready'[j]
  <2>1. ready' = InOrder(R)
    BY <1>1, <1>3 DEF R
  <2>2. Range(ready) = {}
    BY <1>1 DEF Range
  <2> QED BY <1>5, <1>6, <2>1, <2>2, InProgramOrder, ProgramOrder
<1>8. /\ Made' = Made /\ Called = Made /\ Called' = Made /\ Begun = Made
      /\ Begun' = Made \cup R /\ Made \subseteq Calls
  BY <1>1, <1>7 DEF Made, Called, Begun
<1>9. ASSUME NEW c \in Calls, NEW d \in Begun', prog.cell[c] = prog.cell[d]
      PROVE  /\ stage[c] < stage[d] => c \in Range(settled)
             /\ stage[c] = stage[d] => c \in Begun'
  <2>1. CASE d \in Made
    BY <1>1, <1>8, <1>9, <2>1 DEF StagesInv
  <2>2. CASE d \in R
    <3>1. stage[c] \in Nat /\ stage[c] >= 1 /\ stage[d] = 1 /\ prog.cell[c] = cell
      BY <1>5, <1>6, <1>9, <2>2, StagedFacts
    <3> QED BY <1>6, <1>8, <3>1
  <2> QED BY <1>8, <2>1, <2>2
<1>10. \A c, d : Peers(c, d)' <=> Peers(c, d)
  BY <1>1, <1>5 DEF Peers
<1>11. \A c \in Made, d \in R : ~Peers(c, d)
  BY <1>3, <1>6, <1>8 DEF Peers, CallsOf
<1>12. StagesInv'
  BY <1>1, <1>5, <1>7, <1>8, <1>9, <1>10, <1>11 DEF StagesInv
<1>13. RecordsInv' /\ OwnInv'
  BY <1>1, <1>8, RecordsStay DEF OwnInv
<1>14. WaitingInv'
  <2>1. \A c \in Begun', d \in Calls : prog'.cell[d] < prog'.cell[c] => d \in Range(settled')
    <3> TAKE c \in Begun', d \in Calls
    <3>1. CASE c \in Made
      BY <1>1, <1>8, <3>1 DEF WaitingInv
    <3>2. CASE c \in R
      BY <1>1, <1>6, <3>2, EarlierSettled
    <3> QED BY <1>8, <3>1, <3>2
  <2>2. \A k \in CellNumbers : flush'[k] =>
           \E i \in DOMAIN queue' : queue'[i].kind = "flush" /\ queue'[i].cell = k
    <3> TAKE k \in CellNumbers
    <3> HAVE flush'[k]
    <3>1. PICK i \in DOMAIN queue : queue[i].kind = "flush" /\ queue[i].cell = k
      BY <1>1 DEF WaitingInv
    <3>2. i # 1
      BY <1>1, <1>2, <3>1
    <3> QED BY <1>2, <3>1, <3>2
  <2>3. \A i, j \in DOMAIN queue' : ~(i < j /\ queue'[i].kind = "program")
    BY <1>4
  <2> QED BY <1>1, <1>3, <1>5, <1>8, <2>1, <2>2, <2>3 DEF WaitingInv
<1>15. RootsInv'
  <2>1. running' # None /\ \A c : c \in Roots(cell)' => c \in R
    BY <1>1, <1>3, <1>5 DEF Roots, R
  <2> QED BY <1>1, <1>8, <2>1 DEF RootsInv
<1>16. FlushInv' /\ DeliveredInv'
  <2>1. \A e : CompletionOrder(e)' = CompletionOrder(e)
    BY <1>1 DEF CompletionOrder
  <2> QED BY <1>1, <1>8, <1>10, <2>1 DEF FlushInv, DeliveredInv
<1> QED BY <1>1, <1>12, <1>13, <1>14, <1>15, <1>16 DEF StagedParts

\* What does not depend on the job that runs stays if only that changes.
LEMMA JobChanges ==
    ASSUME StagedParts,
           UNCHANGED <<prog, pc, cell, ready, open, linked, journal, queue, settlers, calling,
                       nextStart, pending, flush, got, settled>>
    PROVE  /\ StagesInv' /\ RecordsInv' /\ OwnInv' /\ WaitingInv' /\ FlushInv' /\ DeliveredInv'
           /\ pc' # "failed" /\ Begun' = Begun /\ Made' = Made
           /\ \A k : Roots(k)' = Roots(k)
<1>1. /\ StagesInv /\ RecordsInv /\ OwnInv /\ WaitingInv /\ FlushInv /\ DeliveredInv
      /\ pc # "failed"
  BY DEF StagedParts
<1>2. stage' = stage /\ \A k : CallsOf(k)' = CallsOf(k)
  BY StagesStay
<1>3. Made' = Made /\ Called' = Called
  BY DEF Made, Called
<1>4. Begun' = Begun
  BY <1>3 DEF Begun
<1>5. \A c, d : Peers(c, d)' <=> Peers(c, d)
  BY <1>2 DEF Peers
<1>6. \A e : CompletionOrder(e)' = CompletionOrder(e)
  BY DEF CompletionOrder
<1>7. StagesInv'
  BY <1>1, <1>2, <1>3, <1>4, <1>5 DEF StagesInv
<1>8. RecordsInv'
  <2>1. LinkedInOrder' /\ JournalInOrder'
    BY <1>1, <1>2 DEF RecordsInv, LinkedInOrder, JournalInOrder, Before, Precedes, Peers
  <2> QED BY <1>1, <1>3, <1>5, <2>1 DEF RecordsInv
<1>9. OwnInv' /\ WaitingInv'
  BY <1>1, <1>2, <1>3, <1>4 DEF OwnInv, WaitingInv
<1>10. FlushInv' /\ DeliveredInv'
  BY <1>1, <1>3, <1>5, <1>6 DEF FlushInv, DeliveredInv
<1> QED BY <1>1, <1>3, <1>4, <1>7, <1>8, <1>9, <1>10 DEF Roots

\* The program has made all calls of the first stage, and they have been queued.
LEMMA ProgramReturnsStaged ==
    ASSUME ReplayInv, StagedParts, ProgramReturns
    PROVE  StagedParts'
<1>1. /\ ReplayType /\ RootsInv /\ ready = <<>> /\ calling = None
      /\ UNCHANGED <<prog, pc, cell, ready, open, linked, journal, queue, settlers, calling,
                     nextStart, pending, flush, got, settled>>
  BY DEF ReplayInv, StagedParts, ProgramReturns, liveVars
<1>2. /\ StagesInv' /\ RecordsInv' /\ OwnInv' /\ WaitingInv' /\ FlushInv' /\ DeliveredInv'
      /\ pc' # "failed" /\ Begun' = Begun /\ Made' = Made
      /\ \A k : Roots(k)' = Roots(k)
  BY <1>1, JobChanges
<1>3. Range(ready) = {} /\ None \notin Calls
  BY <1>1, ProgramFacts DEF ReplayType, Range
<1>4. pc # "live" => Begun = Made
  BY <1>3 DEF Begun, Called
<1>5. \A c \in Roots(cell) : c # calling
  BY <1>1, <1>3 DEF Roots
<1>6. RootsInv'
  BY <1>1, <1>2, <1>4, <1>5 DEF RootsInv
<1> QED BY <1>2, <1>6 DEF StagedParts

\* A flush takes what waits of a stage, and that is the whole stage.
LEMMA RunFlushStaged ==
    ASSUME ReplayInv, Staged, StagedParts, RunFlush
    PROVE  StagedParts'
<1> DEFINE k == Head(queue).cell
           P == pending[k]
           key == [c \in P |-> CompletionOrder(got[c])]
<1>1. /\ ReplayType /\ HandedInv /\ OwedInv /\ StagesInv /\ WaitingInv /\ RootsInv
      /\ pc # "live" /\ pc' # "live" /\ queue # <<>> /\ Head(queue).kind = "flush"
      /\ settlers = <<>> /\ calling = None /\ ready = <<>>
      /\ settlers' = Sorted(P) /\ pending' = [pending EXCEPT ![k] = {}]
      /\ flush' = [flush EXCEPT ![k] = FALSE]
      /\ queue' = Tail(queue)
      /\ UNCHANGED <<prog, pc, cell, ready, linked, journal, running, calling,
                     nextStart, got, settled>>
  BY DEF ReplayInv, StagedParts, RunFlush, LoopIdle, liveVars
<1>2. /\ queue' \in Seq(Job) /\ Head(queue) \in Job /\ Head(queue) = queue[1]
      /\ 1 \in DOMAIN queue
      /\ \A j \in DOMAIN queue' : /\ j + 1 \in DOMAIN queue /\ j \in Nat
                                  /\ queue'[j] = queue[j + 1]
      /\ \A j \in DOMAIN queue : j # 1 => j - 1 \in DOMAIN queue' /\ queue'[j - 1] = queue[j]
  <2>1. queue \in Seq(Job)
    BY <1>1 DEF ReplayType
  <2>2. \A j \in DOMAIN queue : j # 1 => j - 1 \in DOMAIN queue' /\ queue'[j - 1] = queue[j]
    BY <1>1, <2>1
  <2> QED BY <1>1, <2>2, TakeJob
<1>3. /\ k \in CellNumbers /\ pending \in [CellNumbers -> SUBSET Calls]
      /\ flush \in [CellNumbers -> BOOLEAN] /\ k = queue[1].cell
      /\ Range(ready) = {} /\ Range(settlers) = {} /\ None \notin Calls
  BY <1>1, <1>2, ProgramFacts DEF Job, ReplayType, Range, WaitingInv
<1> HIDE DEF k
<1>4. /\ Made' = Made /\ Called = Made /\ Begun' = Begun
      /\ StagesInv' /\ RecordsInv' /\ OwnInv' /\ DeliveredInv'
      /\ \A c, d : Peers(c, d)' <=> Peers(c, d)
      /\ \A e : CompletionOrder(e)' = CompletionOrder(e)
  BY <1>1, MadeStay
<1>5. Begun = Made
  BY <1>3, <1>4 DEF Begun
<1>6. /\ P \in SUBSET Calls /\ IsFiniteSet(P) /\ P \subseteq Made \ Range(settled)
      /\ P \subseteq CallsOf(k)
      /\ \A c \in P : got[c] \in Range(journal)
      /\ \A c, d \in P : got[c] = got[d] => c = d
  <2>1. P \in SUBSET Calls /\ prog \in Programs
    BY <1>1, <1>3 DEF ReplayType
  <2>2. IsFiniteSet(P)
    BY <2>1, ProgramFacts
  <2>3. P \subseteq Made \ Range(settled) /\ \A c \in P : got[c] \in Range(journal)
    BY <1>1, <1>3 DEF OwedInv
  <2>4. \A c, d \in P : got[c] = got[d] => c = d
    BY <1>1, <2>3 DEF HandedInv
  <2> QED BY <1>1, <1>3, <2>1, <2>2, <2>3, <2>4 DEF WaitingInv
<1>7. key \in [P -> Nat] /\ \A c \in P : key[c] = CompletionOrder(got[c])
  BY <1>1, <1>6, CompletionOrders
<1>8. ASSUME NEW x \in P, NEW y \in P, key[x] = key[y] PROVE x = y
  <2>1. CompletionOrder(got[x]) = CompletionOrder(got[y])
    BY <1>8
  <2>2. got[x] = got[y]
    BY <1>1, <1>6, <2>1, CompletionOrders
  <2> QED BY <1>6, <2>2
<1>9. settlers' = SortedBy(P, key)
  BY <1>1, Zenon DEF Sorted
<1> HIDE DEF P, key
<1>10. settlers' \in Seq(P) /\ Range(settlers') = P
  BY <1>6, <1>7, <1>8, <1>9, SortedByDistinct, Zenon
<1>11. \A i, j \in DOMAIN settlers' : i < j => key[settlers'[i]] < key[settlers'[j]]
  <2>1. /\ Cardinality(P) \in Nat /\ settlers' \in [1..Cardinality(P) -> P]
        /\ \A i, j \in 1..Cardinality(P) : i < j => key[settlers'[i]] < key[settlers'[j]]
    BY <1>6, <1>7, <1>8, <1>9, SortedByProperties, Zenon
  <2>2. DOMAIN settlers' = 1..Cardinality(P)
    BY <2>1, Zenon
  <2> QED BY <2>1, <2>2
<1>12. /\ \A j \in CellNumbers : pending'[j] = IF j = k THEN {} ELSE pending[j]
       /\ flush' \in [CellNumbers -> BOOLEAN]
       /\ \A j \in CellNumbers : flush'[j] <=> flush[j] /\ j # k
  BY <1>1, <1>3
<1>13. WaitingInv'
  <2>1. ASSUME NEW c \in Made \ Range(settled)
        PROVE  c \notin prog.sync /\ (c \in Range(settlers') \/ c \in pending'[prog.cell[c]])
    <3>1. c \in Calls /\ prog.cell[c] \in CellNumbers
      BY <1>1, ProgramFacts DEF Made, ReplayType
    <3>2. c \notin prog.sync /\ c \in pending[prog.cell[c]]
      BY <1>1, <1>3, <3>1 DEF WaitingInv
    <3> QED BY <1>10, <1>12, <3>1, <3>2 DEF P
  <2>2. ASSUME NEW j \in CellNumbers, flush'[j]
        PROVE  \E i \in DOMAIN queue' : queue'[i].kind = "flush" /\ queue'[i].cell = j
    <3>1. PICK i \in DOMAIN queue : queue[i].kind = "flush" /\ queue[i].cell = j
      BY <1>1, <1>12, <2>2 DEF WaitingInv
    <3>2. i # 1
      BY <1>3, <1>12, <2>2, <3>1
    <3> QED BY <1>2, <3>1, <3>2
  <2>3. ASSUME NEW i \in DOMAIN queue', NEW j \in DOMAIN queue', i < j, queue'[i].kind = "program"
        PROVE  cell <= queue'[j].cell
    <3>1. i + 1 < j + 1 /\ i + 1 \in DOMAIN queue /\ j + 1 \in DOMAIN queue
      BY <1>2, <2>3
    <3> QED BY <1>1, <1>2, <2>3, <3>1 DEF WaitingInv
  <2>4. \A j : CallsOf(j)' = CallsOf(j)
    BY <1>1, StagesStay
  <2>5. \A j \in CellNumbers : /\ pending'[j] \subseteq CallsOf(j)
                               /\ pending'[j] # {} => flush'[j]
    BY <1>1, <1>12 DEF WaitingInv
  <2> QED BY <1>1, <1>4, <1>12, <2>1, <2>2, <2>3, <2>4, <2>5 DEF WaitingInv
<1>14. RootsInv'
  <2>1. (\A j \in DOMAIN queue' : queue'[j].kind # "program")
        => \A j \in DOMAIN queue : queue[j].kind # "program"
    <3> SUFFICES ASSUME \A j \in DOMAIN queue' : queue'[j].kind # "program",
                        NEW j \in DOMAIN queue
                 PROVE  queue[j].kind # "program"
      OBVIOUS
    <3>1. CASE j = 1
      BY <1>1, <1>2, <3>1
    <3>2. CASE j # 1
      BY <1>2, <3>2
    <3> QED BY <3>1, <3>2
  <2>2. Roots(cell)' = Roots(cell)
    BY <1>1 DEF Roots
  <2> QED BY <1>1, <1>4, <2>1, <2>2 DEF RootsInv
<1>15. FlushInv'
  <2>1. ASSUME NEW c \in P, NEW d \in Calls, Peers(c, d)
        PROVE  d \in Made /\ d # calling /\ d \notin pending'[prog.cell[d]]
    <3>1. c \in Begun /\ c \in Calls /\ prog.cell[c] = k
      BY <1>5, <1>6 DEF CallsOf
    <3>2. d \in Begun
      BY <1>1, <2>1, <3>1 DEF StagesInv, Peers
    <3> QED BY <1>1, <1>3, <1>5, <1>12, <2>1, <3>1, <3>2 DEF Peers
  <2>2. \A i, j \in DOMAIN settlers' :
           i < j => CompletionOrder(got[settlers'[i]]) < CompletionOrder(got[settlers'[j]])
    <3>1. \A i \in DOMAIN settlers' : settlers'[i] \in P
      BY <1>10
    <3> QED BY <1>7, <1>11, <3>1
  <2> QED BY <1>1, <1>4, <1>10, <2>1, <2>2 DEF FlushInv
<1> QED BY <1>1, <1>4, <1>13, <1>14, <1>15 DEF StagedParts, RunFlush, LoopIdle

\* The call is queued in the step of its cell, which is still the active one.
LEMMA QueueReplayStaged ==
    ASSUME ReplayInv, Staged, StagedParts, QueueReplayAsync
    PROVE  StagedParts'
<1> DEFINE job == [kind |-> "flush", cell |-> cell]
<1>1. /\ ReplayType /\ LiveInv /\ StageInv /\ WaitingInv /\ RootsInv /\ FlushInv
      /\ calling # None /\ calling' = None /\ pc # "failed"
      /\ UNCHANGED <<prog, pc, cell, ready, linked, journal, running, settlers,
                     nextStart, got, settled>>
  BY DEF ReplayInv, StagedParts, QueueReplayAsync, liveVars
<1>2. pc # "live" /\ pc' # "live"
  BY <1>1 DEF LiveInv
<1>3. pc = "wait" /\ calling \in CallsOf(cell) /\ step = cell /\ cell \in CellNumbers
      /\ cell # None
  BY <1>1, <1>2 DEF WaitingInv, StageInv, ReplayType, CellNumbers, None
<1>4. /\ pending' = [pending EXCEPT ![cell] = @ \cup {calling}]
      /\ flush' = [flush EXCEPT ![cell] = TRUE]
      /\ queue' = IF flush[cell] THEN queue ELSE Append(queue, job)
  BY <1>3 DEF QueueReplayAsync
<1>5. /\ queue \in Seq(Job) /\ pending \in [CellNumbers -> SUBSET Calls]
      /\ flush \in [CellNumbers -> BOOLEAN] /\ None \notin Calls
      /\ job.kind = "flush" /\ job.cell = cell /\ job \in Job
  BY <1>1, <1>3, ProgramFacts DEF ReplayType, WaitingInv, Job
<1> HIDE DEF job
<1>6. /\ \A k \in CellNumbers :
            pending'[k] = IF k = cell THEN pending[k] \cup {calling} ELSE pending[k]
      /\ flush' \in [CellNumbers -> BOOLEAN]
      /\ \A k \in CellNumbers : flush'[k] <=> flush[k] \/ k = cell
  BY <1>3, <1>4, <1>5
<1>7. /\ \A j \in DOMAIN queue : j \in DOMAIN queue' /\ queue'[j] = queue[j]
      /\ \A j \in DOMAIN queue' : \/ j \in DOMAIN queue
                                  \/ queue'[j] = job
      /\ ~flush[cell] => \E j \in DOMAIN queue' : queue'[j] = job
  <2>1. CASE flush[cell]
    BY <1>4, <2>1
  <2>2. CASE ~flush[cell]
    <3>1. queue' = Append(queue, job)
      BY <1>4, <2>2
    <3>2. /\ \A j \in DOMAIN queue : j \in DOMAIN queue' /\ queue'[j] = queue[j]
          /\ \A j \in DOMAIN queue' : j \in DOMAIN queue \/ queue'[j] = job
      BY <1>5, <3>1
    <3>3. Len(queue) + 1 \in DOMAIN queue' /\ queue'[Len(queue) + 1] = job
      BY <1>5, <3>1
    <3> QED BY <3>2, <3>3
  <2> QED BY <2>1, <2>2
<1>8. /\ Made' = Made /\ Begun' = Begun
      /\ StagesInv' /\ RecordsInv' /\ OwnInv' /\ DeliveredInv'
      /\ \A c, d : Peers(c, d)' <=> Peers(c, d)
      /\ \A e : CompletionOrder(e)' = CompletionOrder(e)
  BY <1>1, <1>2, MadeStay
<1>9. WaitingInv'
  <2>1. ASSUME NEW c \in Made \ Range(settled)
        PROVE  c \notin prog.sync /\ (c \in Range(settlers) \/ c \in pending'[prog.cell[c]])
    <3>1. c \in Calls /\ prog.cell[c] \in CellNumbers
      BY <1>1, ProgramFacts DEF Made, ReplayType
    <3>2. c \notin prog.sync
          /\ (c = calling \/ c \in Range(settlers) \/ c \in pending[prog.cell[c]])
      BY <1>1, <1>2 DEF WaitingInv
    <3>3. c = calling => prog.cell[c] = cell
      BY <1>3 DEF CallsOf
    <3> QED BY <1>6, <3>1, <3>2, <3>3
  <2>2. ASSUME NEW k \in CellNumbers, flush'[k]
        PROVE  \E i \in DOMAIN queue' : queue'[i].kind = "flush" /\ queue'[i].cell = k
    <3>1. CASE flush[k]
      <4>1. PICK i \in DOMAIN queue : queue[i].kind = "flush" /\ queue[i].cell = k
        BY <1>1, <1>2, <3>1 DEF WaitingInv
      <4> QED BY <1>7, <4>1
    <3>2. CASE ~flush[k]
      <4>1. k = cell
        BY <1>6, <2>2, <3>2
      <4>2. PICK i \in DOMAIN queue' : queue'[i] = job
        BY <1>7, <3>2, <4>1
      <4> QED BY <1>5, <4>1, <4>2
    <3> QED BY <3>1, <3>2
  <2>3. ASSUME NEW i \in DOMAIN queue', NEW j \in DOMAIN queue', i < j, queue'[i].kind = "program"
        PROVE  cell <= queue'[j].cell
    <3>1. i \in DOMAIN queue /\ queue[i].kind = "program"
      BY <1>5, <1>7, <2>3
    <3>2. CASE j \in DOMAIN queue
      BY <1>1, <1>2, <1>7, <2>3, <3>1, <3>2 DEF WaitingInv
    <3>3. CASE queue'[j] = job
      BY <1>3, <1>5, <3>3 DEF CellNumbers
    <3> QED BY <1>7, <3>2, <3>3
  <2>4. \A k : CallsOf(k)' = CallsOf(k)
    BY <1>1, StagesStay
  <2>5. \A k \in CellNumbers : /\ pending'[k] \subseteq CallsOf(k)
                               /\ pending'[k] # {} => flush'[k]
    <3> TAKE k \in CellNumbers
    <3>1. pending[k] \subseteq CallsOf(k) /\ (pending[k] # {} => flush[k])
      BY <1>1, <1>2 DEF WaitingInv
    <3>2. CASE k = cell
      <4>1. pending'[k] = pending[k] \cup {calling} /\ flush'[k]
        BY <1>6, <3>2
      <4> QED BY <1>3, <3>1, <3>2, <4>1
    <3>3. CASE k # cell
      <4>1. pending'[k] = pending[k] /\ (flush'[k] <=> flush[k])
        BY <1>6, <3>3
      <4> QED BY <3>1, <4>1
    <3> QED BY <3>2, <3>3
  <2>6. \A c \in Begun, d \in Calls : prog.cell[d] < prog.cell[c] => d \in Range(settled)
    BY <1>1, <1>2 DEF WaitingInv
  <2> QED BY <1>1, <1>2, <1>6, <1>8, <2>1, <2>2, <2>3, <2>4, <2>5, <2>6 DEF WaitingInv
<1>10. RootsInv'
  <2>1. Roots(cell)' = Roots(cell) /\ \A c \in Roots(cell) : c # None
    BY <1>1, <1>5 DEF Roots
  <2>2. (\A j \in DOMAIN queue' : queue'[j].kind # "program")
        => \A j \in DOMAIN queue : queue[j].kind # "program"
    BY <1>7
  <2> QED BY <1>1, <1>8, <2>1, <2>2 DEF RootsInv
<1>11. FlushInv'
  <2>1. ASSUME NEW c \in Range(settlers), NEW d \in Calls, Peers(c, d)
        PROVE  d \in Made /\ d # None /\ d \notin pending'[prog.cell[d]]
    <3>1. d \in Made /\ d # calling /\ d \notin pending[prog.cell[d]]
      BY <1>1, <1>2, <2>1 DEF FlushInv
    <3>2. prog.cell[d] \in CellNumbers
      BY <1>1, ProgramFacts DEF ReplayType
    <3>3. pending'[prog.cell[d]] \subseteq pending[prog.cell[d]] \cup {calling}
      BY <1>6, <3>2
    <3> QED BY <1>5, <3>1, <3>3
  <2>2. \A i, j \in DOMAIN settlers' :
           i < j => CompletionOrder(got[settlers'[i]]) < CompletionOrder(got[settlers'[j]])
    BY <1>1, <1>2 DEF FlushInv
  <2> QED BY <1>1, <1>2, <1>8, <2>1, <2>2 DEF FlushInv
<1> QED BY <1>1, <1>8, <1>9, <1>10, <1>11 DEF StagedParts

\* What was recorded earlier is of an earlier cell or stage, or of the same stage.
LEMMA EarlierRecords ==
    ASSUME ReplayType, RecordsInv, NEW c \in Range(journal), NEW d \in Range(journal),
           CompletionOrder(d) < CompletionOrder(c)
    PROVE  d \in Calls /\ Precedes(d, c)
<1>1. /\ CompletionOrder(d) \in DOMAIN journal /\ journal[CompletionOrder(d)] = d
      /\ CompletionOrder(c) \in DOMAIN journal /\ journal[CompletionOrder(c)] = c
  BY CompletionOrders
<1>2. d \in Calls
  BY <1>1 DEF ReplayType
<1>3. Precedes(journal[CompletionOrder(d)], journal[CompletionOrder(c)])
  BY <1>1 DEF RecordsInv, JournalInOrder
<1> QED BY <1>1, <1>2, <1>3

\* A settlement keeps the order of delivery if all earlier results have settled.
LEMMA Delivery ==
    ASSUME ReplayType, DeliveredInv, pc # "live", NEW c \in Calls, c \notin Range(settled),
           Settles(c), UNCHANGED journal,
           \A d \in Range(journal) :
              c \in Range(journal) /\ CompletionOrder(d) < CompletionOrder(c)
              => d \in Range(settled)
    PROVE  DeliveredInv'
<1>1. /\ IsInjective(settled') /\ Range(settled') = Range(settled) \cup {c}
      /\ settled'[Len(settled) + 1] = c
      /\ DOMAIN settled' = DOMAIN settled \cup {Len(settled) + 1}
      /\ \A i \in DOMAIN settled : settled'[i] = settled[i] /\ i < Len(settled) + 1
  BY SettledOnce DEF DeliveredInv
<1>2. \A e : CompletionOrder(e)' = CompletionOrder(e)
  BY DEF CompletionOrder
<1>3. ASSUME NEW j \in DOMAIN settled', NEW d \in Range(journal),
             settled'[j] \in Range(journal), CompletionOrder(d) < CompletionOrder(settled'[j])
      PROVE  \E i \in DOMAIN settled' : i < j /\ settled'[i] = d
  <2>1. CASE j \in DOMAIN settled
    <3>1. PICK i \in DOMAIN settled : i < j /\ settled[i] = d
      BY <1>1, <1>3, <2>1 DEF DeliveredInv
    <3> QED BY <1>1, <3>1
  <2>2. CASE j = Len(settled) + 1
    <3>1. d \in Range(settled)
      BY <1>1, <1>3, <2>2
    <3>2. PICK i \in DOMAIN settled : settled[i] = d
      BY <3>1 DEF Range
    <3> QED BY <1>1, <2>2, <3>2
  <2> QED BY <1>1, <2>1, <2>2
<1> QED BY <1>1, <1>2, <1>3 DEF DeliveredInv

\* What a call that is being made may find has settled: the results recorded before
\* its own. Those of earlier cells and stages have settled; of its own stage only
\* those of synchronous calls that come before it, which have been made.
LEMMA CallDelivery ==
    ASSUME ReplayInv, Staged, StagedParts, pc # "live", ready # <<>>,
           NEW c, c = Head(ready), c \in prog.sync, c \in Range(journal),
           NEW d \in Range(journal), CompletionOrder(d) < CompletionOrder(c)
    PROVE  d \in Range(settled)
<1>1. /\ ReplayType /\ CalledInv /\ StagesInv /\ RecordsInv /\ WaitingInv /\ OwedInv
  BY DEF ReplayInv, StagedParts
<1>2. /\ c \in Calls /\ c \in Begun /\ Called = Made
      /\ Range(ready) = Range(Tail(ready)) \cup {c}
      /\ \A e \in Range(Tail(ready)) : c < e
  BY <1>1, FirstReady DEF Called
<1>3. d \in Calls /\ Precedes(d, c)
  BY <1>1, EarlierRecords
<1>4. CASE prog.cell[d] < prog.cell[c]
  BY <1>1, <1>2, <1>3, <1>4 DEF WaitingInv
<1>5. CASE prog.cell[c] = prog.cell[d] /\ stage[d] < stage[c]
  BY <1>1, <1>2, <1>3, <1>5 DEF StagesInv
<1>6. CASE Peers(d, c) /\ d \in prog.sync /\ d < c
  <2>1. d \in Begun
    BY <1>1, <1>2, <1>3, <1>6 DEF StagesInv, Peers
  <2>2. c \in Nat /\ d \in Nat
    BY <1>1, <1>2, <1>3, ProgramFacts DEF ReplayType
  <2>3. d \notin Range(ready)
    BY <1>2, <1>6, <2>2
  <2>4. d \in Made
    BY <1>2, <2>1, <2>3 DEF Begun
  <2> QED BY <1>1, <1>6, <2>4 DEF WaitingInv
<1> QED BY <1>3, <1>4, <1>5, <1>6 DEF Precedes

\* The same for a settlement of a flush: what of its stage was recorded before is not
\* behind it in the flush, and waits nowhere else.
LEMMA SettleDelivery ==
    ASSUME ReplayInv, Staged, StagedParts, pc # "live", ready = <<>>, settlers # <<>>,
           NEW c, c = Head(settlers), c \in Range(journal),
           NEW d \in Range(journal), CompletionOrder(d) < CompletionOrder(c)
    PROVE  d \in Range(settled)
<1>1. /\ ReplayType /\ StagesInv /\ RecordsInv /\ WaitingInv /\ OwnInv /\ OwedInv /\ FlushInv
  BY DEF ReplayInv, StagedParts
<1>2. c \in Range(settlers) /\ c \in Calls /\ c \in Made /\ c \in Begun /\ settlers \in Seq(Calls)
  <2>1. settlers \in Seq(Calls)
    BY <1>1 DEF ReplayType
  <2>2. c \in Range(settlers) /\ c \in Calls
    BY <2>1, TailDistinct
  <2> QED BY <1>1, <2>1, <2>2 DEF OwedInv, Begun, Called
<1>3. d \in Calls /\ Precedes(d, c)
  BY <1>1, EarlierRecords
<1>4. CASE prog.cell[d] < prog.cell[c]
  BY <1>1, <1>2, <1>3, <1>4 DEF WaitingInv
<1>5. CASE prog.cell[c] = prog.cell[d] /\ stage[d] < stage[c]
  BY <1>1, <1>2, <1>3, <1>5 DEF StagesInv
<1>6. CASE Peers(d, c)
  <2>1. Peers(c, d)
    BY <1>6 DEF Peers
  <2>2. d \in Made /\ d # calling /\ d \notin pending[prog.cell[d]]
    BY <1>1, <1>2, <1>3, <2>1 DEF FlushInv
  <2>3. d \notin Range(settlers)
    <3> SUFFICES ASSUME d \in Range(settlers) PROVE FALSE
      OBVIOUS
    <3>1. PICK j \in DOMAIN settlers : settlers[j] = d
      BY DEF Range
    <3>2. settlers[1] = c /\ 1 \in DOMAIN settlers /\ (j = 1 \/ 1 < j)
      BY <1>2, <3>1
    <3>3. CompletionOrder(c) \in Nat /\ CompletionOrder(d) \in Nat
      BY <1>1, CompletionOrders
    <3>4. j # 1
      BY <3>1, <3>2, <3>3
    <3>5. CompletionOrder(got[c]) < CompletionOrder(got[d])
      BY <1>1, <3>1, <3>2, <3>4 DEF FlushInv
    <3>6. got[c] = c /\ got[d] = d
      BY <1>1, <1>2, <2>2 DEF OwnInv
    <3> QED BY <3>3, <3>5, <3>6
  <2> QED BY <1>1, <2>2, <2>3 DEF WaitingInv
<1> QED BY <1>3, <1>4, <1>5, <1>6 DEF Precedes

\* The next effect of the cell is that of the very call that is being made: effects
\* are linked, and calls made, stage by stage and in program order.
LEMMA OwnEffect ==
    ASSUME ReplayInv, Staged, StagedParts, NEW c \in Calls, Making(c)
    PROVE  nextEffect(cell) = c
<1> DEFINE n == nextStart[cell]
           s == linked[cell]
           e == nextEffect(cell)
<1>1. /\ ReplayType /\ LinkedInv /\ CalledInv /\ LiveInv /\ HandedInv /\ StageInv
      /\ StagesInv /\ RecordsInv /\ OwnInv
      /\ pc # "live" /\ ready # <<>> /\ c = Head(ready)
  BY DEF ReplayInv, StagedParts, Making
<1>2. /\ c \in CallsOf(cell) \ Made /\ n < Len(s) /\ e \in CallsOf(cell)
      /\ \A d \in Made : got[d] # e
  BY <1>1, NextEffect
<1>3. e \notin Made
  BY <1>1, <1>2 DEF OwnInv
<1>4. s \in Seq(Calls) /\ n \in Nat /\ Range(s) = CallsOf(cell) /\ prog \in Programs
      /\ e = s[n + 1] /\ cell \in CellNumbers
  BY <1>1 DEF ReplayType, HandedInv, nextEffect
<1>5. PICK i \in DOMAIN s : s[i] = c
  BY <1>2, <1>4 DEF Range
<1>6. ~(i <= n)
  BY <1>1, <1>2, <1>4, <1>5 DEF OwnInv
<1>7. CASE i = n + 1
  BY <1>4, <1>5, <1>7
<1>8. CASE n + 1 < i
  <2>1. n + 1 \in DOMAIN s
    BY <1>2, <1>4
  <2>2. Before(e, c)
    BY <1>1, <1>4, <1>5, <1>8, <2>1 DEF RecordsInv, LinkedInOrder
  <2>3. /\ c \in Begun /\ Called = Made /\ Range(ready) = Range(Tail(ready)) \cup {c}
        /\ \A d \in Range(Tail(ready)) : c < d
    BY <1>1, FirstReady DEF Called
  <2>4. e \in Calls /\ prog.cell[e] = prog.cell[c] /\ e \in Nat /\ c \in Nat
    BY <1>2, <1>4, ProgramFacts DEF CallsOf
  <2>5. CASE stage[e] < stage[c]
    BY <1>1, <1>3, <2>3, <2>4, <2>5 DEF StagesInv, CalledInv
  <2>6. CASE stage[e] = stage[c] /\ e < c
    <3>1. e \in Begun
      BY <1>1, <2>3, <2>4, <2>6 DEF StagesInv
    <3>2. e \in Range(Tail(ready))
      BY <1>3, <2>3, <2>4, <2>6, <3>1 DEF Begun
    <3> QED BY <2>3, <2>4, <2>6, <3>2
  <2> QED BY <2>2, <2>5, <2>6 DEF Before
<1> QED BY <1>4, <1>6, <1>7, <1>8

\* A call settles at once, in the order of its record, or waits to be queued.
LEMMA ReplayCallStaged ==
    ASSUME ReplayInv, Staged, StagedParts, NEW c \in Calls, ReplayCall(c)
    PROVE  StagedParts'
<1> DEFINE T == Tail(ready)
<1>1. /\ ReplayType /\ LinkedInv /\ CalledInv /\ LiveInv /\ HandedInv /\ StageInv /\ OwedInv
      /\ StagesInv /\ RecordsInv /\ OwnInv /\ WaitingInv /\ RootsInv /\ FlushInv /\ DeliveredInv
      /\ Making(c) /\ pc # "live" /\ pc # "failed" /\ ready # <<>> /\ c = Head(ready)
      /\ calling = None
      /\ UNCHANGED <<prog, pc, cell, linked, journal, queue, running, settlers, step, pending,
                     flush>>
  BY DEF ReplayInv, StagedParts, ReplayCall, Making, liveVars
<1>2. /\ pc = "wait" /\ step = cell /\ c \in CallsOf(cell) \ Made
      /\ nextStart[cell] < Len(linked[cell]) /\ nextEffect(cell) \in CallsOf(cell)
      /\ \A d \in Made : got[d] # nextEffect(cell)
  BY <1>1, NextEffect
<1>3. nextEffect(cell) = c
  BY <1>1, OwnEffect
<1>4. prog \in Programs /\ cell \in CellNumbers /\ cell # None /\ None \notin Calls
      /\ prog.cell[c] = cell
  BY <1>1, <1>2, ProgramFacts DEF ReplayType, CellNumbers, None, CallsOf
<1>5. /\ nextStart' = [nextStart EXCEPT ![cell] = @ + 1]
      /\ got' = [got EXCEPT ![c] = nextEffect(cell)]
      /\ \/ /\ Settles(c) /\ calling' = None
            /\ c \in prog.sync \/ c \notin Range(journal)
            /\ \/ ready' = Continues(c) \o T
               \/ ready' = T \o Continues(c)
         \/ /\ c \notin prog.sync /\ calling' = c /\ ready' = T /\ settled' = settled
  <2>1. step # None /\ nextStart[step] < Len(linked[step])
    BY <1>2, <1>4
  <2>2. /\ nextStart' = [nextStart EXCEPT ![cell] = @ + 1]
        /\ got' = [got EXCEPT ![c] = nextEffect(cell)]
        /\ \/ c \in prog.sync /\ Settles(c) /\ ready' = Continues(c) \o T /\ UNCHANGED calling
           \/ /\ ~Recorded(nextEffect(cell))
              /\ Settles(c) /\ ready' = T \o Continues(c) /\ UNCHANGED calling
           \/ c \notin prog.sync /\ calling' = c /\ ready' = T /\ UNCHANGED settled
    BY <1>2, <2>1, Zenon DEF ReplayCall
  <2> QED BY <1>1, <1>3, <2>2 DEF Recorded
<1> HIDE DEF T
<1>6. /\ Made' = Made \cup {c} /\ got'[c] = c /\ \A d \in Made : got'[d] = got[d]
  BY <1>1, <1>2, <1>3, <1>5, HandOutStep
<1>7. Called = Made /\ Called' = Called \cup {c} /\ Made \subseteq Calls
  BY <1>1, <1>6 DEF Called, Made
<1>8. /\ c \in Begun /\ c \notin Range(settled) /\ T \in Seq(Calls)
      /\ Range(ready) = Range(T) \cup {c}
  BY <1>1, FirstReady DEF T
<1>9. stage' = stage /\ (\A k : CallsOf(k)' = CallsOf(k))
      /\ \A d, e : Peers(d, e)' <=> Peers(d, e)
  BY <1>1, StagesStay DEF Peers
<1>10. \A e : CompletionOrder(e)' = CompletionOrder(e)
  BY <1>1 DEF CompletionOrder
<1>11. /\ StagesInv' /\ DeliveredInv' /\ Begun \subseteq Begun'
       /\ \A d \in Begun' : d \in Begun \/ prog.cell[d] = cell
       /\ Made' \ Range(settled') \subseteq (Made \ Range(settled)) \cup {calling'}
       /\ Range(settled) \subseteq Range(settled')
       /\ calling' \in {None, c} /\ (calling' = c => c \notin prog.sync)
  <2>1. CASE Settles(c) /\ calling' = None /\ (c \in prog.sync \/ c \notin Range(journal))
             /\ (ready' = Continues(c) \o T \/ ready' = T \o Continues(c))
    <3>1. StagesInv'
      BY <1>1, <1>7, <1>8, <2>1, StagesSettle DEF T
    <3>2. Range(settled') = Range(settled) \cup {c}
      BY <1>1, <1>8, <2>1, SettledOnce DEF DeliveredInv
    <3>3. \A d \in Range(journal) :
             c \in Range(journal) /\ CompletionOrder(d) < CompletionOrder(c)
             => d \in Range(settled)
      BY <1>1, <2>1, CallDelivery
    <3>4. DeliveredInv'
      BY <1>1, <1>8, <2>1, <3>3, Delivery
    <3>5. /\ Continues(c) \in Seq(Calls)
          /\ \A d \in Range(Continues(c)) : prog.cell[d] = cell
      BY <1>1, <1>4, <1>8, NextStage
    <3>6. Range(ready') = Range(Continues(c)) \cup Range(T)
      <4>1. Range(Continues(c) \o T) = Range(Continues(c)) \cup Range(T)
            /\ Range(T \o Continues(c)) = Range(T) \cup Range(Continues(c))
        BY <1>8, <3>5, ConcatDistinct
      <4> QED BY <2>1, <4>1
    <3>7. Begun' = Begun \cup Range(Continues(c))
      BY <1>7, <1>8, <3>6 DEF Begun
    <3> QED BY <1>4, <1>6, <1>9, <2>1, <3>1, <3>2, <3>4, <3>5, <3>7
  <2>2. CASE c \notin prog.sync /\ calling' = c /\ ready' = T /\ settled' = settled
    <3>1. StagesInv' /\ Begun' = Begun
      BY <1>1, <1>7, <2>2, StagesCall DEF T
    <3>2. DeliveredInv'
      BY <1>1, <1>10, <2>2 DEF DeliveredInv
    <3> QED BY <1>4, <1>6, <1>9, <2>2, <3>1, <3>2
  <2> QED BY <1>5, <2>1, <2>2
<1>12. RecordsInv'
  BY <1>1, RecordsStay
<1>13. OwnInv'
  <2>1. \A d \in Made' : got'[d] = d
    BY <1>1, <1>6 DEF OwnInv
  <2>2. ASSUME NEW k \in CellNumbers, NEW i \in DOMAIN linked[k], i <= nextStart'[k]
        PROVE  linked[k][i] \in Made'
    <3>1. nextStart \in [CellNumbers -> Nat] /\ linked[k] \in Seq(Calls)
      BY <1>1 DEF ReplayType
    <3>2. CASE i <= nextStart[k]
      BY <1>1, <1>6, <3>2 DEF OwnInv
    <3>3. CASE ~(i <= nextStart[k])
      <4>1. k = cell /\ i = nextStart[k] + 1
        BY <1>5, <2>2, <3>1, <3>3
      <4>2. linked[k][i] = c
        BY <1>3, <4>1 DEF nextEffect
      <4> QED BY <1>6, <4>2
    <3> QED BY <3>2, <3>3
  <2> QED BY <1>1, <2>1, <2>2 DEF OwnInv
<1>14. WaitingInv'
  <2>1. ASSUME NEW d \in Made' \ Range(settled')
        PROVE  /\ d \notin prog.sync
               /\ d = calling' \/ d \in Range(settlers) \/ d \in pending[prog.cell[d]]
    <3>1. CASE d \in Made \ Range(settled)
      <4>1. d # None
        BY <1>4, <1>7, <3>1
      <4> QED BY <1>1, <3>1, <4>1 DEF WaitingInv
    <3>2. CASE d = calling'
      <4>1. d # None
        BY <1>4, <1>6, <1>7, <2>1
      <4> QED BY <1>11, <3>2, <4>1
    <3> QED BY <1>11, <2>1, <3>1, <3>2
  <2>2. calling' # None => pc = "wait" /\ calling' \in CallsOf(cell)
    BY <1>2, <1>11
  <2>3. ASSUME NEW d \in Begun', NEW e \in Calls, prog.cell[e] < prog.cell[d]
        PROVE  e \in Range(settled')
    <3>1. c \in Begun /\ (d \in Begun \/ prog.cell[d] = prog.cell[c])
      BY <1>4, <1>8, <1>11
    <3> QED BY <1>1, <1>11, <2>3, <3>1 DEF WaitingInv
  <2>4. \A k \in CellNumbers : pending[k] \subseteq CallsOf(k) /\ (pending[k] # {} => flush[k])
    BY <1>1 DEF WaitingInv
  <2>5. \A k \in CellNumbers : flush[k] =>
           \E i \in DOMAIN queue : queue[i].kind = "flush" /\ queue[i].cell = k
    BY <1>1 DEF WaitingInv
  <2>6. \A i, j \in DOMAIN queue :
           i < j /\ queue[i].kind = "program" => cell <= queue[j].cell
    BY <1>1 DEF WaitingInv
  <2>7. flush \in [CellNumbers -> BOOLEAN]
    BY <1>1 DEF WaitingInv
  <2> QED BY <1>1, <1>9, <2>1, <2>2, <2>3, <2>4, <2>5, <2>6, <2>7 DEF WaitingInv
<1>15. RootsInv'
  <2>1. Roots(cell)' = Roots(cell) /\ \A d \in Roots(cell) : d \in Calls
    BY <1>1 DEF Roots
  <2> QED BY <1>1, <1>2, <1>4, <1>6, <1>11, <2>1 DEF RootsInv
<1>16. FlushInv'
  <2>1. ASSUME NEW d \in Range(settlers), NEW e \in Calls, Peers(d, e)
        PROVE  e \in Made' /\ e # calling' /\ e \notin pending[prog.cell[e]]
    <3>1. e \in Made /\ e \notin pending[prog.cell[e]]
      BY <1>1, <2>1 DEF FlushInv
    <3> QED BY <1>2, <1>4, <1>6, <1>11, <3>1
  <2>2. ASSUME NEW i \in DOMAIN settlers, NEW j \in DOMAIN settlers, i < j
        PROVE  CompletionOrder(got'[settlers[i]]) < CompletionOrder(got'[settlers[j]])
    <3>1. settlers[i] \in Made /\ settlers[j] \in Made
      BY <1>1 DEF OwedInv, Range
    <3> QED BY <1>1, <1>6, <2>2, <3>1 DEF FlushInv
  <2> QED BY <1>1, <1>9, <1>10, <2>1, <2>2 DEF FlushInv
<1> QED BY <1>1, <1>11, <1>12, <1>13, <1>14, <1>15, <1>16 DEF StagedParts

\* A settlement of a flush, in the order of its record.
LEMMA ReplaySettleStaged ==
    ASSUME ReplayInv, Staged, StagedParts, ReplaySettle
    PROVE  StagedParts'
<1> DEFINE c == Head(settlers)
           K == Continues(c)
<1>1. /\ ReplayType /\ CalledInv /\ LiveInv /\ OwedInv
      /\ StagesInv /\ RecordsInv /\ OwnInv /\ WaitingInv /\ RootsInv /\ FlushInv /\ DeliveredInv
      /\ pc # "failed" /\ settlers # <<>> /\ ready = <<>> /\ calling = None
      /\ Settles(c) /\ ready' = K /\ settlers' = Tail(settlers)
      /\ UNCHANGED <<prog, pc, cell, linked, journal, queue, running, calling,
                     nextStart, pending, flush, got>>
  BY DEF ReplayInv, StagedParts, ReplaySettle, liveVars
<1>2. pc # "live" /\ pc' # "live"
  BY <1>1 DEF LiveInv
<1>3. Called' = Called /\ Made' = Made /\ Called = Made /\ Range(ready) = {}
  BY <1>1, <1>2 DEF Called, Made, Range
<1>4. /\ settlers' \in Seq(Calls) /\ Range(settlers) = Range(settlers') \cup {c}
      /\ c \in Calls
      /\ \A i \in DOMAIN settlers' : /\ i + 1 \in DOMAIN settlers /\ i \in Nat
                                     /\ settlers'[i] = settlers[i + 1]
  <2>1. settlers \in Seq(Calls)
    BY <1>1 DEF ReplayType
  <2>2. \A i \in DOMAIN settlers' : /\ i + 1 \in DOMAIN settlers /\ i \in Nat
                                    /\ settlers'[i] = settlers[i + 1]
    BY <1>1, <2>1
  <2> QED BY <1>1, <2>1, <2>2, TailDistinct
<1>5. c \in Made /\ c \notin Range(settled) /\ Begun = Made
  BY <1>1, <1>2, <1>3, <1>4 DEF OwedInv, Begun
<1>6. \A d \in Range(journal) :
         c \in Range(journal) /\ CompletionOrder(d) < CompletionOrder(c)
         => d \in Range(settled)
  BY <1>1, <1>2, SettleDelivery
<1> HIDE DEF c, K
<1>7. K \in Seq(Calls) /\ \A d \in Range(K) : prog.cell[d] = prog.cell[c]
  BY <1>1, <1>4, <1>5, NextStage DEF K
<1>8. StagesInv'
  <2>1. ready' = Continues(c) \o <<>> /\ Called' = Called \cup {c}
    BY <1>1, <1>3, <1>5, <1>7 DEF K
  <2> QED BY <1>1, <1>4, <1>5, <2>1, StagesSettle
<1>9. DeliveredInv'
  BY <1>1, <1>2, <1>4, <1>5, <1>6, Delivery
<1>10. Range(settled') = Range(settled) \cup {c}
  BY <1>1, <1>4, <1>5, SettledOnce DEF DeliveredInv
<1>11. stage' = stage /\ (\A k : CallsOf(k)' = CallsOf(k))
       /\ \A d, e : Peers(d, e)' <=> Peers(d, e)
  BY <1>1, StagesStay DEF Peers
<1>12. \A e : CompletionOrder(e)' = CompletionOrder(e)
  BY <1>1 DEF CompletionOrder
<1>13. RecordsInv' /\ OwnInv'
  BY <1>1, <1>2, <1>3, RecordsStay DEF OwnInv
<1>14. Begun' = Made \cup Range(K)
  BY <1>1, <1>3 DEF Begun
<1>15. WaitingInv'
  <2>1. ASSUME NEW d \in Made \ Range(settled')
        PROVE  /\ d \notin prog.sync
               /\ d = calling \/ d \in Range(settlers') \/ d \in pending[prog.cell[d]]
    <3>1. d \in Made \ Range(settled) /\ d # c
      BY <1>10, <2>1
    <3> QED BY <1>1, <1>2, <1>4, <3>1 DEF WaitingInv
  <2>2. ASSUME NEW d \in Begun', NEW e \in Calls, prog.cell[e] < prog.cell[d]
        PROVE  e \in Range(settled')
    <3>1. c \in Begun /\ (d \in Begun \/ prog.cell[d] = prog.cell[c])
      BY <1>5, <1>7, <1>14
    <3> QED BY <1>1, <1>2, <1>10, <2>2, <3>1 DEF WaitingInv
  <2>3. /\ flush \in [CellNumbers -> BOOLEAN]
        /\ \A k \in CellNumbers : pending[k] \subseteq CallsOf(k) /\ (pending[k] # {} => flush[k])
    BY <1>1, <1>2 DEF WaitingInv
  <2>4. \A k \in CellNumbers : flush[k] =>
           \E i \in DOMAIN queue : queue[i].kind = "flush" /\ queue[i].cell = k
    BY <1>1, <1>2 DEF WaitingInv
  <2>5. \A i, j \in DOMAIN queue :
           i < j /\ queue[i].kind = "program" => cell <= queue[j].cell
    BY <1>1, <1>2 DEF WaitingInv
  <2> QED BY <1>1, <1>2, <1>3, <1>11, <2>1, <2>2, <2>3, <2>4, <2>5 DEF WaitingInv
<1>16. RootsInv'
  <2>1. Roots(cell)' = Roots(cell)
    BY <1>1 DEF Roots
  <2> QED BY <1>1, <1>3, <1>5, <1>14, <2>1 DEF RootsInv
<1>17. FlushInv'
  <2>1. \A i, j \in DOMAIN settlers' :
           i < j => CompletionOrder(got[settlers'[i]]) < CompletionOrder(got[settlers'[j]])
    <3> TAKE i \in DOMAIN settlers', j \in DOMAIN settlers'
    <3> HAVE i < j
    <3>1. i + 1 < j + 1 /\ i + 1 \in DOMAIN settlers /\ j + 1 \in DOMAIN settlers
      BY <1>4
    <3> QED BY <1>1, <1>2, <1>4, <3>1 DEF FlushInv
  <2>2. \A d \in Range(settlers'), e \in Calls : Peers(d, e) =>
           e \in Made /\ e # calling /\ e \notin pending[prog.cell[e]]
    BY <1>1, <1>2, <1>4 DEF FlushInv
  <2> QED BY <1>1, <1>3, <1>11, <1>12, <2>1, <2>2 DEF FlushInv
<1> QED BY <1>1, <1>8, <1>9, <1>13, <1>15, <1>16, <1>17 DEF StagedParts

-----------------------------------------------------------------------------
(* The invariant of staged programs. *)

\* Before the first call.
LEMMA InitStaged ==
    ASSUME Init
    PROVE  StagedInv
<1>1. /\ prog \in Programs /\ pc = "live" /\ cell = 1 /\ ready = <<>>
      /\ open = {} /\ linked = [k \in CellNumbers |-> <<>>] /\ journal = <<>>
      /\ flush = [k \in CellNumbers |-> FALSE] /\ settled = <<>>
  BY DEF Init
<1>2. SUFFICES ASSUME Staged PROVE StagedParts
  BY DEF StagedInv
<1>5. Called = {} /\ Begun = {} /\ Range(settled) = {} /\ Range(journal) = {}
  BY <1>1 DEF Called, Begun, Range
<1>7. StagesInv
  BY <1>1, <1>5 DEF StagesInv
<1>8. RecordsInv
  BY <1>1, <1>5 DEF RecordsInv, LinkedInOrder, JournalInOrder
<1>9. OwnInv /\ WaitingInv /\ RootsInv /\ FlushInv /\ DeliveredInv
  BY <1>1 DEF OwnInv, WaitingInv, RootsInv, FlushInv, DeliveredInv, IsInjective
<1> QED BY <1>1, <1>7, <1>8, <1>9 DEF StagedParts

\* Every step keeps the invariant.
LEMMA StepStaged ==
    ASSUME ReplayInv, ReplayInv', StagedInv, [Next]_vars
    PROVE  StagedInv'
<1>1. prog' = prog
  BY ProgramStays
<1>2. SUFFICES ASSUME Staged, StagedParts PROVE StagedParts'
  BY <1>1, StagesStay DEF StagedInv
<1>3. CASE UNCHANGED vars \/ \E from, to \in Phases : Goes(from, to)
  <2>1. UNCHANGED <<prog, pc, cell, ready, open, linked, journal, queue, settlers, calling,
                    nextStart, pending, flush, got, settled, running>>
    BY <1>3 DEF vars, liveVars, replayVars, Goes
  <2>2. /\ StagesInv' /\ RecordsInv' /\ OwnInv' /\ WaitingInv' /\ FlushInv' /\ DeliveredInv'
        /\ pc' # "failed" /\ Begun' = Begun /\ Made' = Made
        /\ \A k : Roots(k)' = Roots(k)
    BY <1>2, <2>1, JobChanges
  <2>3. RootsInv'
    BY <1>2, <2>1, <2>2 DEF StagedParts, RootsInv
  <2> QED BY <2>2, <2>3 DEF StagedParts
<1>4. CASE Submit \/ LiveCall \/ LateCall \/ \E c \in Calls : LiveSettle(c)
  <2>1. CASE LiveProgram \/ NextCell
    BY <1>2, <2>1, LiveProgramStaged, NextCellStaged
  <2>2. CASE \/ LiveReturns \/ WaitPendingAsync \/ FlushLoop \/ Recheck \/ Drain
             \/ SetIndexedResult
    <3>1. \E from, to \in Phases : Goes(from, to)
      BY <2>2 DEF LiveReturns, WaitPendingAsync, FlushLoop, Recheck, Drain,
                  SetIndexedResult, Phases
    <3> QED BY <1>3, <3>1
  <2> QED BY <1>2, <1>4, <2>1, <2>2, LiveCallStaged, NoLateCall, LiveSettleStaged DEF Submit
<1>5. CASE Goroutine
  BY <1>2, <1>5, BeginStaged, FinishStaged DEF Goroutine
<1>6. CASE Loop
  <2>1. CASE \E c \in Calls : ReplayCall(c)
    BY <1>2, <2>1, ReplayCallStaged
  <2> QED BY <1>2, <1>6, <2>1, RunProgramStaged, ProgramReturnsStaged, RunFlushStaged,
             QueueReplayStaged, ReplaySettleStaged DEF Loop
<1> QED BY <1>3, <1>4, <1>5, <1>6 DEF Next

\* A staged program is prompt: what nobody awaits waits for nothing.
LEMMA StagedIsPrompt ==
    ASSUME Staged
    PROVE  Prompt
BY DEF Staged, Prompt

\* Staged programs are replayed stage by stage.
THEOREM StagedInvariant == Spec => []StagedInv
<1>1. Init => StagedInv
  BY InitStaged
<1>2. (Prompt => ReplayInv) /\ (Prompt => ReplayInv)' /\ StagedInv /\ [Next]_vars => StagedInv'
  <2> SUFFICES ASSUME Prompt => ReplayInv, (Prompt => ReplayInv)', StagedInv, [Next]_vars,
                      Staged'
               PROVE  StagedInv'
    BY DEF StagedInv
  <2>1. prog' = prog
    BY ProgramStays
  <2>2. Staged
    BY <2>1, StagesStay
  <2>3. Prompt /\ Prompt'
    BY <2>1, <2>2, StagedIsPrompt DEF Prompt
  <2> QED BY <2>3, StepStaged
<1> QED BY <1>1, <1>2, ReplayInvariant, PTL DEF Spec

\* takePendingAsync sorts one flush by completion order, and knows nothing of what
\* comes later. Yet in every staged program each replayed call is given its own
\* record, and recorded calls settle in the order of the journal, through all cells.
THEOREM StagedReplayHolds == Spec => []StagedReplay
<1>1. (Prompt => ReplayInv) /\ StagedInv => StagedReplay
  <2> SUFFICES ASSUME ReplayInv, StagedParts, Replaying PROVE
        /\ OwnResults
        /\ \A i, j \in DOMAIN settled :
              i < j /\ {settled[i], settled[j]} \subseteq Range(journal)
                 => CompletionOrder(settled[i]) < CompletionOrder(settled[j])
    BY StagedIsPrompt DEF StagedReplay, StagedInv
  <2>1. ReplayType /\ OwnInv /\ DeliveredInv /\ pc # "live"
    BY DEF ReplayInv, StagedParts, Replaying
  <2>2. OwnResults
    BY <2>1 DEF OwnResults, OwnInv, Made
  <2>3. ASSUME NEW i \in DOMAIN settled, NEW j \in DOMAIN settled, i < j,
               settled[i] \in Range(journal), settled[j] \in Range(journal)
        PROVE  CompletionOrder(settled[i]) < CompletionOrder(settled[j])
    <3>1. i \in Nat /\ j \in Nat /\ settled[i] # settled[j]
      <4>1. i \in Nat /\ j \in Nat
        BY <2>1 DEF ReplayType
      <4> QED BY <2>1, <2>3, <4>1 DEF DeliveredInv, IsInjective
    <3>2. /\ CompletionOrder(settled[i]) \in Nat /\ CompletionOrder(settled[j]) \in Nat
          /\ journal[CompletionOrder(settled[i])] = settled[i]
          /\ journal[CompletionOrder(settled[j])] = settled[j]
      BY <2>1, <2>3, CompletionOrders
    <3>3. ~(CompletionOrder(settled[j]) < CompletionOrder(settled[i]))
      <4> SUFFICES ASSUME CompletionOrder(settled[j]) < CompletionOrder(settled[i])
                   PROVE  FALSE
        OBVIOUS
      <4>1. PICK m \in DOMAIN settled : m < i /\ settled[m] = settled[j]
        BY <2>1, <2>3 DEF DeliveredInv
      <4>2. m \in Nat
        BY <2>1 DEF ReplayType
      <4>3. m = j
        BY <2>1, <4>1 DEF DeliveredInv, IsInjective
      <4> QED BY <2>3, <3>1, <4>1, <4>3
    <3> QED BY <3>1, <3>2, <3>3
  <2> QED BY <2>2, <2>3
<1> QED BY <1>1, ReplayInvariant, StagedInvariant, PTL

\* ensureConsumed never refuses a committed cell whose program is staged.
THEOREM EffectsAreConsumed == Spec => []EffectsConsumed
<1>1. StagedInv => EffectsConsumed
  BY DEF StagedInv, StagedParts, EffectsConsumed
<1> QED BY <1>1, StagedInvariant, PTL

===============================================================================
