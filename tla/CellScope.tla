------------------------------- MODULE CellScope -------------------------------
(***************************************************************************)
(* The top-level names of a session (session/top_level_await.go).  Every   *)
(* cell is compiled as the body of an async function.  When it ends it     *)
(* calls a commit hook, which promotes the scope of that function: it      *)
(* becomes the global scope of the runtime, in front of the one it had.    *)
(* Names of var and function declarations are also made properties of the  *)
(* global object.  Redeclarations are refused from a table of committed    *)
(* names.  A cell that fails makes the runtime dirty; the next submit      *)
(* replays the committed cells on a new one.                               *)
(*                                                                         *)
(* goja's scopes (stashes) are external: a map from names to slots of a    *)
(* slice of values, and an outer scope.  Promotion copies structs that     *)
(* share map and slice, and puts a copy of the previous global scope       *)
(* behind the new one; so the global scope is a chain of layers, layer i   *)
(* is also what the functions of its cell close over, and its outer scopes *)
(* are the layers before it.                                               *)
(***************************************************************************)
EXTENDS Naturals, Sequences, FiniteSets

CONSTANTS
    Names,      \* identifiers cells use at the top level
    Cells,      \* the cells that may be submitted
    MaxCells,   \* bound on committed cells
    MaxFails    \* bound on submits that fail

NoName == "none"
Undefined == <<0, NoName>>
VarKinds == {"var", "function"}
LexicalKinds == {"let", "const", "class"}
Kinds == VarKinds \cup LexicalKinds
Ends == {"commits", "returns", "throws", "rejects", "unsettled", "hangs"}

ASSUME ScopeAssumption ==
    /\ MaxCells \in Nat /\ MaxFails \in Nat
    /\ NoName \notin Names
    /\ \A c \in Cells :
          /\ c.decls \in Seq([name : Names, kind : Kinds])
          /\ \A i, j \in DOMAIN c.decls :
                c.decls[i].name = c.decls[j].name => i = j
          /\ c.write \in Names \cup {NoName}
          /\ c.how \in {"identifier", "globalThis"}
          /\ c.ends \in Ends

\* What cell number k gives a name; values are told apart by who wrote them.
Value(k, n) == <<k, n>>
Values == (Nat \X (Names \cup {NoName}))

declarationIsVarLike(kind) == kind \in VarKinds

VARIABLES
    chain,      \* the global scope: one layer per promoted cell, the newest last
    gobj,       \* own properties of the global object
    committed,  \* topLevelAwaitState.committed
    pending,    \* topLevelAwaitState.pending is set
    cell,       \* the cell being run
    layer,      \* the scope of its function
    phase,      \* of the goroutine in runContext: idle or running
    loop,       \* of the cell's job on the event loop
    bridge,     \* names bridgePromotedGlobals has not reached yet
    out,        \* resultCh: none, ok or err
    dirty,      \* session.runtimeDirty
    todo,       \* cells still to be replayed on the current runtime
    history,    \* the committed cells
    fails,      \* how many submits failed
    saved,      \* history variable: the scope when the last cell committed
    wanted,     \* history variable: what each name should evaluate to
    misdirected \* history variable: a write to the global object missed its name

scope == <<chain, gobj, committed>>
vars == <<chain, gobj, committed, pending, cell, layer, phase, loop, bridge,
          out, dirty, todo, history, fails, saved, wanted, misdirected>>

-----------------------------------------------------------------------------
\* Declarations, and the layout of a function's scope

Declared(c) == {c.decls[i].name : i \in DOMAIN c.decls}
Position(c, n) == CHOOSE i \in DOMAIN c.decls : c.decls[i].name = n
KindIn(c, n) ==
    IF n \in Declared(c) THEN c.decls[Position(c, n)].kind ELSE ""

\* goja numbers the slots of a function: hoisted names first, then the lexical
\* ones, of which the completion variable is the first.
Like(c, varLike, last) ==
    {i \in 1..last : declarationIsVarLike(c.decls[i].kind) = varLike}
SlotOf(c, n) ==
    IF n \notin Declared(c) THEN 0
    ELSE IF declarationIsVarLike(KindIn(c, n))
    THEN Cardinality(Like(c, TRUE, Position(c, n)))
    ELSE Cardinality(Like(c, TRUE, Len(c.decls))) + 1
           + Cardinality(Like(c, FALSE, Position(c, n)))

NameAt(c, i) ==
    IF \E n \in Declared(c) : SlotOf(c, n) = i
    THEN CHOOSE n \in Declared(c) : SlotOf(c, n) = i
    ELSE NoName

NoLayer == [kind |-> [n \in Names |-> ""], slot |-> [n \in Names |-> 0],
            vals |-> <<>>]

\* The scope of the wrapper function after its body has run as cell number k,
\* with the names the hook allows to be promoted: the declared ones.
LayerOf(c, k) ==
    [kind |-> [n \in Names |-> KindIn(c, n)],
     slot |-> [n \in Names |-> SlotOf(c, n)],
     vals |-> [i \in 1..(Len(c.decls) + 1) |-> Value(k, NameAt(c, i))]]

Binds(l, n) == l.kind[n] # ""

\* The layer in which code of layer i finds a name, or 0.
Lookup(ch, i, n) ==
    IF \E j \in 1..i : Binds(ch[j], n)
    THEN CHOOSE j \in 1..i : /\ Binds(ch[j], n)
                             /\ \A m \in (j + 1)..i : ~Binds(ch[m], n)
    ELSE 0

-----------------------------------------------------------------------------
\* The global object.  An accessor made by bridgePromotedGlobals holds a slot
\* number, and refers to the global scope of the runtime, whatever layer that
\* is when it is called.

Absent == [is |-> "absent", slot |-> 0, val |-> Undefined]
Data(v) == [is |-> "data", slot |-> 0, val |-> v]
Accessor(i) == [is |-> "accessor", slot |-> i, val |-> Undefined]

promotedStashSlotValue(ch, i) ==
    IF ch # <<>> /\ i \in DOMAIN ch[Len(ch)].vals
    THEN ch[Len(ch)].vals[i] ELSE Undefined

setPromotedStashSlotValue(ch, i, v) ==
    IF ch # <<>> /\ i \in DOMAIN ch[Len(ch)].vals
    THEN [ch EXCEPT ![Len(ch)].vals = [@ EXCEPT ![i] = v]] ELSE ch

GlobalGet(n) ==
    IF gobj[n].is = "accessor" THEN promotedStashSlotValue(chain, gobj[n].slot)
    ELSE gobj[n].val

\* Setting a property: through its setter, or its value.
GlobalSet(n, v) ==
    IF gobj[n].is = "accessor"
    THEN /\ chain' = setPromotedStashSlotValue(chain, gobj[n].slot, v)
         /\ UNCHANGED gobj
    ELSE /\ gobj' = [gobj EXCEPT ![n] = Data(v)]
         /\ UNCHANGED chain

\* The setter of a name writes a slot that is not the name's.
StaleAccessor(n) ==
    /\ gobj[n].is = "accessor"
    /\ chain = <<>> \/ chain[Len(chain)].slot[n] # gobj[n].slot

\* The global object has a property of its own beside the binding.
Split(n) ==
    /\ gobj[n].is # "accessor"
    /\ LET j == Lookup(chain, Len(chain), n) IN
       j # 0 /\ chain[j].kind[n] \in VarKinds

\* What an identifier of a new cell evaluates to, if it is bound.
IsBound(n) == Lookup(chain, Len(chain), n) # 0 \/ gobj[n].is # "absent"
Identifier(n) ==
    LET j == Lookup(chain, Len(chain), n) IN
    IF j # 0 THEN chain[j].vals[chain[j].slot[n]] ELSE GlobalGet(n)

\* x = v in sloppy code finds the binding, or ends at the global object.
Assign(n, v) ==
    LET j == Lookup(chain, Len(chain), n) IN
    IF j # 0
    THEN /\ chain' = [chain EXCEPT ![j].vals =
                         [@ EXCEPT ![chain[j].slot[n]] = v]]
         /\ UNCHANGED gobj
    ELSE GlobalSet(n, v)

-----------------------------------------------------------------------------
NoCommit == [lex |-> "", var |-> ""]
NoCell == [decls |-> <<>>, write |-> NoName, how |-> "identifier",
           ends |-> "commits"]

\* newTopLevelAwaitState on a new runtime.
Fresh ==
    <<<<>>, [n \in Names |-> Absent], [n \in Names |-> NoCommit]>>

Init ==
    /\ chain = Fresh[1] /\ gobj = Fresh[2] /\ committed = Fresh[3]
    /\ pending = FALSE
    /\ cell = NoCell /\ layer = NoLayer
    /\ phase = "idle" /\ loop = "none" /\ bridge = {} /\ out = "none"
    /\ dirty = FALSE /\ todo = <<>> /\ history = <<>> /\ fails = 0
    /\ saved = Fresh
    /\ wanted = [n \in Names |-> Undefined]
    /\ misdirected = FALSE

\* The number of the cell that runs, or would run next, on this runtime.
Number == Len(history) - Len(todo) + 1

\* Mutant: only lexical declarations are compared with the table.
validateLexicalOnly(c) ==
    \A i \in DOMAIN c.decls :
       LET d == c.decls[i] IN
       declarationIsVarLike(d.kind) \/ committed[d.name] = NoCommit

\* var and function may be declared again, over each other too; let, const and
\* class neither are nor may be declared again.
validateRedeclarations(c) ==
    \A i \in DOMAIN c.decls :
       LET d == c.decls[i] IN
       IF declarationIsVarLike(d.kind) THEN committed[d.name].lex = ""
       ELSE committed[d.name] = NoCommit

\* Mutant: every kind goes to the same table.
commitOneTable(c) ==
    [n \in Names |->
       IF n \notin Declared(c) THEN committed[n]
       ELSE [committed[n] EXCEPT !.var = KindIn(c, n)]]

\* Mutant: lexical declarations are not recorded.
commitVarLikeOnly(c) ==
    [n \in Names |->
       IF n \notin Declared(c) \/ ~declarationIsVarLike(KindIn(c, n))
       THEN committed[n] ELSE [committed[n] EXCEPT !.var = KindIn(c, n)]]

commitDeclarations(c) ==
    [n \in Names |->
       IF n \notin Declared(c) THEN committed[n]
       ELSE IF declarationIsVarLike(KindIn(c, n))
       THEN [committed[n] EXCEPT !.var = KindIn(c, n)]
       ELSE [committed[n] EXCEPT !.lex = KindIn(c, n)]]

\* runContext up to RunOnLoop: plan the cell and open the commit.
Begin(c) ==
    /\ cell' = c
    /\ pending' = TRUE
    /\ phase' = "running" /\ loop' = "posted" /\ out' = "none"
    /\ UNCHANGED <<scope, layer, bridge, dirty, todo, history, fails, saved,
                   wanted, misdirected>>

Submit(c) ==
    /\ phase = "idle" /\ ~dirty /\ todo = <<>> /\ Len(history) < MaxCells
    /\ validateRedeclarations(c)
    /\ Begin(c)

\* A redeclaration is refused before anything runs; like every failed
\* evaluation it makes the runtime dirty.
Refuse(c) ==
    /\ phase = "idle" /\ ~dirty /\ todo = <<>> /\ fails < MaxFails
    /\ ~validateRedeclarations(c)
    /\ dirty' = TRUE /\ fails' = fails + 1
    /\ UNCHANGED <<scope, pending, cell, layer, phase, loop, bridge, out, todo,
                   history, saved, wanted, misdirected>>

\* The next step of a replay plan goes through runContext as well.
Replay ==
    /\ phase = "idle" /\ ~dirty /\ todo # <<>>
    /\ validateRedeclarations(Head(todo))
    /\ Begin(Head(todo))

\* prepareSubmitRuntime with a dirty runtime: a new one, and a plan to replay.
\* The old runtime and what still runs on its loop are gone.
Rebuild ==
    /\ phase = "idle" /\ dirty
    /\ chain' = Fresh[1] /\ gobj' = Fresh[2] /\ committed' = Fresh[3]
    /\ misdirected' = FALSE
    /\ pending' = FALSE /\ loop' = "none" /\ bridge' = {} /\ out' = "none"
    /\ dirty' = FALSE /\ todo' = history
    /\ UNCHANGED <<cell, layer, phase, history, fails, saved, wanted>>

-----------------------------------------------------------------------------
\* The event loop

AfterBody(c) ==
    CASE c.ends = "throws" -> loop' = "none" /\ out' = "err"
      [] c.ends = "returns" -> loop' = "none" /\ out' = "ok"
      [] c.ends = "hangs" -> loop' = "none" /\ UNCHANGED out
      [] OTHER -> loop' = "ended" /\ UNCHANGED out

\* The body runs, across its awaits, to a return of its own, an exception, a
\* promise that never settles, or the call of the hook.
RunBody ==
    /\ loop = "posted"
    /\ layer' = LayerOf(cell, Number)
    /\ AfterBody(cell)
    /\ LET v == Value(Number, cell.write) IN
       \/ /\ \/ cell.write = NoName
             \/ cell.how = "identifier" /\ cell.write \in Declared(cell)
          /\ UNCHANGED <<chain, gobj, misdirected>>
       \/ /\ cell.write # NoName /\ cell.how = "identifier"
          /\ cell.write \notin Declared(cell)
          /\ Assign(cell.write, v)
          /\ UNCHANGED misdirected
       \/ /\ cell.write # NoName /\ cell.how = "globalThis"
          /\ GlobalSet(cell.write, v)
          /\ misdirected' = (misdirected \/ StaleAccessor(cell.write)
                                         \/ Split(cell.write))
    /\ UNCHANGED <<committed, pending, cell, phase, bridge, dirty, todo,
                   history, fails, saved, wanted>>

\* The hook of a cell whose runContext has returned only throws.
HookTooLate ==
    /\ loop = "ended" /\ ~pending
    /\ loop' = "none" /\ out' = "err"
    /\ UNCHANGED <<scope, pending, cell, layer, phase, bridge, dirty, todo,
                   history, fails, saved, wanted, misdirected>>

\* Mutant of promoteCurrentWrapperStash: the previous scope is not put behind.
promoteAlone(l) == <<l>>

promoteCurrentWrapperStash(l) == Append(chain, l)

\* The hook promotes the scope, if the cell declares anything.
CommitHook ==
    /\ loop = "ended" /\ pending
    /\ loop' = "bridging"
    /\ IF cell.decls = <<>> THEN UNCHANGED <<chain, bridge>>
       ELSE /\ chain' = promoteCurrentWrapperStash(layer)
            /\ bridge' = {n \in Declared(cell) :
                            declarationIsVarLike(KindIn(cell, n))}
    /\ UNCHANGED <<gobj, committed, pending, cell, layer, phase, out, dirty,
                   todo, history, fails, saved, wanted, misdirected>>

\* bridgePromotedGlobals, in the order of a Go map: a name the global object
\* has is set to its value, others become accessors.
BridgeName(n) ==
    /\ loop = "bridging" /\ n \in bridge
    /\ bridge' = bridge \ {n}
    /\ LET idx == chain[Len(chain)].slot[n] IN
       \/ /\ gobj[n].is # "absent"
          /\ GlobalSet(n, promotedStashSlotValue(chain, idx))
          /\ misdirected' = (misdirected \/ StaleAccessor(n))
       \/ /\ gobj[n].is = "absent"
          /\ gobj' = [gobj EXCEPT ![n] = Accessor(idx)]
          /\ UNCHANGED <<chain, misdirected>>
    /\ UNCHANGED <<committed, pending, cell, layer, phase, loop, out, dirty,
                   todo, history, fails, saved, wanted>>

\* The function's promise is fulfilled with the envelope; a completion value
\* that is itself a promise may still reject.
HookReturns ==
    /\ loop = "bridging" /\ bridge = {}
    /\ loop' = "none"
    /\ out' = IF cell.ends = "rejects" THEN "err" ELSE "ok"
    /\ UNCHANGED <<scope, pending, cell, layer, phase, bridge, dirty, todo,
                   history, fails, saved, wanted, misdirected>>

-----------------------------------------------------------------------------
\* runContext takes the outcome, and the submit ends.

\* The reference: one global environment, in which a cell that reaches its end
\* declares and assigns names, and writes to globalThis miss lexical names.
LexicallyDeclared(n) ==
    \E i \in DOMAIN history : /\ history[i].ends # "returns"
                              /\ KindIn(history[i], n) \in LexicalKinds
Assigned(c, n) ==
    /\ n = c.write
    /\ IF c.how = "identifier" THEN n \notin Declared(c) ELSE ~LexicallyDeclared(n)
WantedAfter(c) ==
    [n \in Names |->
       IF (n \in Declared(c) /\ c.ends # "returns") \/ Assigned(c, n)
       THEN Value(Number, n) ELSE wanted[n]]

Succeed ==
    /\ phase = "running" /\ out = "ok" /\ cell.ends # "unsettled"
    /\ phase' = "idle" /\ pending' = FALSE /\ out' = "none"
    /\ committed' = commitDeclarations(cell)
    /\ IF todo # <<>>
       THEN todo' = Tail(todo) /\ UNCHANGED <<history, saved, wanted>>
       ELSE /\ history' = Append(history, cell)
            /\ saved' = <<chain, gobj, committed'>>
            /\ wanted' = WantedAfter(cell)
            /\ UNCHANGED todo
    /\ UNCHANGED <<chain, gobj, cell, layer, loop, bridge, dirty, fails,
                   misdirected>>

\* Mutant of Fail: the runtime is not marked.
FailClean ==
    /\ phase = "running" /\ fails < MaxFails
    /\ out = "err" \/ (out = "ok" /\ cell.ends = "unsettled")
    /\ phase' = "idle" /\ pending' = FALSE /\ out' = "none"
    /\ committed' = IF out = "ok" THEN commitDeclarations(cell) ELSE committed
    /\ fails' = fails + 1
    /\ UNCHANGED <<chain, gobj, cell, layer, loop, bridge, dirty, todo, history,
                   saved, wanted, misdirected>>

\* An error, or an outcome after which the cell does not settle: its
\* declarations are committed then, but the cell is not.
Fail ==
    /\ phase = "running" /\ fails < MaxFails
    /\ out = "err" \/ (out = "ok" /\ cell.ends = "unsettled")
    /\ phase' = "idle" /\ pending' = FALSE /\ out' = "none"
    /\ committed' = IF out = "ok" THEN commitDeclarations(cell) ELSE committed
    /\ dirty' = TRUE /\ fails' = fails + 1
    /\ UNCHANGED <<chain, gobj, cell, layer, loop, bridge, todo, history, saved,
                   wanted, misdirected>>

\* The deadline has passed, in a submit or in a replay, and is preferred even if
\* an outcome is there too; the cell's code goes on.
Timeout ==
    /\ phase = "running" /\ fails < MaxFails
    /\ phase' = "idle" /\ pending' = FALSE
    /\ dirty' = TRUE /\ fails' = fails + 1
    /\ UNCHANGED <<scope, cell, layer, loop, bridge, out, todo, history, saved,
                   wanted, misdirected>>

Next ==
    \/ \E c \in Cells : Submit(c) \/ Refuse(c)
    \/ Replay \/ Rebuild
    \/ RunBody \/ HookTooLate \/ CommitHook \/ HookReturns
    \/ \E n \in Names : BridgeName(n)
    \/ Succeed \/ Fail \/ Timeout

Spec == Init /\ [][Next]_vars

-----------------------------------------------------------------------------
Layers == [kind : [Names -> Kinds \cup {""}], slot : [Names -> Nat],
           vals : Seq(Values)]
Properties == [is : {"absent", "data", "accessor"}, slot : Nat, val : Values]

\* The variables of the program have their types.
TypeOK ==
    /\ chain \in Seq(Layers) /\ layer \in Layers
    /\ gobj \in [Names -> Properties]
    /\ committed \in [Names -> [lex : LexicalKinds \cup {""},
                                var : VarKinds \cup {""}]]
    /\ pending \in BOOLEAN /\ dirty \in BOOLEAN /\ misdirected \in BOOLEAN
    /\ cell \in Cells \cup {NoCell}
    /\ phase \in {"idle", "running"} /\ out \in {"none", "ok", "err"}
    /\ loop \in {"none", "posted", "ended", "bridging"}
    /\ bridge \in SUBSET Names
    /\ todo \in Seq(Cells) /\ history \in Seq(Cells)
    /\ fails \in Nat

\* The handle is between two submits and its runtime may be used.
Ready == phase = "idle" /\ ~dirty /\ todo = <<>>

\* A let, const or class is one binding for everyone: the functions of any
\* earlier or later cell and new cells either do not see the name or use the
\* same slot, whatever failed, was refused or was replayed in between.
OneBinding ==
    \A i \in 1..Len(chain) : \A n \in Names :
       chain[i].kind[n] \in LexicalKinds =>
          \A m \in 1..Len(chain) : Lookup(chain, m, n) \in {0, i}

\* The table from which redeclarations are refused knows every binding of the
\* scope, with its kind, when a submit consults it.
BoundIsCommitted ==
    phase = "idle" /\ ~dirty =>
       \A i \in 1..Len(chain) : \A n \in Names :
          /\ chain[i].kind[n] \in VarKinds => committed[n].var # ""
          /\ chain[i].kind[n] \in LexicalKinds => committed[n].lex # ""

\* What a scope binds and where it keeps it, without the values.
Bindings(s) ==
    <<[i \in DOMAIN s[1] |-> <<s[1][i].kind, s[1][i].slot>>],
      [n \in Names |-> <<s[2][n].is, s[2][n].slot>>],
      s[3]>>

\* The scope a submit finds is the one the last committed cell left: cells that
\* were refused, threw, were given up or failed after they had promoted their
\* names leave nothing, and the replay that removes them rebuilds the rest. The
\* bindings always are; the values if every write to the global object has reached
\* its name: setters that write slots of other names are called in the order of a
\* Go map, which a replay need not repeat.
ScopeIsReplayed ==
    Ready => /\ Bindings(scope) = Bindings(saved)
             /\ ~misdirected => scope = saved

\* A name is bound exactly if a committed cell declared or assigned it. It evaluates
\* to what it was last given, as long as no write to the global object has gone to
\* a slot of another name or past the binding, which the code lets happen.
ValuesKept ==
    Ready => \A n \in Names :
       /\ IsBound(n) <=> wanted[n] # Undefined
       /\ ~misdirected /\ wanted[n] # Undefined => Identifier(n) = wanted[n]
================================================================================
