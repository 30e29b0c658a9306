------------------------ MODULE ChangeRequestsProofs ------------------------
(***************************************************************************)
(* Change requests, for any authors, requests, deployments, contents and   *)
(* number of rows: types, verdicts, and what deployments take.             *)
(***************************************************************************)
EXTENDS ChangeRequests, TLAPS

-----------------------------------------------------------------------------
(* The inductive invariant.                                                *)

RowType == [by : Author \cup {None}, kind : Kind \cup {None}, status : Status,
            content : Content \cup {None}, seal : Content \cup {None},
            gone : BOOLEAN, mark : BOOLEAN]

DepType == [stage : {"none", "accepted", "read", "prepared", "pull", "skipped", "failing"},
            items : SUBSET Row, gateway : BOOLEAN,
            gated : SUBSET Row, was : [Row -> Status \cup {None}], marked : SUBSET Row]

Created(i) == rows[i].status # "unused"

\* A row that exists says something; a seal is a standing approval's.
RowInv(i) ==
    /\ Created(i) => rows[i].content # None
    /\ rows[i].seal # None => rows[i].seal = agreed[i]

\* A verb holds the row it was asked about, which is as it found it; a discard holds the rows
\* it will bin; every request is about rows that exist; only routes are saved over an approval.
RequestInv(c) ==
    /\ tx[c].verb \in Verb =>
         \E i \in Row : tx[c].set = {i} /\ locks[i] = c /\ In(i, Asks[tx[c].verb])
    /\ tx[c].verb \in {"bin", "call", "lost"} => \A i \in tx[c].set : locks[i] = c
    /\ \A i \in tx[c].set : Created(i)
    /\ tx[c].verb = "save" /\ tx[c].seen = "approved" =>
         \A i \in tx[c].set : rows[i].kind = "gateway"

\* A run is about rows that exist; the failure it is about to write is that of rows it has found
\* in flight.
Known(r) ==
    /\ \A i \in r.items : Created(i)
    /\ \A i \in Row : r.was[i] # None => Created(i) /\ r.was[i] \in InFlight

RunInv(d) == Known(dep[d])

IInv ==
    /\ TypeOK
    /\ \A i \in Row : RowInv(i)
    /\ \A c \in Client : RequestInv(c)
    /\ \A d \in Deployment : RunInv(d)

-----------------------------------------------------------------------------
(* What is written to a row.                                               *)

LEMMA VerbSet == Verb = {"submit", "approve", "reject", "return", "revoke", "gate"}
  BY DEF Verb, Asks

LEMMA AsksStatus ==
  ASSUME NEW v \in Verb
  PROVE  /\ v = "submit" => Asks[v] = "draft"
         /\ v \in {"approve", "reject", "return"} => Asks[v] = "submit"
         /\ v \in {"revoke", "gate"} => Asks[v] = "approved"
  BY VerbSet DEF Asks

\* A verb changes neither whose row it is nor what it says.
LEMMA DecidedRow ==
  ASSUME NEW v \in Verb, NEW r \in RowType
  PROVE  /\ Decided(v, r) \in RowType
         /\ Decided(v, r).by = r.by /\ Decided(v, r).kind = r.kind
         /\ Decided(v, r).content = r.content /\ Decided(v, r).gone = r.gone
         /\ v \in {"submit", "return", "revoke"} =>
              Decided(v, r).seal = None /\ Decided(v, r).mark = r.mark
         /\ v \in {"reject", "gate"} => Decided(v, r).seal = r.seal
         /\ v = "approve" => Decided(v, r).seal = r.content
         /\ v = "gate" => Decided(v, r).status = r.status /\ Decided(v, r).mark
         /\ v \in {"submit", "revoke"} => Decided(v, r).status = "submit"
         /\ v = "approve" => Decided(v, r).status = "approved"
         /\ v = "reject" => Decided(v, r).status = "rejected"
         /\ v = "return" => Decided(v, r).status = "draft"
  <1>1. CASE v = "submit" BY <1>1 DEF Decided, Submitted, RowType, Status
  <1>2. CASE v = "approve" BY <1>2 DEF Decided, Approved, RowType, Status
  <1>3. CASE v = "reject" BY <1>3 DEF Decided, Rejected, RowType, Status
  <1>4. CASE v = "return" BY <1>4 DEF Decided, Returned, RowType, Status
  <1>5. CASE v = "revoke" BY <1>5 DEF Decided, Revoked, RowType, Status
  <1>6. CASE v = "gate" BY <1>6 DEF Decided, Gated, RowType, Status
  <1> QED
    BY <1>1, <1>2, <1>3, <1>4, <1>5, <1>6, VerbSet

\* A save does not change whose row it is.
LEMMA SavedRow ==
  ASSUME NEW r \in RowType, NEW v \in Content, NEW seen
  PROVE  /\ Saved(r, seen, v) \in RowType
         /\ Saved(r, seen, v).by = r.by /\ Saved(r, seen, v).kind = r.kind
         /\ Saved(r, seen, v).content = v
         /\ seen = "approved" =>
              Saved(r, seen, v).status = "draft" /\ Saved(r, seen, v).seal = None
         /\ seen # "approved" =>
              /\ Saved(r, seen, v).status = r.status /\ Saved(r, seen, v).seal = r.seal
              /\ Saved(r, seen, v).mark = r.mark
  <1>1. CASE seen = "approved" BY <1>1 DEF Saved, RowType, Status
  <1>2. CASE seen # "approved" BY <1>2 DEF Saved, RowType
  <1> QED BY <1>1, <1>2

LEMMA DraftRow ==
  ASSUME NEW a \in Author \cup {None}, NEW k \in Kind \cup {None}, NEW v \in Content
  PROVE  /\ Draft(a, k, v) \in RowType
         /\ Draft(a, k, v).status = "draft" /\ Draft(a, k, v).kind = k
         /\ Draft(a, k, v).content = v /\ Draft(a, k, v).seal = None
  BY DEF Draft, Unused, RowType, Status

LEMMA FailedRow ==
  ASSUME NEW d \in Deployment, NEW i \in Row, rows[i] \in RowType
  PROVE  /\ Failed(d, i) \in RowType
         /\ Failed(d, i).kind = rows[i].kind /\ Failed(d, i).content = rows[i].content
         /\ Failed(d, i).seal = rows[i].seal
         /\ Failed(d, i).status = IF dep[d].was[i] = "approved" THEN rows[i].status ELSE "approved"
  BY DEF Failed, RowType, Status

-----------------------------------------------------------------------------
(* What a step may do to the rows; c is the request that takes it, if one does. *)

RowStep(c) ==
    /\ rows' \in [Row -> RowType]
    /\ agreed' \in [Row -> Content \cup {None}]
    /\ \A i \in Row :
        /\ RowInv(i)'
        /\ Created(i) => Created(i)' /\ rows'[i].kind = rows[i].kind
        /\ Created(i) /\ locks[i] \notin {None, c} =>
             rows'[i].status = rows[i].status /\ rows'[i].gone = rows[i].gone

LEMMA TypeParts ==
  ASSUME TypeOK
  PROVE  /\ rows \in [Row -> RowType]
         /\ agreed \in [Row -> Content \cup {None}]
         /\ locks \in [Row -> Client \cup {None}]
         /\ \A i \in Row : rows[i] \in RowType
  BY DEF TypeOK, RowType

LEMMA RowsSame ==
  ASSUME IInv, UNCHANGED <<rows, agreed>>, NEW c
  PROVE  RowStep(c)
  BY TypeParts DEF IInv, RowStep, RowInv, Created

\* What a request knows of its rows stays true when somebody else takes a step.
LEMMA OtherRequest ==
  ASSUME IInv, NEW c, NEW e \in Client, e # c, RowStep(c), tx'[e] = tx[e],
         \A i \in Row : locks[i] = e => locks'[i] = e
  PROVE  RequestInv(e)'
  <1>1. RequestInv(e) /\ tx[e].set \in SUBSET Row
    BY DEF IInv, TypeOK
  <1>2. \A i \in Row : locks[i] = e => locks[i] \notin {None, c}
    BY RequestsAssumption
  <1>3. tx[e].verb \in Verb =>
          \E i \in Row : tx[e].set = {i} /\ locks'[i] = e /\ In(i, Asks[tx[e].verb])'
    BY <1>1, <1>2 DEF RequestInv, RowStep, In, Created
  <1>4. \A i \in tx[e].set : Created(i)' /\ rows'[i].kind = rows[i].kind
    BY <1>1 DEF RequestInv, RowStep
  <1> QED
    BY <1>1, <1>3, <1>4 DEF RequestInv

\* A step of a request that keeps its own part of the invariant keeps all of it.
LEMMA ClientStep ==
  ASSUME IInv, NEW c \in Client, RowStep(c), RequestInv(c)',
         tx' = [tx EXCEPT ![c] = tx'[c]],
         tx'[c] \in [verb : Verb \cup {"none", "bin", "call", "lost", "save", "clear"},
                     set : SUBSET Row, who : Author \cup {None},
                     kind : Kind \cup {None}, seen : {"draft", "approved", None}],
         locks' \in [Row -> Client \cup {None}],
         \A i \in Row : locks[i] \notin {None, c} => locks'[i] = locks[i],
         UNCHANGED dep
  PROVE  IInv'
  <1>1. TypeOK'
    BY DEF IInv, TypeOK, RowStep, RowType
  <1>2. ASSUME NEW e \in Client
        PROVE  RequestInv(e)'
    <2>1. CASE e = c BY <2>1
    <2>2. CASE e # c
      <3>1. tx'[e] = tx[e]
        BY <2>2 DEF IInv, TypeOK
      <3>2. \A i \in Row : locks[i] = e => locks'[i] = e
        BY <2>2, RequestsAssumption
      <3> QED BY <2>2, <3>1, <3>2, OtherRequest
    <2> QED BY <2>1, <2>2
  <1>3. ASSUME NEW d \in Deployment PROVE RunInv(d)'
    BY DEF IInv, TypeOK, RunInv, Known, RowStep
  <1> QED
    BY <1>1, <1>2, <1>3 DEF IInv, RowStep

\* A step of nobody's request.
LEMMA SystemStep ==
  ASSUME IInv, RowStep(None), UNCHANGED <<locks, tx>>,
         dep' \in [Deployment -> DepType],
         \A d \in Deployment : RunInv(d)'
  PROVE  IInv'
  <1>1. TypeOK'
    BY DEF IInv, TypeOK, RowStep, RowType, DepType
  <1>2. ASSUME NEW e \in Client PROVE RequestInv(e)'
    <2>1. e # None BY RequestsAssumption
    <2> QED BY <2>1, OtherRequest
  <1> QED
    BY <1>1, <1>2 DEF IInv, RowStep

\* A request that ends, whatever it did to its rows, lets go and knows nothing.
LEMMA Ends ==
  ASSUME IInv, NEW c \in Client, RowStep(c), tx' = [tx EXCEPT ![c] = Idle],
         Release(c) \/ UNCHANGED locks, UNCHANGED dep
  PROVE  IInv'
  <1>1. tx'[c] = Idle
    BY DEF IInv, TypeOK
  <1>2. RequestInv(c)'
    <2>1. "none" \notin Verb /\ Idle.verb = "none" /\ Idle.set = {}
      BY VerbSet DEF Idle
    <2> QED BY <1>1, <2>1 DEF RequestInv
  <1>3. /\ locks' \in [Row -> Client \cup {None}]
        /\ \A i \in Row : locks[i] \notin {None, c} => locks'[i] = locks[i]
    BY DEF IInv, TypeOK, Release
  <1>4. Idle \in [verb : Verb \cup {"none", "bin", "call", "lost", "save", "clear"},
                  set : SUBSET Row, who : Author \cup {None},
                  kind : Kind \cup {None}, seen : {"draft", "approved", None}]
    BY DEF Idle
  <1> QED
    BY <1>1, <1>2, <1>3, <1>4, ClientStep

-----------------------------------------------------------------------------
(* The verbs and the discard.                                              *)

LEMMA OpenKeeps ==
  ASSUME IInv, NEW c \in Client, NEW v \in Verb, NEW i \in Row, Open(c, v, i)
  PROVE  IInv'
  <1> DEFINE t == [Idle EXCEPT !.verb = v, !.set = {i}]
  <1>1. /\ tx' = [tx EXCEPT ![c] = t] /\ tx'[c] = t
        /\ UNCHANGED <<rows, agreed, dep>>
        /\ locks' = [locks EXCEPT ![i] = c]
    BY DEF Open, IInv, TypeOK
  <1>2. RowStep(c)
    BY <1>1, RowsSame
  <1>3. /\ locks' \in [Row -> Client \cup {None}] /\ locks'[i] = c
        /\ \A j \in Row : locks[j] \notin {None, c} => locks'[j] = locks[j]
    BY <1>1 DEF Open, IInv, TypeOK
  <1>4. t.verb = v /\ t.set = {i} /\ t.seen = None
    BY DEF Idle
  <1>5. v \notin {"bin", "call", "lost", "save"}
    BY VerbSet
  <1>6. Created(i)' /\ In(i, Asks[v])'
    BY <1>1, AsksStatus, VerbSet DEF Open, In, Created
  <1>7. RequestInv(c)'
    BY <1>1, <1>3, <1>4, <1>5, <1>6 DEF RequestInv
  <1>8. t \in [verb : Verb \cup {"none", "bin", "call", "lost", "save", "clear"},
               set : SUBSET Row, who : Author \cup {None},
               kind : Kind \cup {None}, seen : {"draft", "approved", None}]
    BY DEF Idle
  <1> HIDE DEF t
  <1> QED
    BY <1>1, <1>2, <1>3, <1>7, <1>8, ClientStep

\* The named row of a verb about to be decided, and the members of its change set.
LEMMA MembersAre ==
  ASSUME IInv, NEW c \in Client, tx[c].verb \in Verb
  PROVE  \E n \in Row :
           /\ Named(c) = n /\ In(n, Asks[tx[c].verb])
           /\ Members(c) = {j \in Row : In(j, Asks[tx[c].verb]) /\ rows[j].by = rows[n].by}
  <1>1. PICK n \in Row : tx[c].set = {n} /\ In(n, Asks[tx[c].verb])
    BY DEF IInv, RequestInv
  <1>2. Named(c) = n
    BY <1>1 DEF Named
  <1> QED
    BY <1>1, <1>2 DEF Members, ChangeSet

LEMMA DecideKeeps ==
  ASSUME IInv, NEW c \in Client, Decide(c)
  PROVE  IInv'
  <1> DEFINE v == tx[c].verb
             S == Members(c)
  <1>1. /\ v \in Verb
        /\ \A i \in S : locks[i] \in {None, c}
        /\ rows' = [i \in Row |-> IF i \in S THEN Decided(v, rows[i]) ELSE rows[i]]
        /\ agreed' = [i \in Row |->
              IF i \in S /\ v = "approve" THEN rows[i].content
              ELSE IF i \in S /\ v = "revoke" THEN None ELSE agreed[i]]
        /\ Release(c) /\ tx' = [tx EXCEPT ![c] = Idle] /\ UNCHANGED dep
    BY DEF Decide
  <1>2. /\ \A i \in Row : rows[i] \in RowType /\ RowInv(i)
        /\ rows \in [Row -> RowType] /\ agreed \in [Row -> Content \cup {None}]
    BY TypeParts DEF IInv
  <1>3. \A i \in S : i \in Row /\ rows[i].status = Asks[v] /\ Created(i)
    BY <1>1, MembersAre, AsksStatus, VerbSet DEF In, Created
  <1> HIDE DEF v, S
  <1>4. rows' \in [Row -> RowType]
    BY <1>1, <1>2, DecidedRow
  <1>5. agreed' \in [Row -> Content \cup {None}]
    BY <1>1, <1>2 DEF RowType
  <1>6. ASSUME NEW i \in Row
        PROVE  /\ RowInv(i)'
               /\ Created(i) => Created(i)' /\ rows'[i].kind = rows[i].kind
               /\ Created(i) /\ locks[i] \notin {None, c} =>
                    rows'[i].status = rows[i].status /\ rows'[i].gone = rows[i].gone
    <2>1. CASE i \notin S
      <3>1. rows'[i] = rows[i] /\ agreed'[i] = agreed[i]
        BY <1>1, <2>1
      <3> QED BY <3>1, <1>2 DEF RowInv, Created
    <2>2. CASE i \in S
      <3>1. /\ rows'[i] = Decided(v, rows[i]) /\ rows[i] \in RowType /\ v \in Verb
            /\ agreed'[i] = IF v = "approve" THEN rows[i].content
                            ELSE IF v = "revoke" THEN None ELSE agreed[i]
        BY <1>1, <1>2, <2>2
      <3>2. Created(i)' /\ rows'[i].kind = rows[i].kind /\ rows'[i].content = rows[i].content
        <4>1. rows[i].status # "unused"
          BY <1>3, <2>2 DEF Created
        <4>2. rows'[i].status # "unused"
          BY <3>1, <4>1, DecidedRow, VerbSet
        <4> QED BY <3>1, <4>2, DecidedRow DEF Created
      <3>3. rows'[i].content # None
        BY <3>2, <1>2, <1>3, <2>2 DEF RowInv
      <3>4. rows'[i].seal # None => rows'[i].seal = agreed'[i]
        <4>1. CASE v \in {"submit", "return", "revoke"} BY <3>1, <4>1, DecidedRow
        <4>2. CASE v \in {"reject", "gate"} BY <3>1, <4>2, <1>2, DecidedRow DEF RowInv
        <4>3. CASE v = "approve" BY <3>1, <4>3, DecidedRow
        <4> QED BY <3>1, <4>1, <4>2, <4>3, VerbSet
      <3> QED BY <1>1, <2>2, <3>2, <3>3, <3>4 DEF RowInv
    <2> QED BY <2>1, <2>2
  <1>7. RowStep(c)
    BY <1>4, <1>5, <1>6 DEF RowStep
  <1> QED
    BY <1>1, <1>7, Ends

LEMMA RollBackKeeps ==
  ASSUME IInv, NEW c \in Client, RollBack(c)
  PROVE  IInv'
  BY RowsSame, Ends DEF RollBack

\* Rows are put away: what is gone stays what it was.
LEMMA GoneStep ==
  ASSUME IInv, NEW c, NEW S \in SUBSET Row, rows' = Gone(S), UNCHANGED agreed,
         \A i \in S : Created(i) /\ locks[i] \in {None, c}
  PROVE  RowStep(c)
  <1>1. /\ \A i \in Row : rows[i] \in RowType /\ RowInv(i)
        /\ rows \in [Row -> RowType] /\ agreed \in [Row -> Content \cup {None}]
    BY TypeParts DEF IInv
  <1>2. ASSUME NEW i \in Row
        PROVE  /\ rows'[i] \in RowType
               /\ rows'[i].status = rows[i].status /\ rows'[i].kind = rows[i].kind
               /\ rows'[i].content = rows[i].content /\ rows'[i].seal = rows[i].seal
               /\ i \notin S => rows'[i] = rows[i]
    <2>1. CASE i \in S
      <3>1. rows'[i] = [rows[i] EXCEPT !.gone = TRUE] BY <2>1 DEF Gone
      <3> QED BY <3>1, <1>1, <2>1 DEF RowType
    <2>2. CASE i \notin S BY <2>2, <1>1 DEF Gone
    <2> QED BY <2>1, <2>2
  <1>3. rows' \in [Row -> RowType]
    BY <1>2 DEF Gone
  <1> QED
    BY <1>1, <1>2, <1>3 DEF RowStep, RowInv, Created

LEMMA OpenDiscardKeeps ==
  ASSUME IInv, NEW c \in Client, NEW i \in Row, OpenDiscard(c, i)
  PROVE  IInv'
  <1> DEFINE a == rows[i].by
             own == Owned(a, "settings", {"draft"}) \cup Owned(a, "gateway", {"draft"})
             t == [Idle EXCEPT !.verb = IF VariablesOf(a) = {} THEN "bin" ELSE "call",
                               !.set = own, !.who = a]
  <1>1. /\ tx' = [tx EXCEPT ![c] = t] /\ tx'[c] = t
        /\ UNCHANGED <<rows, agreed, dep>>
        /\ locks' = [j \in Row |-> IF j \in own THEN c ELSE locks[j]]
        /\ \A j \in own : locks[j] = None
    BY DEF OpenDiscard, IInv, TypeOK, Unlocked
  <1>2. RowStep(c)
    BY <1>1, RowsSame
  <1>3. \A j \in own : j \in Row /\ Created(j)
    BY DEF Owned, In, Created
  <1>4. /\ locks' \in [Row -> Client \cup {None}]
        /\ \A j \in own : locks'[j] = c
        /\ \A j \in Row : locks[j] \notin {None, c} => locks'[j] = locks[j]
    BY <1>1, <1>3 DEF IInv, TypeOK
  <1>5. t.verb \in {"bin", "call"} /\ t.set = own
    BY DEF Idle
  <1>6. a \in Author \cup {None}
    BY TypeParts DEF IInv, RowType
  <1>7. t \in [verb : Verb \cup {"none", "bin", "call", "lost", "save", "clear"},
               set : SUBSET Row, who : Author \cup {None},
               kind : Kind \cup {None}, seen : {"draft", "approved", None}]
    BY <1>3, <1>6 DEF Idle
  <1>8. t.verb \notin Verb /\ t.verb # "save"
    BY <1>5, VerbSet
  <1> HIDE DEF t, own
  <1>9. RequestInv(c)'
    BY <1>1, <1>3, <1>4, <1>5, <1>8 DEF RequestInv, Created
  <1> QED
    BY <1>1, <1>2, <1>4, <1>7, <1>9, ClientStep

LEMMA SecretDiscardsKeeps ==
  ASSUME IInv, NEW c \in Client, SecretDiscards(c)
  PROVE  IInv'
  <1> DEFINE S == VariablesOf(tx[c].who)
  <1>1. PICK v \in {"bin", "lost"} : tx' = [tx EXCEPT ![c].verb = v]
    BY DEF SecretDiscards
  <1>2. /\ tx[c].verb = "call" /\ rows' = Gone(S) /\ UNCHANGED <<locks, dep, agreed>>
        /\ \A i \in S : locks[i] = None
    BY DEF SecretDiscards, Unlocked
  <1>3. S \in SUBSET Row /\ \A i \in S : Created(i)
    BY DEF VariablesOf, Owned, In, Created
  <1> HIDE DEF S
  <1>4. RowStep(c)
    BY <1>2, <1>3, GoneStep
  <1>5. /\ tx'[c].verb = v /\ tx'[c].set = tx[c].set
        /\ tx' = [tx EXCEPT ![c] = tx'[c]]
        /\ tx'[c] \in [verb : Verb \cup {"none", "bin", "call", "lost", "save", "clear"},
                       set : SUBSET Row, who : Author \cup {None},
                       kind : Kind \cup {None}, seen : {"draft", "approved", None}]
    <2>1. tx \in [Client -> [verb : Verb \cup {"none", "bin", "call", "lost", "save", "clear"},
                             set : SUBSET Row, who : Author \cup {None},
                             kind : Kind \cup {None}, seen : {"draft", "approved", None}]]
      BY DEF IInv, TypeOK
    <2>2. tx'[c] = [tx[c] EXCEPT !.verb = v] /\ tx' = [tx EXCEPT ![c] = tx'[c]]
      BY <1>1, <2>1
    <2> QED BY <2>1, <2>2
  <1>6. RequestInv(c)'
    <2>1. v \notin Verb /\ v # "save"
      BY VerbSet
    <2>2. RequestInv(c) /\ tx[c].set \in SUBSET Row
      BY DEF IInv, TypeOK
    <2> QED
      BY <1>2, <1>4, <1>5, <2>1, <2>2 DEF RequestInv, RowStep
  <1> QED
    BY <1>2, <1>4, <1>5, <1>6, ClientStep DEF IInv, TypeOK

LEMMA BinKeeps ==
  ASSUME IInv, NEW c \in Client, Bin(c)
  PROVE  IInv'
  <1>1. tx[c].set \in SUBSET Row /\ \A i \in tx[c].set : Created(i) /\ locks[i] = c
    BY DEF Bin, IInv, RequestInv, TypeOK
  <1>2. RowStep(c)
    BY <1>1, GoneStep DEF Bin
  <1> QED
    BY <1>2, Ends DEF Bin

-----------------------------------------------------------------------------
(* Saves and variables.                                                    *)

\* What a save or a clearing takes up exists.
LEMMA OwnedCreated ==
  ASSUME NEW a, NEW k, NEW S \in SUBSET (Status \ {"unused"})
  PROVE  Owned(a, k, S) \in SUBSET Row /\ \A i \in Owned(a, k, S) : Created(i) /\ rows[i].kind = k
  BY DEF Owned, In, Created

LEMMA BeginSaveKeeps ==
  ASSUME IInv, NEW c \in Client, NEW a \in Author, NEW k \in DOMAIN Reusable, BeginSave(c, a, k)
  PROVE  IInv'
  <1> DEFINE S == Newest(Owned(a, k, Reusable[k]))
             t == IF S = {} THEN [Idle EXCEPT !.verb = "save", !.who = a, !.kind = k]
                  ELSE [Idle EXCEPT !.verb = "save", !.set = S,
                                    !.seen = rows[CHOOSE i \in S : TRUE].status]
  <1>1. k \in {"settings", "gateway"} /\ Reusable[k] \in SUBSET {"draft", "approved"}
        /\ (k = "settings" => Reusable[k] = {"draft"})
    BY DEF Reusable
  <1>2. S \in SUBSET Row /\ \A i \in S : Created(i) /\ rows[i].kind = k /\ rows[i].status \in Reusable[k]
    BY <1>1 DEF Newest, Owned, In, Created
  <1>3. /\ tx' = [tx EXCEPT ![c] = t] /\ tx'[c] = t
        /\ UNCHANGED <<rows, locks, dep, agreed>>
    BY DEF BeginSave, IInv, TypeOK
  <1> HIDE DEF S
  <1>4. /\ t.verb = "save" /\ t.set \in SUBSET Row /\ (t.set = S \/ t.set = {})
        /\ t.seen = "approved" /\ t.set # {} => k = "gateway"
        /\ t \in [verb : Verb \cup {"none", "bin", "call", "lost", "save", "clear"},
                  set : SUBSET Row, who : Author \cup {None},
                  kind : Kind \cup {None}, seen : {"draft", "approved", None}]
    <2>1. CASE S = {}
      <3>1. t = [Idle EXCEPT !.verb = "save", !.who = a, !.kind = k] BY <2>1
      <3> QED BY <3>1, <1>1 DEF Idle, Kind
    <2>2. CASE S # {}
      <3>1. PICK i \in S : i = CHOOSE j \in S : TRUE BY <2>2
      <3>2. t = [Idle EXCEPT !.verb = "save", !.set = S, !.seen = rows[i].status]
        BY <2>2, <3>1
      <3>3. rows[i].status \in Reusable[k] BY <1>2
      <3>4. rows[i].status = "approved" => k = "gateway"
        BY <3>3, <1>1
      <3> QED BY <3>2, <3>3, <3>4, <1>1, <1>2 DEF Idle
    <2> QED BY <2>1, <2>2
  <1> HIDE DEF t
  <1>5. RequestInv(c)'
    <2>1. "save" \notin Verb BY VerbSet
    <2> QED BY <1>2, <1>3, <1>4, <2>1 DEF RequestInv, Created
  <1>6. locks' \in [Row -> Client \cup {None}]
    BY <1>3 DEF IInv, TypeOK
  <1> QED
    BY <1>3, <1>4, <1>5, <1>6, RowsSame, ClientStep

LEMMA BeginClearKeeps ==
  ASSUME IInv, NEW c \in Client, NEW a \in Author, NEW k \in DOMAIN Reusable, BeginClear(c, a, k)
  PROVE  IInv'
  <1> DEFINE S == Owned(a, k, Reusable[k] \cup IF k = "gateway" THEN {"submit"} ELSE {})
             t == [Idle EXCEPT !.verb = "clear", !.set = S]
  <1>1. Reusable[k] \cup (IF k = "gateway" THEN {"submit"} ELSE {}) \in SUBSET (Status \ {"unused"})
    BY DEF Reusable, Status
  <1>2. S \in SUBSET Row /\ \A i \in S : Created(i)
    BY <1>1, OwnedCreated
  <1>3. /\ tx' = [tx EXCEPT ![c] = t] /\ tx'[c] = t
        /\ UNCHANGED <<rows, locks, dep, agreed>>
    BY DEF BeginClear, IInv, TypeOK
  <1> HIDE DEF S
  <1>4. /\ t.verb = "clear" /\ t.set = S
        /\ t \in [verb : Verb \cup {"none", "bin", "call", "lost", "save", "clear"},
                  set : SUBSET Row, who : Author \cup {None},
                  kind : Kind \cup {None}, seen : {"draft", "approved", None}]
    BY <1>2 DEF Idle
  <1> HIDE DEF t
  <1>5. RequestInv(c)'
    <2>1. "clear" \notin Verb BY VerbSet
    <2> QED BY <1>2, <1>3, <1>4, <2>1 DEF RequestInv, Created
  <1>6. locks' \in [Row -> Client \cup {None}]
    BY <1>3 DEF IInv, TypeOK
  <1> QED
    BY <1>3, <1>4, <1>5, <1>6, RowsSame, ClientStep

\* Rows saved over: a route that was read as approved loses its seal and the agreement.
LEMMA SavedStep ==
  ASSUME IInv, NEW c, NEW S \in SUBSET Row, NEW seen, NEW v \in Content,
         rows' = [i \in Row |-> IF i \in S THEN Saved(rows[i], seen, v) ELSE rows[i]],
         agreed' = [i \in Row |-> IF i \in S /\ seen = "approved" THEN None ELSE agreed[i]],
         \A i \in S : Created(i) /\ locks[i] = None
  PROVE  RowStep(c)
  <1>1. /\ \A i \in Row : rows[i] \in RowType /\ RowInv(i)
        /\ rows \in [Row -> RowType] /\ agreed \in [Row -> Content \cup {None}]
    BY TypeParts DEF IInv
  <1>2. rows' \in [Row -> RowType]
    BY <1>1, SavedRow
  <1>3. agreed' \in [Row -> Content \cup {None}]
    BY <1>1
  <1>4. ASSUME NEW i \in Row
        PROVE  /\ RowInv(i)'
               /\ Created(i) => Created(i)' /\ rows'[i].kind = rows[i].kind
               /\ Created(i) /\ locks[i] \notin {None, c} =>
                    rows'[i].status = rows[i].status /\ rows'[i].gone = rows[i].gone
    <2>1. CASE i \notin S
      <3>1. rows'[i] = rows[i] /\ agreed'[i] = agreed[i]
        BY <2>1
      <3> QED BY <3>1, <1>1 DEF RowInv, Created
    <2>2. CASE i \in S
      <3>1. /\ rows'[i] = Saved(rows[i], seen, v)
            /\ agreed'[i] = IF seen = "approved" THEN None ELSE agreed[i]
            /\ v # None /\ locks[i] = None /\ rows[i] \in RowType
        BY <2>2, <1>1, RequestsAssumption
      <3>2. Created(i)' /\ rows'[i].kind = rows[i].kind /\ rows'[i].content # None
        <4>1. rows[i].status # "unused" BY <2>2 DEF Created
        <4>2. rows'[i].status # "unused"
          <5>1. CASE seen = "approved" BY <3>1, <5>1, SavedRow
          <5>2. CASE seen # "approved" BY <3>1, <4>1, <5>2, SavedRow
          <5> QED BY <5>1, <5>2
        <4> QED BY <3>1, <4>2, SavedRow DEF Created
      <3>3. rows'[i].seal # None => rows'[i].seal = agreed'[i]
        <4>1. CASE seen = "approved" BY <3>1, <4>1, SavedRow
        <4>2. CASE seen # "approved" BY <3>1, <4>2, <1>1, SavedRow DEF RowInv
        <4> QED BY <4>1, <4>2
      <3> QED BY <3>1, <3>2, <3>3 DEF RowInv
    <2> QED BY <2>1, <2>2
  <1> QED
    BY <1>2, <1>3, <1>4 DEF RowStep

\* A row that did not exist is created as a draft.
LEMMA DraftStep ==
  ASSUME IInv, NEW c, NEW i \in NextId, NEW a \in Author \cup {None},
         NEW k \in Kind \cup {None}, NEW v \in Content,
         rows' = [rows EXCEPT ![i] = Draft(a, k, v)], UNCHANGED agreed
  PROVE  RowStep(c)
  <1>1. /\ \A j \in Row : rows[j] \in RowType /\ RowInv(j)
        /\ rows \in [Row -> RowType] /\ agreed \in [Row -> Content \cup {None}]
    BY TypeParts DEF IInv
  <1>2. i \in Row /\ ~Created(i)
    BY DEF NextId, Created
  <1>3. /\ rows' \in [Row -> RowType] /\ rows'[i] = Draft(a, k, v)
        /\ \A j \in Row : j # i => rows'[j] = rows[j]
    BY <1>1, <1>2, DraftRow
  <1>4. ASSUME NEW j \in Row
        PROVE  /\ RowInv(j)'
               /\ Created(j) => Created(j)' /\ rows'[j].kind = rows[j].kind
               /\ Created(j) /\ locks[j] \notin {None, c} =>
                    rows'[j].status = rows[j].status /\ rows'[j].gone = rows[j].gone
    <2>1. CASE j # i
      <3>1. rows'[j] = rows[j] BY <1>3, <2>1
      <3> QED BY <3>1, <1>1 DEF RowInv, Created
    <2>2. CASE j = i
      <3>1. rows'[j].content # None /\ rows'[j].seal = None
        BY <1>3, <2>2, DraftRow, RequestsAssumption
      <3> QED BY <2>2, <3>1, <1>2 DEF RowInv
    <2> QED BY <2>1, <2>2
  <1> QED
    BY <1>1, <1>3, <1>4 DEF RowStep

LEMMA WriteSaveKeeps ==
  ASSUME IInv, NEW c \in Client, WriteSave(c)
  PROVE  IInv'
  <1> DEFINE S == tx[c].set
             seen == tx[c].seen
  <1>1. /\ tx[c].verb = "save" /\ tx' = [tx EXCEPT ![c] = Idle] /\ UNCHANGED <<locks, dep>>
        /\ \A i \in S : locks[i] = None
    BY DEF WriteSave, Unlocked
  <1>2. /\ S \in SUBSET Row /\ \A i \in S : Created(i)
        /\ tx[c].who \in Author \cup {None} /\ tx[c].kind \in Kind \cup {None}
    BY DEF IInv, TypeOK, RequestInv
  <1>3. RowStep(c)
    <2>1. CASE S # {}
      <3>1. PICK v \in Content :
              /\ rows' = [i \in Row |-> IF i \in S THEN Saved(rows[i], seen, v) ELSE rows[i]]
              /\ agreed' = [i \in Row |-> IF i \in S /\ seen = "approved" THEN None ELSE agreed[i]]
        BY <2>1 DEF WriteSave
      <3> HIDE DEF S, seen
      <3> QED BY <1>1, <1>2, <3>1, SavedStep
    <2>2. CASE S = {}
      <3>1. PICK v \in Content, i \in NextId :
              rows' = [rows EXCEPT ![i] = Draft(tx[c].who, tx[c].kind, v)] /\ UNCHANGED agreed
        BY <2>2 DEF WriteSave
      <3> QED BY <1>2, <3>1, DraftStep
    <2> QED BY <2>1, <2>2
  <1> QED
    BY <1>1, <1>3, Ends

LEMMA WriteClearKeeps ==
  ASSUME IInv, NEW c \in Client, WriteClear(c)
  PROVE  IInv'
  <1>1. tx[c].set \in SUBSET Row /\ \A i \in tx[c].set : Created(i) /\ locks[i] = None
    BY DEF WriteClear, IInv, RequestInv, TypeOK, Unlocked
  <1>2. RowStep(c)
    BY <1>1, GoneStep DEF WriteClear
  <1> QED
    BY <1>2, Ends DEF WriteClear

\* Rows that existed exist after a step: the deployments still name rows.
LEMMA RunsKeep ==
  ASSUME IInv, NEW c, RowStep(c), NEW d \in Deployment, dep'[d] = dep[d]
  PROVE  RunInv(d)'
  BY DEF IInv, TypeOK, RunInv, Known, RowStep

LEMMA DepTyped ==
  ASSUME IInv
  PROVE  dep \in [Deployment -> DepType] /\ \A d \in Deployment : dep[d] \in DepType /\ Known(dep[d])
  BY DEF IInv, TypeOK, RunInv, DepType

LEMMA SystemRows ==
  ASSUME IInv, RowStep(None), UNCHANGED <<locks, tx, dep>>
  PROVE  IInv'
  BY RunsKeep, DepTyped, SystemStep

LEMMA StageVariablesKeeps ==
  ASSUME IInv, NEW a \in Author, NEW v \in Content, StageVariables(a, v)
  PROVE  IInv'
  <1> DEFINE S == VariablesOf(a)
  <1>1. S \in SUBSET Row /\ \A i \in S : Created(i)
    BY DEF VariablesOf, Owned, In, Created
  <1>2. RowStep(None)
    <2>1. CASE \E i \in NextId : rows' = [rows EXCEPT ![i] = Draft(a, "variables", v)]
      <3>1. UNCHANGED agreed /\ "variables" \in Kind
        BY DEF StageVariables, Kind
      <3> QED BY <2>1, <3>1, DraftStep
    <2>2. CASE /\ Unlocked(S)
               /\ rows' = [i \in Row |-> IF i \in S THEN Saved(rows[i], "draft", v) ELSE rows[i]]
      <3>1. agreed' = agreed /\ \A i \in S : locks[i] = None
        BY <2>2 DEF StageVariables, Unlocked
      <3>2. agreed \in [Row -> Content \cup {None}]
        BY DEF IInv, TypeOK
      <3>3. agreed' = [i \in Row |-> IF i \in S /\ "draft" = "approved" THEN None ELSE agreed[i]]
        BY <3>1, <3>2
      <3> HIDE DEF S
      <3> QED BY <1>1, <2>2, <3>1, <3>3, SavedStep
    <2> QED BY <2>1, <2>2 DEF StageVariables
  <1> QED
    BY <1>2, SystemRows DEF StageVariables

LEMMA ShipVariablesKeeps ==
  ASSUME IInv, NEW i \in Row, ShipVariables(i)
  PROVE  IInv'
  <1>1. rows' = [rows EXCEPT ![i].status = "deployed"] /\ UNCHANGED <<locks, tx, dep, agreed>>
        /\ locks[i] = None
    BY DEF ShipVariables
  <1>2. /\ rows \in [Row -> RowType] /\ \A j \in Row : RowInv(j)
        /\ agreed \in [Row -> Content \cup {None}]
        /\ rows[i].status = "approved"
    BY TypeParts DEF IInv, ShipVariables, In
  <1>3. ASSUME NEW j \in Row
        PROVE  /\ rows'[j] \in RowType /\ rows'[j].kind = rows[j].kind
               /\ rows'[j].content = rows[j].content /\ rows'[j].seal = rows[j].seal
               /\ Created(j) <=> rows'[j].status # "unused"
               /\ j # i => rows'[j] = rows[j]
    BY <1>1, <1>2 DEF RowType, Status, Created
  <1>4. rows' \in [Row -> RowType]
    BY <1>1, <1>2, <1>3
  <1>5. RowStep(None)
    BY <1>1, <1>2, <1>3, <1>4 DEF RowStep, RowInv, Created
  <1> QED BY <1>1, <1>5, SystemRows

LEMMA ExpireMarkKeeps ==
  ASSUME IInv, NEW i \in Row, ExpireMark(i)
  PROVE  IInv'
  <1>1. rows' = [rows EXCEPT ![i].mark = FALSE] /\ UNCHANGED <<locks, tx, dep, agreed>>
    BY DEF ExpireMark
  <1>2. /\ rows \in [Row -> RowType] /\ \A j \in Row : RowInv(j)
        /\ agreed \in [Row -> Content \cup {None}]
    BY TypeParts DEF IInv
  <1>3. ASSUME NEW j \in Row
        PROVE  /\ rows'[j] \in RowType /\ rows'[j].kind = rows[j].kind
               /\ rows'[j].status = rows[j].status /\ rows'[j].content = rows[j].content
               /\ rows'[j].seal = rows[j].seal /\ rows'[j].gone = rows[j].gone
    BY <1>1, <1>2 DEF RowType
  <1>4. rows' \in [Row -> RowType]
    BY <1>1, <1>2, <1>3
  <1>5. RowStep(None)
    BY <1>1, <1>2, <1>3, <1>4 DEF RowStep, RowInv, Created
  <1> QED BY <1>1, <1>5, SystemRows

-----------------------------------------------------------------------------
(* Deployments.                                                            *)

\* A step of one run, to what it is now about.
LEMMA RunStepKeeps ==
  ASSUME IInv, RowStep(None), UNCHANGED <<locks, tx>>, NEW d \in Deployment,
         NEW r \in DepType, Known(r), dep' = [dep EXCEPT ![d] = r]
  PROVE  IInv'
  <1>1. /\ dep' \in [Deployment -> DepType] /\ dep'[d] = r
        /\ \A e \in Deployment : e # d => dep'[e] = dep[e]
    BY DepTyped
  <1>2. ASSUME NEW e \in Deployment PROVE RunInv(e)'
    <2>1. CASE e = d
      BY <1>1, <2>1 DEF RunInv, Known, RowStep, DepType
    <2>2. CASE e # d
      BY <1>1, <2>2, RunsKeep
    <2> QED BY <2>1, <2>2
  <1> QED
    BY <1>1, <1>2, SystemStep

\* A run that has read the rows S and has failed nothing yet.
LEMMA FreshRun ==
  ASSUME NEW S \in SUBSET Row, \A i \in S : Created(i), NEW G \in SUBSET Row, NEW g \in BOOLEAN,
         NEW s \in {"accepted", "read", "prepared", "pull", "skipped"}
  PROVE  /\ [NoDeploy EXCEPT !.stage = s, !.items = S, !.gateway = g, !.gated = G] \in DepType
         /\ Known([NoDeploy EXCEPT !.stage = s, !.items = S, !.gateway = g, !.gated = G])
  BY DEF NoDeploy, DepType, Known

LEMMA NoRun == NoDeploy \in DepType /\ Known(NoDeploy)
  BY DEF NoDeploy, DepType, Known

LEMMA AcceptKeeps ==
  ASSUME IInv, NEW d \in Deployment, Accept(d)
  PROVE  IInv'
  <1>1. PICK S \in SUBSET {i \in Row : Deployable(i)}, g \in BOOLEAN :
          dep' = [dep EXCEPT ![d] =
                    [NoDeploy EXCEPT !.stage = "accepted", !.items = S, !.gateway = g,
                                     !.gated = {i \in S : rows[i].mark /\ rows[i].kind = "settings"}]]
    BY DEF Accept
  <1> DEFINE G == {i \in S : rows[i].mark /\ rows[i].kind = "settings"}
             r == [NoDeploy EXCEPT !.stage = "accepted", !.items = S, !.gateway = g, !.gated = G]
  <1>2. RowStep(None) /\ UNCHANGED <<locks, tx>>
    BY RowsSame DEF Accept
  <1>3. S \in SUBSET Row /\ G \in SUBSET Row /\ \A i \in S : Created(i)
    BY DEF Deployable, In, Created
  <1> HIDE DEF G
  <1>4. r \in DepType /\ Known(r)
    BY <1>3, FreshRun
  <1>5. dep' = [dep EXCEPT ![d] = r]
    BY <1>1 DEF G
  <1> HIDE DEF r
  <1> QED
    BY <1>2, <1>4, <1>5, RunStepKeeps

\* What the activity that reads the rows may find.
LEMMA ReadRun ==
  ASSUME NEW S \in SUBSET Row, \A i \in S : Created(i), NEW G \in SUBSET Row
  PROVE  /\ Read(S) \in DepType /\ Known(Read(S))
         /\ [Read(S) EXCEPT !.gated = G] \in DepType /\ Known([Read(S) EXCEPT !.gated = G])
  BY DEF NoDeploy, DepType, Known, Read

\* The routes join the rows that were named and are still approved.
LEMMA PrepareReads ==
  ASSUME IInv, NEW d \in Deployment, Prepare(d)
  PROVE  \E S \in SUBSET Row :
           /\ \A i \in S : Created(i)
           /\ dep' = [dep EXCEPT ![d] =
                        IF S = {} THEN NoDeploy
                        ELSE [Read(S) EXCEPT !.gated =
                                dep[d].gated \cap {i \in dep[d].items : rows[i].status = "approved"}]]
  <1> DEFINE mine == {i \in dep[d].items : rows[i].status = "approved"}
             routes == {i \in Routes : dep[d].gateway}
  <1>1. PICK R \in IF routes = {} THEN {{}} ELSE {{i} : i \in routes} :
          dep' = [dep EXCEPT ![d] =
                    IF mine \cup R = {} THEN NoDeploy
                    ELSE [Read(mine \cup R) EXCEPT !.gated = dep[d].gated \cap mine]]
    BY DEF Prepare
  <1>2. R \subseteq routes
    BY <1>1
  <1>3. \A i \in mine \cup R : i \in Row /\ Created(i)
    BY <1>2, DepTyped DEF In, Created, DepType, Routes, Known
  <1>4. PICK S \in SUBSET Row : S = mine \cup R
    BY <1>3
  <1> QED BY <1>1, <1>3, <1>4

LEMMA PrepareKeeps ==
  ASSUME IInv, NEW d \in Deployment, Prepare(d)
  PROVE  IInv'
  <1>1. PICK S \in SUBSET Row :
           /\ \A i \in S : Created(i)
           /\ dep' = [dep EXCEPT ![d] =
                        IF S = {} THEN NoDeploy
                        ELSE [Read(S) EXCEPT !.gated =
                                dep[d].gated \cap {i \in dep[d].items : rows[i].status = "approved"}]]
    BY PrepareReads
  <1> DEFINE G == dep[d].gated \cap {i \in dep[d].items : rows[i].status = "approved"}
             r == IF S = {} THEN NoDeploy ELSE [Read(S) EXCEPT !.gated = G]
  <1>2. RowStep(None) /\ UNCHANGED <<locks, tx>>
    BY RowsSame DEF Prepare
  <1>3. G \in SUBSET Row /\ dep' = [dep EXCEPT ![d] = r]
    BY <1>1, DepTyped DEF DepType
  <1> HIDE DEF G
  <1>4. r \in DepType /\ Known(r)
    BY <1>1, <1>3, ReadRun, NoRun
  <1> HIDE DEF r
  <1> QED
    BY <1>2, <1>3, <1>4, RunStepKeeps

LEMMA UnnamedReads ==
  ASSUME NEW d \in Deployment, PrepareUnnamed(d)
  PROVE  \E S \in SUBSET Row :
           /\ \A i \in S : Created(i)
           /\ dep' = [dep EXCEPT ![d] = Read(S)]
  BY DEF PrepareUnnamed, Routes, Pending, In, Created

LEMMA PrepareUnnamedKeeps ==
  ASSUME IInv, NEW d \in Deployment, PrepareUnnamed(d)
  PROVE  IInv'
  <1>1. PICK S \in SUBSET Row : (\A i \in S : Created(i)) /\ dep' = [dep EXCEPT ![d] = Read(S)]
    BY UnnamedReads
  <1>2. RowStep(None) /\ UNCHANGED <<locks, tx>>
    BY RowsSame DEF PrepareUnnamed
  <1> QED
    BY <1>1, <1>2, ReadRun, RunStepKeeps

\* A deployment writes to rows that nobody holds.
LEMMA MovedStep ==
  ASSUME IInv, NEW S \in SUBSET Row, UNCHANGED agreed, Unlocked(S), rows' \in [Row -> RowType],
         \A i \in Row : i \notin S => rows'[i] = rows[i],
         \A i \in S : /\ Created(i) /\ rows'[i].status # "unused" /\ rows'[i].kind = rows[i].kind
                      /\ rows'[i].content = rows[i].content /\ rows'[i].seal = rows[i].seal
  PROVE  RowStep(None)
  <1>1. /\ \A i \in Row : rows[i] \in RowType /\ RowInv(i)
        /\ agreed \in [Row -> Content \cup {None}]
    BY TypeParts DEF IInv
  <1>2. ASSUME NEW i \in Row
        PROVE  /\ RowInv(i)'
               /\ Created(i) => Created(i)' /\ rows'[i].kind = rows[i].kind
               /\ Created(i) /\ locks[i] \notin {None, None} =>
                    rows'[i].status = rows[i].status /\ rows'[i].gone = rows[i].gone
    <2>1. CASE i \in S
      BY <1>1, <2>1 DEF RowInv, Created, Unlocked
    <2>2. CASE i \notin S
      BY <1>1, <2>2 DEF RowInv, Created
    <2> QED BY <2>1, <2>2
  <1> QED
    BY <1>1, <1>2 DEF RowStep

\* Of a status written to the rows S.
LEMMA WrittenRows ==
  ASSUME IInv, NEW S, NEW s \in Status,
         rows' = [i \in Row |-> IF i \in S THEN [rows[i] EXCEPT !.status = s] ELSE rows[i]]
  PROVE  /\ rows' \in [Row -> RowType]
         /\ \A i \in Row : i \notin S => rows'[i] = rows[i]
         /\ \A i \in Row : i \in S =>
              /\ rows'[i].status = s /\ rows'[i].kind = rows[i].kind
              /\ rows'[i].content = rows[i].content /\ rows'[i].seal = rows[i].seal
  <1>1. \A i \in Row : rows[i] \in RowType
    BY TypeParts DEF IInv
  <1>2. \A i \in Row : [rows[i] EXCEPT !.status = s] \in RowType
    BY <1>1 DEF RowType
  <1>3. rows' \in [Row -> RowType]
    BY <1>1, <1>2
  <1>4. ASSUME NEW i \in Row, i \in S
        PROVE  /\ rows'[i].status = s /\ rows'[i].kind = rows[i].kind
               /\ rows'[i].content = rows[i].content /\ rows'[i].seal = rows[i].seal
    BY <1>1, <1>4 DEF RowType
  <1> QED BY <1>3, <1>4

LEMMA GroupOf ==
  ASSUME IInv, NEW d \in Deployment
  PROVE  Group(d) \in SUBSET Row /\ Group(d) \subseteq dep[d].items /\ \A i \in Group(d) : Created(i)
  BY DepTyped DEF Group, DepType, Known

LEMMA LessOf ==
  ASSUME IInv, NEW d \in Deployment, NEW S,
         NEW s \in {"accepted", "read", "prepared", "pull", "skipped", "failing"}
  PROVE  /\ Less(d, S, s) \in DepType /\ Known(Less(d, S, s))
         /\ Less(d, S, s).stage \in {"none", s} /\ Less(d, S, s).items \subseteq dep[d].items
         /\ Less(d, S, s).gated \subseteq dep[d].gated \ S
         /\ Less(d, S, s).stage = "none" => Less(d, S, s).gated = {}
         /\ \A i \in Row : Less(d, S, s).was[i] = None
  <1>1. dep[d] \in DepType /\ Known(dep[d])
    BY DepTyped
  <1>2. CASE dep[d].items \subseteq S
    BY <1>2, NoRun DEF Less, NoDeploy
  <1>3. CASE ~(dep[d].items \subseteq S)
    BY <1>1, <1>3 DEF Less, NoDeploy, DepType, Known
  <1> QED BY <1>2, <1>3

LEMMA StartKeeps ==
  ASSUME IInv, NEW d \in Deployment, MarkStarting(d) \/ CreatePull(d)
  PROVE  IInv'
  <1>1. PICK S \in {dep[d].items, Group(d)}, s \in {"prepared", "pull"} :
          /\ rows' = Started(S) /\ Unlocked(S)
          /\ dep' = [dep EXCEPT ![d].stage = s] /\ UNCHANGED <<locks, tx, agreed>>
    BY DEF MarkStarting, CreatePull
  <1>2. S \in SUBSET Row /\ \A i \in S : Created(i)
    BY GroupOf, DepTyped DEF DepType, Known
  <1>3. RowStep(None)
    <2>1. "starting" \in Status /\ "starting" # "unused" BY DEF Status
    <2>2. /\ rows' \in [Row -> RowType]
          /\ \A i \in Row : i \notin S => rows'[i] = rows[i]
          /\ \A i \in Row : i \in S =>
               /\ rows'[i].status = "starting" /\ rows'[i].kind = rows[i].kind
               /\ rows'[i].content = rows[i].content /\ rows'[i].seal = rows[i].seal
      BY <1>1, <2>1, WrittenRows DEF Started
    <2> QED BY <1>1, <1>2, <2>1, <2>2, MovedStep
  <1>4. dep[d] \in DepType /\ Known(dep[d]) /\ dep \in [Deployment -> DepType]
    BY DepTyped
  <1>5. PICK r : r = [dep[d] EXCEPT !.stage = s]
    OBVIOUS
  <1>6. r \in DepType /\ Known(r) /\ dep' = [dep EXCEPT ![d] = r]
    BY <1>1, <1>4, <1>5 DEF DepType, Known
  <1> QED
    BY <1>1, <1>3, <1>6, RunStepKeeps

LEMMA FinishKeeps ==
  ASSUME IInv, NEW d \in Deployment, Finish(d)
  PROVE  IInv'
  <1> DEFINE S == Group(d)
             r == Less(d, S, "prepared")
  <1>1. /\ rows' = [i \in Row |-> IF i \in S THEN [rows[i] EXCEPT !.status = "deployed"] ELSE rows[i]]
        /\ Unlocked(S) /\ UNCHANGED <<locks, tx, agreed>> /\ dep' = [dep EXCEPT ![d] = r]
    BY DEF Finish
  <1>2. S \in SUBSET Row /\ \A i \in S : Created(i)
    BY GroupOf
  <1>3. r \in DepType /\ Known(r)
    BY LessOf
  <1> HIDE DEF S, r
  <1>4. RowStep(None)
    <2>1. "deployed" \in Status /\ "deployed" # "unused" BY DEF Status
    <2>2. /\ rows' \in [Row -> RowType]
          /\ \A i \in Row : i \notin S => rows'[i] = rows[i]
          /\ \A i \in Row : i \in S =>
               /\ rows'[i].status = "deployed" /\ rows'[i].kind = rows[i].kind
               /\ rows'[i].content = rows[i].content /\ rows'[i].seal = rows[i].seal
      BY <1>1, <2>1, WrittenRows
    <2> QED BY <1>1, <1>2, <2>1, <2>2, MovedStep
  <1> QED
    BY <1>1, <1>3, <1>4, RunStepKeeps

LEMMA AbandonKeeps ==
  ASSUME IInv, NEW d \in Deployment, Abandon(d)
  PROVE  IInv'
  <1>1. PICK S : dep' = [dep EXCEPT ![d] = Less(d, S, "skipped")]
    BY DEF Abandon
  <1>2. RowStep(None) /\ UNCHANGED <<locks, tx>>
    BY RowsSame DEF Abandon
  <1>3. Less(d, S, "skipped") \in DepType /\ Known(Less(d, S, "skipped"))
    BY LessOf
  <1> QED
    BY <1>1, <1>2, <1>3, RunStepKeeps

\* What a failing run has read of its group, the rest of which is somebody's to skip.
LEMMA ReadFailedReads ==
  ASSUME IInv, NEW d \in Deployment, ReadFailed(d)
  PROVE  \E r \in DepType :
           /\ Known(r) /\ dep' = [dep EXCEPT ![d] = r]
           /\ r.stage \in {"none", "skipped", "failing"} /\ r.gated \subseteq dep[d].gated \ Group(d)
           /\ r.stage = "none" => r.gated = {}
           /\ r.stage # "failing" => \A i \in Row : r.was[i] = None
           /\ \A i \in Row : r.was[i] # None => i \in Group(d) /\ r.was[i] = rows[i].status
  <1> DEFINE S == {i \in Group(d) : rows[i].status \in InFlight}
             m == Less(d, Group(d), "failing")
             r == [m EXCEPT !.stage = "failing",
                            !.was = [i \in Row |-> IF i \in S THEN rows[i].status ELSE None],
                            !.marked = {i \in S : rows[i].mark}]
  <1>1. dep' = [dep EXCEPT ![d] = IF S = {} THEN Less(d, Group(d), "skipped") ELSE r]
    BY DEF ReadFailed
  <1>2. CASE S = {}
    <2>1. dep' = [dep EXCEPT ![d] = Less(d, Group(d), "skipped")]
      BY <1>1, <1>2
    <2>2. PICK q : q = Less(d, Group(d), "skipped")
      OBVIOUS
    <2>3. /\ q \in DepType /\ Known(q) /\ q.stage \in {"none", "skipped"}
          /\ q.gated \subseteq dep[d].gated \ Group(d)
          /\ q.stage = "none" => q.gated = {}
          /\ \A i \in Row : q.was[i] = None
      BY <2>2, LessOf
    <2> QED BY <2>1, <2>2, <2>3
  <1>3. CASE S # {}
    <2>1. /\ m \in DepType /\ Known(m) /\ m.gated \subseteq dep[d].gated \ Group(d)
      BY LessOf
    <2>2. S \in SUBSET Row /\ S \subseteq Group(d) /\ \A i \in S : Created(i) /\ rows[i].status \in InFlight
      BY GroupOf
    <2>3. \A i \in Row : rows[i].status \in Status
      BY TypeParts DEF IInv, RowType
    <2>4. dep' = [dep EXCEPT ![d] = r]
      BY <1>1, <1>3
    <2> HIDE DEF m, S
    <2>5. r \in DepType
      BY <2>1, <2>2, <2>3 DEF DepType
    <2>6. /\ r.stage = "failing" /\ r.gated = m.gated /\ r.items = m.items
          /\ r.was = [i \in Row |-> IF i \in S THEN rows[i].status ELSE None]
      BY <2>1 DEF DepType
    <2> HIDE DEF r
    <2>7. Known(r)
      BY <2>1, <2>2, <2>6 DEF Known
    <2> QED BY <2>1, <2>2, <2>4, <2>5, <2>6, <2>7
  <1> QED BY <1>2, <1>3

LEMMA ReadFailedKeeps ==
  ASSUME IInv, NEW d \in Deployment, ReadFailed(d)
  PROVE  IInv'
  <1>1. RowStep(None) /\ UNCHANGED <<locks, tx>>
    BY RowsSame DEF ReadFailed
  <1> QED
    BY <1>1, ReadFailedReads, RunStepKeeps

\* What a failure writes to rows, whoever has changed them since they were read.
LEMMA WriteFailedRows ==
  ASSUME IInv, NEW d \in Deployment, WriteFailed(d), NEW i \in Row
  PROVE  /\ rows'[i] \in RowType /\ rows'[i].kind = rows[i].kind
         /\ rows'[i].content = rows[i].content /\ rows'[i].seal = rows[i].seal
         /\ Created(i) => rows'[i].status # "unused"
         /\ dep[d].was[i] = None => rows'[i] = rows[i]
         /\ rows'[i].status # rows[i].status =>
              dep[d].was[i] # None /\ dep[d].was[i] = "starting" /\ rows'[i].status = "approved"
  <1>1. /\ rows' = [j \in Row |-> IF j \in {k \in Row : dep[d].was[k] # None} THEN Failed(d, j) ELSE rows[j]]
        /\ rows[i] \in RowType
        /\ dep[d].was[i] # None => dep[d].was[i] \in {"approved", "starting"}
    BY TypeParts, DepTyped DEF WriteFailed, IInv, Known, InFlight
  <1>2. CASE dep[d].was[i] = None
    BY <1>1, <1>2 DEF Created
  <1>3. CASE dep[d].was[i] # None
    <2>1. rows'[i] = Failed(d, i) BY <1>1, <1>3
    <2> QED BY <1>1, <1>3, <2>1, FailedRow DEF Created
  <1> QED BY <1>2, <1>3

LEMMA WriteFailedKeeps ==
  ASSUME IInv, NEW d \in Deployment, WriteFailed(d)
  PROVE  IInv'
  <1> DEFINE S == {i \in Row : dep[d].was[i] # None}
             r == Less(d, {}, "skipped")
  <1>1. /\ rows' = [i \in Row |-> IF i \in S THEN Failed(d, i) ELSE rows[i]]
        /\ Unlocked(S) /\ UNCHANGED <<locks, tx, agreed>> /\ dep' = [dep EXCEPT ![d] = r]
    BY DEF WriteFailed
  <1>2. \A i \in S : i \in Row /\ Created(i) /\ dep[d].was[i] # None
    BY DepTyped DEF Known
  <1>3. r \in DepType /\ Known(r)
    BY LessOf
  <1>4. \A i \in Row : i \notin S => dep[d].was[i] = None
    OBVIOUS
  <1> HIDE DEF S, r
  <1>5. rows' \in [Row -> RowType]
    BY <1>1, WriteFailedRows
  <1>6. RowStep(None)
    BY <1>1, <1>2, <1>4, <1>5, WriteFailedRows, MovedStep
  <1> QED
    BY <1>1, <1>3, <1>6, RunStepKeeps

-----------------------------------------------------------------------------
(* The invariant.                                                          *)

LEMMA InitInv == Init => IInv
  <1> SUFFICES ASSUME Init PROVE IInv
    OBVIOUS
  <1>1. TypeOK
    BY DEF Init, TypeOK, Unused, Idle, NoDeploy, Kind, Status
  <1>2. \A i \in Row : RowInv(i)
    BY DEF Init, RowInv, Created, Unused
  <1>3. \A c \in Client : RequestInv(c)
    <2>1. "none" \notin Verb BY VerbSet
    <2> QED BY <2>1 DEF Init, RequestInv, Idle
  <1>4. \A d \in Deployment : RunInv(d)
    BY DEF Init, RunInv, Known, NoDeploy
  <1> QED BY <1>1, <1>2, <1>3, <1>4 DEF IInv

LEMMA StepInv == IInv /\ [Next]_vars => IInv'
  <1> SUFFICES ASSUME IInv, [Next]_vars PROVE IInv'
    OBVIOUS
  <1>1. CASE UNCHANGED vars
    BY <1>1, RowsSame, SystemRows DEF vars
  <1>2. ASSUME NEW c \in Client, NEW v \in Verb, NEW i \in Row, Open(c, v, i) PROVE IInv'
    BY <1>2, OpenKeeps
  <1>3. ASSUME NEW c \in Client, Decide(c) PROVE IInv'
    BY <1>3, DecideKeeps
  <1>4. ASSUME NEW c \in Client, Refuse(c) \/ BreakDeadlock(c) \/ SecretFails(c) PROVE IInv'
    BY <1>4, RollBackKeeps DEF Refuse, BreakDeadlock, SecretFails
  <1>5. ASSUME NEW c \in Client, NEW i \in Row, OpenDiscard(c, i) PROVE IInv'
    BY <1>5, OpenDiscardKeeps
  <1>6. ASSUME NEW c \in Client, SecretDiscards(c) PROVE IInv'
    BY <1>6, SecretDiscardsKeeps
  <1>7. ASSUME NEW c \in Client, Bin(c) PROVE IInv'
    BY <1>7, BinKeeps
  <1>8. ASSUME NEW c \in Client, NEW a \in Author, NEW k \in DOMAIN Reusable,
               BeginSave(c, a, k) \/ BeginClear(c, a, k)
        PROVE  IInv'
    BY <1>8, BeginSaveKeeps, BeginClearKeeps
  <1>9. ASSUME NEW c \in Client, WriteSave(c) \/ WriteClear(c) PROVE IInv'
    BY <1>9, WriteSaveKeeps, WriteClearKeeps
  <1>10. ASSUME NEW a \in Author, NEW v \in Content, StageVariables(a, v) PROVE IInv'
    BY <1>10, StageVariablesKeeps
  <1>11. ASSUME NEW i \in Row, ShipVariables(i) \/ ExpireMark(i) PROVE IInv'
    BY <1>11, ShipVariablesKeeps, ExpireMarkKeeps
  <1>12. ASSUME NEW d \in Deployment, Accept(d) \/ Prepare(d) \/ PrepareUnnamed(d) PROVE IInv'
    BY <1>12, AcceptKeeps, PrepareKeeps, PrepareUnnamedKeeps
  <1>13. ASSUME NEW d \in Deployment, MarkStarting(d) \/ CreatePull(d) \/ Finish(d) PROVE IInv'
    BY <1>13, StartKeeps, FinishKeeps
  <1>14. ASSUME NEW d \in Deployment, Abandon(d) \/ ReadFailed(d) \/ WriteFailed(d) PROVE IInv'
    BY <1>14, AbandonKeeps, ReadFailedKeeps, WriteFailedKeeps
  <1> QED
    BY <1>1, <1>2, <1>3, <1>4, <1>5, <1>6, <1>7, <1>8, <1>9, <1>10, <1>11, <1>12, <1>13, <1>14
    DEF Next

LEMMA Inductive == Spec => []IInv
  BY InitInv, StepInv, PTL DEF Spec

\* The rows, the locks of the database, the requests and the deployments keep their types: no
\* transition writes a status that the queue does not have, and no save takes up a row that is
\* neither a draft nor approved.
THEOREM TypeCorrect == Spec => []TypeOK
  <1>1. IInv => TypeOK
    BY DEF IInv
  <1> QED BY <1>1, Inductive, PTL

-----------------------------------------------------------------------------
(* What a deployment relies on.  With one run at a time nobody but the run *)
(* moves rows in flight, routes excepted, and the mark that the gate       *)
(* leaves on a settings row stands until the row is in flight.             *)

OneRun == \A d, e \in Deployment : d = e

\* The rows the gate let through are approved and marked until the run starts them, then in
\* flight; those of which a failure is being written were found in flight and still are.
FlightRun(d) ==
    /\ dep[d].stage = "none" => dep[d].gated = {}
    /\ dep[d].stage \in {"accepted", "read"} => dep[d].gated \subseteq dep[d].items
    /\ dep[d].stage # "failing" => \A i \in Row : dep[d].was[i] = None
    /\ \A i \in dep[d].gated :
         /\ Created(i) /\ rows[i].kind = "settings" /\ agreed[i] # None
         /\ dep[d].stage \in {"accepted", "read"} => rows[i].status = "approved" /\ rows[i].mark
         /\ dep[d].stage \notin {"accepted", "read"} =>
              rows[i].status = "starting" /\ dep[d].was[i] = None
    /\ \A i \in Row : dep[d].was[i] # None /\ dep[d].was[i] = "starting" =>
         rows[i].kind = "gateway" \/ rows[i].status = "starting"

FlightInv == \A d \in Deployment : FlightRun(d)

\* What no step but a deployment's does to a row.
SteadyRow(i) ==
    /\ Created(i) => Created(i)' /\ rows'[i].kind = rows[i].kind
    /\ rows[i].kind # "gateway" /\ rows[i].status = "starting" => rows'[i].status = "starting"
    /\ rows[i].kind = "settings" /\ rows[i].status = "starting" => agreed'[i] = agreed[i]
    /\ rows[i].kind = "settings" /\ rows[i].status = "approved" /\ rows[i].mark =>
         /\ agreed'[i] = agreed[i]
         /\ InUse(i) => rows'[i].status = "approved" /\ rows'[i].mark

Steady == \A i \in Row : SteadyRow(i)

LEMMA SteadyKeeps ==
  ASSUME IInv, FlightInv, Steady, UNCHANGED dep
  PROVE  FlightInv'
  <1>1. ASSUME NEW d \in Deployment PROVE FlightRun(d)'
    <2>1. FlightRun(d) /\ dep[d] \in DepType /\ Known(dep[d])
      BY DepTyped DEF FlightInv
    <2>2. ASSUME NEW i \in dep[d].gated
          PROVE  /\ i \in Row /\ SteadyRow(i)
                 /\ dep[d].stage \in {"accepted", "read"} => InUse(i)
      BY <2>1 DEF DepType, InUse, Steady
    <2>3. \A i \in dep[d].gated :
            /\ Created(i)' /\ rows'[i].kind = "settings" /\ agreed'[i] # None
            /\ dep[d].stage \in {"accepted", "read"} => rows'[i].status = "approved" /\ rows'[i].mark
            /\ dep[d].stage \notin {"accepted", "read"} => rows'[i].status = "starting"
      BY <2>1, <2>2 DEF FlightRun, SteadyRow
    <2>4. \A i \in Row : dep[d].was[i] # None /\ dep[d].was[i] = "starting" =>
            rows'[i].kind = "gateway" \/ rows'[i].status = "starting"
      BY <2>1 DEF FlightRun, Steady, SteadyRow, Known
    <2> QED BY <2>1, <2>3, <2>4 DEF FlightRun
  <1> QED BY <1>1 DEF FlightInv

LEMMA SteadySame ==
  ASSUME UNCHANGED <<rows, agreed>>
  PROVE  Steady
  BY DEF Steady, SteadyRow, Created

LEMMA SteadyGone ==
  ASSUME IInv, NEW S, rows' = Gone(S), UNCHANGED agreed
  PROVE  Steady
  <1>1. ASSUME NEW i \in Row
        PROVE  /\ rows'[i].status = rows[i].status /\ rows'[i].kind = rows[i].kind
               /\ rows'[i].mark = rows[i].mark
    <2>1. rows[i] \in RowType BY TypeParts DEF IInv
    <2>2. CASE i \in S BY <2>1, <2>2 DEF Gone, RowType
    <2>3. CASE i \notin S BY <2>3 DEF Gone
    <2> QED BY <2>2, <2>3
  <1> QED BY <1>1 DEF Steady, SteadyRow, Created

LEMMA SteadySaved ==
  ASSUME IInv, NEW S \in SUBSET Row, NEW seen, NEW v \in Content,
         rows' = [i \in Row |-> IF i \in S THEN Saved(rows[i], seen, v) ELSE rows[i]],
         agreed' = [i \in Row |-> IF i \in S /\ seen = "approved" THEN None ELSE agreed[i]],
         seen = "approved" => \A i \in S : rows[i].kind = "gateway"
  PROVE  Steady
  <1>1. ASSUME NEW i \in Row
        PROVE  /\ rows'[i].kind = rows[i].kind
               /\ Created(i) => rows'[i].status # "unused"
               /\ rows[i].kind # "gateway" =>
                    /\ rows'[i].status = rows[i].status /\ rows'[i].mark = rows[i].mark
                    /\ agreed'[i] = agreed[i]
    <2>1. rows[i] \in RowType BY TypeParts DEF IInv
    <2>2. CASE i \in S /\ seen = "approved" BY <2>1, <2>2, SavedRow
    <2>3. CASE i \in S /\ seen # "approved" BY <2>1, <2>3, SavedRow DEF Created
    <2>4. CASE i \notin S BY <2>4 DEF Created
    <2> QED BY <2>2, <2>3, <2>4
  <1> QED BY <1>1 DEF Steady, SteadyRow, Created

LEMMA SteadyDraft ==
  ASSUME IInv, NEW j \in NextId, NEW a \in Author \cup {None},
         NEW k \in Kind \cup {None}, NEW v \in Content,
         rows' = [rows EXCEPT ![j] = Draft(a, k, v)], UNCHANGED agreed
  PROVE  Steady
  <1>1. j \in Row /\ rows[j].status = "unused" /\ rows \in [Row -> RowType]
    BY TypeParts DEF NextId, IInv
  <1>2. \A i \in Row : i # j => rows'[i] = rows[i]
    BY <1>1
  <1>3. ASSUME NEW i \in Row PROVE SteadyRow(i)
    <2>1. CASE i = j BY <1>1, <2>1 DEF SteadyRow, Created
    <2>2. CASE i # j BY <1>2, <2>2 DEF SteadyRow, Created
    <2> QED BY <2>1, <2>2
  <1> QED BY <1>3 DEF Steady

\* What Decide reads when it writes: the members are in the status the verb asks.
LEMMA DecideWrites ==
  ASSUME IInv, NEW c \in Client, Decide(c), NEW i \in Row
  PROVE  /\ i \in Members(c) =>
              /\ rows[i].status = Asks[tx[c].verb]
              /\ rows'[i] = Decided(tx[c].verb, rows[i])
         /\ i \notin Members(c) => rows'[i] = rows[i]
         /\ tx[c].verb \in Verb /\ rows[i] \in RowType
  BY MembersAre, TypeParts DEF IInv, Decide, In

LEMMA SteadyDecide ==
  ASSUME IInv, NEW c \in Client, Decide(c)
  PROVE  Steady
  <1> DEFINE v == tx[c].verb
             S == Members(c)
  <1>1. ASSUME NEW i \in Row
        PROVE  /\ i \in S => rows[i].status = Asks[v] /\ rows'[i] = Decided(v, rows[i])
               /\ i \notin S => rows'[i] = rows[i]
               /\ rows[i] \in RowType
    BY DecideWrites
  <1>2. /\ v \in Verb
        /\ v = "revoke" => \A i \in S : ~rows[i].mark
        /\ agreed' = [i \in Row |->
              IF i \in S /\ v = "approve" THEN rows[i].content
              ELSE IF i \in S /\ v = "revoke" THEN None ELSE agreed[i]]
    BY DEF Decide, MayDecide, MayRevoke
  <1> HIDE DEF v, S
  <1>3. ASSUME NEW i \in S, i \in Row
        PROVE  SteadyRow(i)
    <2>1. /\ rows[i].status = Asks[v] /\ rows'[i] = Decided(v, rows[i]) /\ rows[i] \in RowType
          /\ agreed'[i] = IF v = "approve" THEN rows[i].content
                          ELSE IF v = "revoke" THEN None ELSE agreed[i]
      BY <1>1, <1>2, <1>3
    <2>2. /\ rows'[i].kind = rows[i].kind /\ rows[i].status \in {"draft", "submit", "approved"}
          /\ rows[i].status = "approved" => v \in {"revoke", "gate"}
          /\ rows'[i].status # "unused"
      BY <1>2, <2>1, DecidedRow, AsksStatus, VerbSet
    <2>3. v = "gate" => rows'[i].status = rows[i].status /\ rows'[i].mark
      BY <1>2, <2>1, DecidedRow
    <2> QED BY <1>2, <2>1, <2>2, <2>3 DEF SteadyRow, Created
  <1>4. ASSUME NEW i \in Row, i \notin S
        PROVE  SteadyRow(i)
    BY <1>1, <1>2, <1>4 DEF SteadyRow, Created
  <1> QED BY <1>3, <1>4 DEF Steady

\* The steps of a run.
Deploys(d) ==
    \/ Accept(d) \/ Prepare(d) \/ PrepareUnnamed(d) \/ MarkStarting(d)
    \/ CreatePull(d) \/ Finish(d) \/ Abandon(d) \/ ReadFailed(d) \/ WriteFailed(d)

\* The steps of requests, of devlift-secret and of time.
LEMMA SteadyStep ==
  ASSUME IInv, Next, \A d \in Deployment : ~Deploys(d)
  PROVE  Steady /\ UNCHANGED dep
  <1>1. ASSUME NEW c \in Client, Decide(c) PROVE Steady /\ UNCHANGED dep
    BY <1>1, SteadyDecide DEF Decide
  <1>2. ASSUME NEW c \in Client,
               \/ \E v \in Verb, j \in Row : Open(c, v, j)
               \/ Refuse(c) \/ BreakDeadlock(c) \/ SecretFails(c)
               \/ \E j \in Row : OpenDiscard(c, j)
               \/ \E a \in Author, k \in DOMAIN Reusable : BeginSave(c, a, k) \/ BeginClear(c, a, k)
        PROVE  Steady /\ UNCHANGED dep
    <2>1. UNCHANGED <<rows, agreed, dep>>
      BY <1>2 DEF Open, Refuse, BreakDeadlock, SecretFails, RollBack, OpenDiscard, BeginSave, BeginClear
    <2> QED BY <2>1, SteadySame
  <1>3. ASSUME NEW c \in Client, SecretDiscards(c) \/ Bin(c) \/ WriteClear(c)
        PROVE  Steady /\ UNCHANGED dep
    BY <1>3, SteadyGone DEF SecretDiscards, Bin, WriteClear
  <1>4. ASSUME NEW c \in Client, WriteSave(c) PROVE Steady /\ UNCHANGED dep
    <2> DEFINE S == tx[c].set
               seen == tx[c].seen
    <2>1. /\ S \in SUBSET Row
          /\ seen = "approved" => \A i \in S : rows[i].kind = "gateway"
          /\ tx[c].who \in Author \cup {None} /\ tx[c].kind \in Kind \cup {None}
          /\ UNCHANGED dep
      BY <1>4 DEF IInv, TypeOK, RequestInv, WriteSave
    <2>2. CASE S # {}
      <3>1. PICK v \in Content :
              /\ rows' = [i \in Row |-> IF i \in S THEN Saved(rows[i], seen, v) ELSE rows[i]]
              /\ agreed' = [i \in Row |-> IF i \in S /\ seen = "approved" THEN None ELSE agreed[i]]
        BY <1>4, <2>2 DEF WriteSave
      <3> HIDE DEF S, seen
      <3> QED BY <2>1, <3>1, SteadySaved
    <2>3. CASE S = {}
      <3>1. PICK v \in Content, i \in NextId :
              rows' = [rows EXCEPT ![i] = Draft(tx[c].who, tx[c].kind, v)] /\ UNCHANGED agreed
        BY <1>4, <2>3 DEF WriteSave
      <3> QED BY <2>1, <3>1, SteadyDraft
    <2> QED BY <2>2, <2>3
  <1>5. ASSUME NEW a \in Author, NEW v \in Content, StageVariables(a, v)
        PROVE  Steady /\ UNCHANGED dep
    <2> DEFINE S == VariablesOf(a)
    <2>1. S \in SUBSET Row /\ agreed' = agreed /\ UNCHANGED dep
          /\ agreed \in [Row -> Content \cup {None}]
          /\ a \in Author \cup {None} /\ "variables" \in Kind \cup {None}
      BY <1>5 DEF VariablesOf, Owned, StageVariables, IInv, TypeOK, Kind
    <2>2. CASE \E j \in NextId : rows' = [rows EXCEPT ![j] = Draft(a, "variables", v)]
      <3>1. PICK j \in NextId : rows' = [rows EXCEPT ![j] = Draft(a, "variables", v)]
        BY <2>2
      <3> QED BY <2>1, <3>1, SteadyDraft
    <2>3. CASE rows' = [j \in Row |-> IF j \in S THEN Saved(rows[j], "draft", v) ELSE rows[j]]
      <3>1. agreed' = [j \in Row |-> IF j \in S /\ "draft" = "approved" THEN None ELSE agreed[j]]
        BY <2>1
      <3> HIDE DEF S
      <3> QED BY <2>1, <2>3, <3>1, SteadySaved
    <2> QED BY <1>5, <2>2, <2>3 DEF StageVariables
  <1>6. ASSUME NEW i \in Row, ShipVariables(i) \/ ExpireMark(i) PROVE Steady /\ UNCHANGED dep
    <2>1. /\ \/ rows' = [rows EXCEPT ![i].status = "deployed"] /\ rows[i].kind = "variables"
                 /\ rows[i].status = "approved"
             \/ rows' = [rows EXCEPT ![i].mark = FALSE] /\ ~InUse(i)
          /\ UNCHANGED <<agreed, dep>> /\ rows \in [Row -> RowType]
      BY <1>6, TypeParts DEF ShipVariables, ExpireMark, IInv, In
    <2>2. ASSUME NEW j \in Row PROVE SteadyRow(j)
      <3>1. CASE j = i BY <2>1, <3>1 DEF SteadyRow, Created, RowType
      <3>2. CASE j # i
        <4>1. rows'[j] = rows[j] BY <2>1, <3>2
        <4> QED BY <2>1, <4>1 DEF SteadyRow, Created
      <3> QED BY <3>1, <3>2
    <2> QED BY <2>1, <2>2 DEF Steady
  <1> QED
    BY <1>1, <1>2, <1>3, <1>4, <1>5, <1>6 DEF Next, Deploys

\* A step that changes no row, of a run that then knows r of them.
LEMMA FlightRead ==
  ASSUME IInv, FlightInv, OneRun, NEW d \in Deployment, UNCHANGED <<rows, agreed>>,
         NEW r \in DepType, dep' = [dep EXCEPT ![d] = r], r.stage = "none" => r.gated = {},
         r.stage \in {"accepted", "read"} => r.gated \subseteq r.items,
         r.stage # "failing" => \A i \in Row : r.was[i] = None,
         \A i \in r.gated :
            /\ Created(i) /\ rows[i].kind = "settings" /\ agreed[i] # None
            /\ r.stage \in {"accepted", "read"} => rows[i].status = "approved" /\ rows[i].mark
            /\ r.stage \notin {"accepted", "read"} => rows[i].status = "starting" /\ r.was[i] = None,
         \A i \in Row : r.was[i] # None => r.was[i] = rows[i].status
  PROVE  FlightInv'
  <1>1. dep'[d] = r
    BY DepTyped
  <1>2. FlightRun(d)'
    BY <1>1 DEF FlightRun, Created
  <1> QED BY <1>2 DEF FlightInv, OneRun

\* Rows that are written to by the run they are in flight with.
LEMMA RunStep ==
  ASSUME IInv, FlightInv, OneRun, NEW d \in Deployment, Deploys(d)
  PROVE  FlightInv'
  <1>1. /\ rows \in [Row -> RowType] /\ \A i \in Row : rows[i] \in RowType /\ RowInv(i)
        /\ dep[d] \in DepType /\ Known(dep[d]) /\ dep \in [Deployment -> DepType]
        /\ FlightRun(d)
    BY TypeParts, DepTyped DEF IInv, FlightInv
  <1>2. CASE Accept(d)
    <2>1. PICK S \in SUBSET {i \in Row : Deployable(i)}, g \in BOOLEAN :
            dep' = [dep EXCEPT ![d] =
                      [NoDeploy EXCEPT !.stage = "accepted", !.items = S, !.gateway = g,
                                       !.gated = {i \in S : rows[i].mark /\ rows[i].kind = "settings"}]]
      BY <1>2 DEF Accept
    <2> DEFINE G == {i \in S : rows[i].mark /\ rows[i].kind = "settings"}
               r == [NoDeploy EXCEPT !.stage = "accepted", !.items = S, !.gateway = g, !.gated = G]
    <2>2. S \in SUBSET Row /\ G \in SUBSET Row /\ \A i \in S : Created(i)
      BY DEF Deployable, In, Created
    <2>3. ASSUME NEW i \in G
          PROVE  /\ Created(i) /\ rows[i].kind = "settings" /\ agreed[i] # None
                 /\ rows[i].status = "approved" /\ rows[i].mark
      <3>1. i \in Row /\ Created(i) /\ rows[i].seal = rows[i].content /\ rows[i].status = "approved"
        BY <2>2, <2>3 DEF Deployable, In, Sealed
      <3>2. rows[i].content # None /\ rows[i].seal = agreed[i]
        BY <1>1, <3>1 DEF RowInv
      <3> QED BY <2>3, <3>1, <3>2
    <2>4. G \subseteq S
      OBVIOUS
    <2>5. dep' = [dep EXCEPT ![d] = r]
      BY <2>1
    <2> HIDE DEF G
    <2>6. r \in DepType
      BY <2>2, FreshRun
    <2>7. /\ r.stage = "accepted" /\ r.gated = G /\ r.items = S
          /\ \A i \in Row : r.was[i] = None
      BY DEF NoDeploy
    <2> HIDE DEF r
    <2>8. /\ r.gated \subseteq r.items /\ r.stage \notin {"none", "failing"}
          /\ \A i \in r.gated : /\ Created(i) /\ rows[i].kind = "settings" /\ agreed[i] # None
                                /\ rows[i].status = "approved" /\ rows[i].mark
          /\ r.stage \in {"accepted", "read"}
      BY <2>3, <2>4, <2>7
    <2>9. UNCHANGED <<rows, agreed>>
      BY <1>2 DEF Accept
    <2> QED BY <2>5, <2>6, <2>7, <2>8, <2>9, FlightRead
  <1>3. CASE Prepare(d)
    <2> DEFINE mine == {i \in dep[d].items : rows[i].status = "approved"}
               G == dep[d].gated \cap mine
               routes == {i \in Routes : dep[d].gateway}
    <2>1. PICK R \in IF routes = {} THEN {{}} ELSE {{i} : i \in routes} :
            dep' = [dep EXCEPT ![d] =
                      IF mine \cup R = {} THEN NoDeploy ELSE [Read(mine \cup R) EXCEPT !.gated = G]]
      BY <1>3 DEF Prepare
    <2> DEFINE S == mine \cup R
               r == IF S = {} THEN NoDeploy ELSE [Read(S) EXCEPT !.gated = G]
    <2>2. R \subseteq Row
      BY <2>1 DEF Routes
    <2>3. S \in SUBSET Row /\ G \in SUBSET Row /\ G \subseteq S /\ G \subseteq dep[d].gated
      BY <1>1, <2>2 DEF DepType
    <2>4. dep[d].stage = "accepted" /\ UNCHANGED <<rows, agreed>>
      BY <1>3 DEF Prepare
    <2>5. \A i \in G : /\ Created(i) /\ rows[i].kind = "settings" /\ agreed[i] # None
                       /\ rows[i].status = "approved" /\ rows[i].mark
      BY <1>1, <2>3, <2>4 DEF FlightRun
    <2>6. dep' = [dep EXCEPT ![d] = r]
      BY <2>1
    <2> HIDE DEF G, S
    <2>7. r \in DepType
      BY <2>3, NoRun DEF Read, NoDeploy, DepType
    <2>8. /\ r.stage \in {"none", "read"} /\ r.gated \in {{}, G}
          /\ r.stage = "none" => r.gated = {}
          /\ r.stage = "read" => r.gated \subseteq r.items
          /\ \A i \in Row : r.was[i] = None
      <3>1. CASE S = {} BY <3>1 DEF NoDeploy
      <3>2. CASE S # {} BY <2>3, <3>2 DEF Read, NoDeploy
      <3> QED BY <3>1, <3>2
    <2> HIDE DEF r
    <2>9. /\ r.gated \subseteq G /\ r.stage \in {"accepted", "read"} => r.gated \subseteq r.items
          /\ r.stage \notin {"accepted", "read"} => r.gated = {}
      BY <2>8
    <2> QED BY <2>4, <2>5, <2>6, <2>7, <2>8, <2>9, FlightRead
  <1>4. CASE PrepareUnnamed(d)
    <2>1. PICK S \in SUBSET Row : (\A i \in S : Created(i)) /\ dep' = [dep EXCEPT ![d] = Read(S)]
      BY <1>4, UnnamedReads
    <2>2. /\ Read(S) \in DepType /\ Read(S).stage = "read" /\ Read(S).gated = {}
          /\ \A i \in Row : Read(S).was[i] = None
      BY <2>1, ReadRun DEF Read, NoDeploy
    <2> QED BY <1>4, <2>1, <2>2, FlightRead DEF PrepareUnnamed
  <1>5. CASE Abandon(d)
    <2>1. PICK S : dep' = [dep EXCEPT ![d] = Less(d, S, "skipped")]
      BY <1>5 DEF Abandon
    <2> DEFINE r == Less(d, S, "skipped")
    <2>2. /\ r \in DepType /\ r.stage \in {"none", "skipped"} /\ r.gated \subseteq dep[d].gated
          /\ r.stage = "none" => r.gated = {}
          /\ \A i \in Row : r.was[i] = None
      BY LessOf
    <2>3. dep[d].stage = "prepared" /\ UNCHANGED <<rows, agreed>> /\ dep[d].gated \subseteq Row
      BY <1>1, <1>5 DEF Abandon, DepType
    <2> HIDE DEF r
    <2>4. \A i \in r.gated : /\ Created(i) /\ rows[i].kind = "settings" /\ agreed[i] # None
                             /\ rows[i].status = "starting" /\ r.was[i] = None
      BY <1>1, <2>2, <2>3 DEF FlightRun
    <2> QED BY <2>1, <2>2, <2>3, <2>4, FlightRead DEF r
  <1>6. CASE ReadFailed(d)
    <2>1. PICK r \in DepType :
           /\ dep' = [dep EXCEPT ![d] = r]
           /\ r.stage \in {"none", "skipped", "failing"} /\ r.gated \subseteq dep[d].gated \ Group(d)
           /\ r.stage = "none" => r.gated = {}
           /\ r.stage # "failing" => \A i \in Row : r.was[i] = None
           /\ \A i \in Row : r.was[i] # None => i \in Group(d) /\ r.was[i] = rows[i].status
      BY <1>6, ReadFailedReads
    <2>2. /\ dep[d].stage \in {"prepared", "pull", "skipped"} /\ UNCHANGED <<rows, agreed>>
          /\ dep[d].gated \subseteq Row
      BY <1>1, <1>6 DEF ReadFailed, DepType
    <2>3. \A i \in r.gated : /\ Created(i) /\ rows[i].kind = "settings" /\ agreed[i] # None
                             /\ rows[i].status = "starting" /\ r.was[i] = None
      BY <1>1, <2>1, <2>2 DEF FlightRun
    <2> QED BY <2>1, <2>2, <2>3, FlightRead
  <1>7. CASE MarkStarting(d) \/ CreatePull(d)
    <2>1. PICK S \in {dep[d].items, Group(d)}, s \in {"prepared", "pull"} :
            /\ rows' = Started(S) /\ dep' = [dep EXCEPT ![d].stage = s] /\ UNCHANGED agreed
            /\ dep[d].stage \in {"read", "prepared"}
            /\ dep[d].stage = "read" => S = dep[d].items
      BY <1>7 DEF MarkStarting, CreatePull
    <2>2. /\ dep'[d].stage = s /\ dep'[d].gated = dep[d].gated /\ dep'[d].was = dep[d].was
      BY <1>1, <2>1
    <2>3. ASSUME NEW i \in Row
          PROVE  /\ i \in S => rows'[i].status = "starting" /\ rows'[i].kind = rows[i].kind
                 /\ i \notin S => rows'[i] = rows[i]
      <3>1. "starting" \in Status BY DEF Status
      <3> QED BY <2>1, <3>1, WrittenRows DEF Started
    <2>4. dep[d].gated \subseteq Row /\ \A i \in Row : dep[d].was[i] = None
      BY <1>1, <2>1 DEF FlightRun, DepType
    <2>5. \A i \in dep[d].gated : /\ Created(i)' /\ rows'[i].kind = "settings" /\ agreed'[i] # None
                                  /\ rows'[i].status = "starting"
      BY <1>1, <2>1, <2>3, <2>4 DEF FlightRun, Created
    <2>6. FlightRun(d)'
      BY <2>1, <2>2, <2>4, <2>5 DEF FlightRun
    <2> QED BY <2>6 DEF FlightInv, OneRun
  <1>8. CASE Finish(d)
    <2> DEFINE S == Group(d)
               r == Less(d, S, "prepared")
    <2>1. /\ rows' = [i \in Row |-> IF i \in S THEN [rows[i] EXCEPT !.status = "deployed"] ELSE rows[i]]
          /\ dep[d].stage = "pull" /\ UNCHANGED agreed /\ dep' = [dep EXCEPT ![d] = r]
      BY <1>8 DEF Finish
    <2>2. /\ r \in DepType /\ r.stage \in {"none", "prepared"} /\ r.gated \subseteq dep[d].gated \ S
          /\ r.stage = "none" => r.gated = {}
          /\ \A i \in Row : r.was[i] = None
      BY LessOf
    <2>3. dep'[d] = r /\ dep[d].gated \subseteq Row
      BY <1>1, <2>1 DEF DepType
    <2> HIDE DEF S, r
    <2>4. \A i \in Row : i \notin S => rows'[i] = rows[i]
      BY <2>1
    <2>5. \A i \in r.gated : /\ Created(i)' /\ rows'[i].kind = "settings" /\ agreed'[i] # None
                             /\ rows'[i].status = "starting"
      BY <1>1, <2>1, <2>2, <2>3, <2>4 DEF FlightRun, Created
    <2>6. FlightRun(d)'
      BY <2>2, <2>3, <2>5 DEF FlightRun
    <2> QED BY <2>6 DEF FlightInv, OneRun
  <1>9. CASE WriteFailed(d)
    <2> DEFINE r == Less(d, {}, "skipped")
    <2>1. dep[d].stage = "failing" /\ UNCHANGED agreed /\ dep' = [dep EXCEPT ![d] = r]
      BY <1>9 DEF WriteFailed
    <2>2. /\ r.stage \in {"none", "skipped"} /\ r.gated \subseteq dep[d].gated
          /\ r.stage = "none" => r.gated = {}
          /\ \A i \in Row : r.was[i] = None
      BY LessOf
    <2>3. dep'[d] = r /\ dep[d].gated \subseteq Row
      BY <1>1, <2>1 DEF DepType
    <2> HIDE DEF r
    <2>4. \A i \in Row : dep[d].was[i] = None => rows'[i] = rows[i]
      BY <1>9, WriteFailedRows
    <2>5. \A i \in r.gated : /\ Created(i)' /\ rows'[i].kind = "settings" /\ agreed'[i] # None
                             /\ rows'[i].status = "starting"
      BY <1>1, <2>1, <2>2, <2>3, <2>4 DEF FlightRun, Created
    <2>6. FlightRun(d)'
      BY <2>2, <2>3, <2>5 DEF FlightRun
    <2> QED BY <2>6 DEF FlightInv, OneRun
  <1> QED BY <1>2, <1>3, <1>4, <1>5, <1>6, <1>7, <1>8, <1>9 DEF Deploys

LEMMA FlightInit == Init => FlightInv
  BY DEF Init, FlightInv, FlightRun, NoDeploy

LEMMA FlightStep == IInv /\ FlightInv /\ OneRun /\ [Next]_vars => FlightInv'
  <1> SUFFICES ASSUME IInv, FlightInv, OneRun, [Next]_vars PROVE FlightInv'
    OBVIOUS
  <1>1. CASE UNCHANGED vars
    BY <1>1, SteadySame, SteadyKeeps DEF vars
  <1>2. CASE Next /\ \E d \in Deployment : Deploys(d)
    BY <1>2, RunStep
  <1>3. CASE Next /\ ~\E d \in Deployment : Deploys(d)
    BY <1>3, SteadyStep, SteadyKeeps
  <1> QED BY <1>1, <1>2, <1>3

LEMMA Flying ==
  ASSUME OneRun
  PROVE  Spec => []FlightInv
  <1>1. IInv /\ FlightInv /\ [Next]_vars => FlightInv'
    BY FlightStep
  <1> QED BY <1>1, FlightInit, Inductive, PTL DEF Spec

-----------------------------------------------------------------------------
(* The verdicts.                                                           *)

\* A failure promotes no other row than it should, or an overtaken route.
Promoted(i) == rows[i].status = "starting" \/ Overtaken(i)

\* The other steps: what they may write to a status.
LEMMA StatusStep ==
  ASSUME IInv, FlightInv, OneRun, Next, \A c \in Client : ~Decide(c), NEW i \in Row
  PROVE  \/ rows'[i].status = rows[i].status
         \/ rows'[i].status \in {"draft", "starting", "deployed"}
         \/ Promoted(i) /\ rows'[i].status = "approved"
  <1> DEFINE Goal == \/ rows'[i].status = rows[i].status
                     \/ rows'[i].status \in {"draft", "starting", "deployed"}
                     \/ Promoted(i) /\ rows'[i].status = "approved"
  <1>0. rows \in [Row -> RowType] /\ rows[i] \in RowType
    BY TypeParts DEF IInv
  <1>1. CASE UNCHANGED rows BY <1>1
  <1>2. ASSUME NEW S, rows' = Gone(S) PROVE Goal
    BY <1>0, <1>2 DEF Gone, RowType
  <1>3. ASSUME NEW S, rows' = Started(S) PROVE Goal
    BY <1>0, <1>3 DEF Started, RowType
  <1>4. ASSUME NEW S, NEW seen, NEW v \in Content,
               rows' = [j \in Row |-> IF j \in S THEN Saved(rows[j], seen, v) ELSE rows[j]]
        PROVE  Goal
    <2>1. CASE seen = "approved" BY <1>0, <1>4, <2>1, SavedRow
    <2>2. CASE seen # "approved" BY <1>0, <1>4, <2>2, SavedRow
    <2> QED BY <2>1, <2>2
  <1>5. ASSUME NEW j, NEW a \in Author \cup {None}, NEW k \in Kind \cup {None}, NEW v \in Content,
               rows' = [rows EXCEPT ![j] = Draft(a, k, v)]
        PROVE  Goal
    <2>1. CASE j = i
      <3>1. rows'[i] = Draft(a, k, v) BY <1>0, <1>5, <2>1
      <3> QED BY <3>1, DraftRow
    <2>2. CASE j # i BY <1>0, <1>5, <2>2
    <2> QED BY <2>1, <2>2
  <1>6. ASSUME NEW c \in Client, WriteSave(c) PROVE Goal
    <2>1. tx[c].who \in Author \cup {None} /\ tx[c].kind \in Kind \cup {None}
      BY DEF IInv, TypeOK
    <2>2. CASE tx[c].set # {}
      <3>1. PICK v \in Content :
              rows' = [j \in Row |-> IF j \in tx[c].set THEN Saved(rows[j], tx[c].seen, v)
                                                       ELSE rows[j]]
        BY <1>6, <2>2 DEF WriteSave
      <3> QED BY <1>4, <3>1
    <2>3. CASE tx[c].set = {}
      <3>1. PICK j \in NextId, v \in Content :
              rows' = [rows EXCEPT ![j] = Draft(tx[c].who, tx[c].kind, v)]
        BY <1>6, <2>3 DEF WriteSave
      <3> HIDE DEF Goal
      <3> QED BY <1>5, <2>1, <3>1
    <2> QED BY <2>2, <2>3
  <1>7. ASSUME NEW a \in Author, NEW v \in Content, StageVariables(a, v) PROVE Goal
    <2> DEFINE S == VariablesOf(a)
    <2> HIDE DEF Goal
    <2>1. CASE \E j \in NextId : rows' = [rows EXCEPT ![j] = Draft(a, "variables", v)]
      <3>1. a \in Author \cup {None} /\ "variables" \in Kind \cup {None}
        BY DEF Kind
      <3>2. PICK j \in NextId : rows' = [rows EXCEPT ![j] = Draft(a, "variables", v)]
        BY <2>1
      <3> QED BY <1>5, <3>1, <3>2
    <2>2. CASE rows' = [j \in Row |-> IF j \in S THEN Saved(rows[j], "draft", v) ELSE rows[j]]
      <3> HIDE DEF S
      <3> QED BY <1>4, <2>2
    <2> QED BY <1>7, <2>1, <2>2 DEF StageVariables
  <1>8. ASSUME NEW j \in Row, ShipVariables(j) \/ ExpireMark(j) PROVE Goal
    BY <1>0, <1>8 DEF ShipVariables, ExpireMark, RowType
  <1>9. ASSUME NEW d \in Deployment, WriteFailed(d) PROVE Goal
    <2>1. CASE rows'[i].status # rows[i].status
      <3>1. dep[d].was[i] # None /\ dep[d].was[i] = "starting" /\ rows'[i].status = "approved"
        BY <1>9, <2>1, WriteFailedRows
      <3>2. Promoted(i)
        BY <3>1 DEF Promoted, Overtaken, FlightInv, FlightRun
      <3> QED BY <3>1, <3>2
    <2> QED BY <2>1
  <1> HIDE DEF Goal
  <1>10. ASSUME NEW c \in Client, SecretDiscards(c) \/ Bin(c) \/ WriteClear(c) PROVE Goal
    BY <1>2, <1>10 DEF SecretDiscards, Bin, WriteClear
  <1>11. ASSUME NEW d \in Deployment, MarkStarting(d) \/ CreatePull(d) \/ Finish(d) PROVE Goal
    <2>1. CASE Finish(d)
      <3>1. "deployed" \in Status BY DEF Status
      <3>2. rows'[i] = rows[i] \/ rows'[i].status = "deployed"
        BY <2>1, <3>1, WrittenRows DEF Finish
      <3> QED BY <3>2 DEF Goal
    <2> QED BY <1>3, <1>11, <2>1 DEF MarkStarting, CreatePull
  <1>12. ASSUME NEW c \in Client,
               \/ \E v \in Verb, j \in Row : Open(c, v, j)
               \/ Refuse(c) \/ BreakDeadlock(c) \/ SecretFails(c)
               \/ \E j \in Row : OpenDiscard(c, j)
               \/ \E a \in Author, k \in DOMAIN Reusable : BeginSave(c, a, k) \/ BeginClear(c, a, k)
        PROVE  UNCHANGED rows
    BY <1>12 DEF Open, Refuse, BreakDeadlock, SecretFails, RollBack, OpenDiscard, BeginSave, BeginClear
  <1>13. ASSUME NEW d \in Deployment,
                Accept(d) \/ Prepare(d) \/ PrepareUnnamed(d) \/ Abandon(d) \/ ReadFailed(d)
         PROVE  UNCHANGED rows
    BY <1>13 DEF Accept, Prepare, PrepareUnnamed, Abandon, ReadFailed
  <1>14. Goal
    BY <1>1, <1>6, <1>7, <1>8, <1>9, <1>10, <1>11, <1>12, <1>13 DEF Next, Goal
  <1> QED BY <1>14 DEF Goal

\* A verdict falls on a row that waits for review; no overlap of saves, discards, deployments
\* and other verdicts (approve, reject, update_queue_status) rejects or approves another row, an
\* overtaken route excepted, if the service has one multiple-deploy run at a time: of two, one
\* can have deployed the row that the other's failure puts back.
THEOREM VerdictsProved ==
  ASSUME OneRun
  PROVE  Spec => VerdictsOnReview
  <1>1. IInv /\ FlightInv /\ [Next]_vars =>
          [\A i \in Row : rows'[i].status # rows[i].status =>
             /\ rows'[i].status = "rejected" => rows[i].status = "submit"
             /\ rows'[i].status = "approved" =>
                  rows[i].status \in {"submit", "starting"} \/ Overtaken(i)]_rows
    <2> SUFFICES ASSUME IInv, FlightInv, Next, NEW i \in Row, rows'[i].status # rows[i].status
                 PROVE  /\ rows'[i].status = "rejected" => rows[i].status = "submit"
                        /\ rows'[i].status = "approved" =>
                             rows[i].status \in {"submit", "starting"} \/ Overtaken(i)
      BY DEF vars
    <2>1. CASE \A c \in Client : ~Decide(c)
      BY <2>1, StatusStep DEF Promoted
    <2>2. ASSUME NEW c \in Client, Decide(c)
          PROVE  /\ rows'[i].status = "rejected" => rows[i].status = "submit"
                 /\ rows'[i].status = "approved" => rows[i].status = "submit"
      <3> DEFINE v == tx[c].verb
      <3>1. i \in Members(c) /\ v \in Verb /\ rows[i] \in RowType
        BY <2>2, DecideWrites
      <3>2. rows[i].status = Asks[v] /\ rows'[i] = Decided(v, rows[i])
        BY <2>2, <3>1, DecideWrites
      <3> HIDE DEF v
      <3> QED BY <3>1, <3>2, DecidedRow, AsksStatus, VerbSet
    <2> QED BY <2>1, <2>2
  <1> QED BY <1>1, Inductive, Flying, PTL DEF Spec, VerdictsOnReview

\* An author's rows in review get their verdict together (approve and reject, _change_set),
\* for every number of rows, although the locks are taken in two steps, if the service has one
\* multiple-deploy run at a time.
THEOREM WholeProved ==
  ASSUME OneRun
  PROVE  Spec => VerdictWhole
  <1>1. IInv /\ FlightInv /\ [Next]_vars =>
          [\A i, j \in Row :
             /\ In(i, "submit") /\ In(j, "submit") /\ rows[i].by = rows[j].by
             /\ rows'[i].status = "rejected" \/ (rows'[i].status = "approved" /\ ~Overtaken(i))
             => rows'[j].status = rows'[i].status]_rows
    <2> SUFFICES ASSUME IInv, FlightInv, Next, NEW i \in Row, NEW j \in Row,
                        In(i, "submit"), In(j, "submit"), rows[i].by = rows[j].by,
                        rows'[i].status = "rejected" \/ (rows'[i].status = "approved" /\ ~Overtaken(i))
                 PROVE  rows'[j].status = rows'[i].status
      BY DEF vars
    <2>1. rows[i].status = "submit" /\ rows[j].status = "submit"
      BY DEF In
    <2>2. PICK c \in Client : Decide(c)
      BY <2>1, StatusStep DEF Promoted
    <2> DEFINE v == tx[c].verb
    <2>3. i \in Members(c)
      BY <2>1, <2>2, DecideWrites
    <2>4. v \in Verb /\ Asks[v] = "submit"
      BY <2>1, <2>2, <2>3, DecideWrites
    <2>5. j \in Members(c)
      BY <2>3, <2>4, MembersAre
    <2>6. /\ rows'[i] = Decided(v, rows[i]) /\ rows'[j] = Decided(v, rows[j])
          /\ rows[i] \in RowType /\ rows[j] \in RowType
      BY <2>2, <2>3, <2>5, DecideWrites
    <2> HIDE DEF v
    <2> QED BY <2>1, <2>4, <2>6, DecidedRow, AsksStatus, VerbSet
  <1> QED BY <1>1, Inductive, Flying, PTL DEF Spec, VerdictWhole

\* A multiple-deploy run that names its rows starts with approved content only
\* (validate_deployable_queue_items): the seal it compares with the row can be nothing but the
\* standing approval's, whatever saves and failures have overlapped, and with any number of runs.
THEOREM AcceptsProved == Spec => AcceptsApproved
  <1>1. IInv /\ [Next]_vars =>
          [\A d \in Deployment :
             dep[d].stage = "none" /\ dep'[d].stage = "accepted" =>
               \A i \in dep'[d].items : rows[i].content = agreed[i]]_dep
    <2> SUFFICES ASSUME IInv, Next, NEW d \in Deployment,
                        dep[d].stage = "none", dep'[d].stage = "accepted"
                 PROVE  \A i \in dep'[d].items : rows[i].content = agreed[i]
      BY DEF vars
    <2>1. dep \in [Deployment -> DepType]
      BY DepTyped
    <2>2. PICK e \in Deployment : Deploys(e)
      BY SteadyStep
    <2>3. ASSUME ~Accept(d) PROVE FALSE
      <3>1. \/ PrepareUnnamed(d)
            \/ e # d
            \/ Prepare(d) \/ MarkStarting(d) \/ CreatePull(d) \/ Finish(d) \/ Abandon(d)
            \/ ReadFailed(d) \/ WriteFailed(d)
        BY <2>2, <2>3 DEF Deploys
      <3>2. CASE PrepareUnnamed(d)
        <4>1. PICK S : dep' = [dep EXCEPT ![d] = Read(S)]
          BY <3>2 DEF PrepareUnnamed
        <4>2. dep'[d].stage = "read"
          BY <2>1, <4>1 DEF Read, NoDeploy
        <4> QED BY <4>2
      <3>3. CASE e # d
        BY <2>1, <2>2, <3>3 DEF Deploys, Accept, Prepare, PrepareUnnamed, MarkStarting, CreatePull,
                                Finish, Abandon, ReadFailed, WriteFailed
      <3>4. ~(Prepare(d) \/ MarkStarting(d) \/ CreatePull(d) \/ Finish(d) \/ Abandon(d)
              \/ ReadFailed(d) \/ WriteFailed(d))
        BY DEF Prepare, MarkStarting, CreatePull, Finish, Abandon, ReadFailed, WriteFailed
      <3> QED BY <3>1, <3>2, <3>3, <3>4
    <2>4. PICK S \in SUBSET {i \in Row : Deployable(i)}, g \in BOOLEAN :
            dep' = [dep EXCEPT ![d] =
                      [NoDeploy EXCEPT !.stage = "accepted", !.items = S, !.gateway = g,
                                       !.gated = {i \in S : rows[i].mark /\ rows[i].kind = "settings"}]]
      BY <2>3 DEF Accept
    <2>5. dep'[d].items = S
      BY <2>1, <2>4 DEF NoDeploy
    <2>6. ASSUME NEW i \in S PROVE rows[i].content = agreed[i]
      <3>1. i \in Row /\ rows[i].seal = rows[i].content /\ rows[i].status = "approved"
        BY DEF Deployable, In, Sealed
      <3> QED BY <3>1 DEF IInv, RowInv, Created
    <2> QED BY <2>5, <2>6
  <1> QED BY <1>1, Inductive, PTL DEF Spec, AcceptsApproved

\* A settings row that the gate let through is deployed with a standing approval behind it
\* (revoke, deploy_in_flight), for any number of authors, requests and rows, if the service has
\* one multiple-deploy run at a time: the premise is needed, since the mark one run relies on is
\* taken off by another's end.
THEOREM RevokeProved ==
  ASSUME OneRun
  PROVE  Spec => []RevokeStands
  <1>1. FlightInv => RevokeStands
    BY DEF FlightInv, FlightRun, RevokeStands
  <1> QED BY <1>1, Flying, PTL
=============================================================================
