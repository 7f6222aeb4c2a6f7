---------------------------- MODULE RoutingProofs ----------------------------
(***************************************************************************)
(* Routing by the current tables, and a header for every registered        *)
(* relation.                                                               *)
(*                                                                         *)
(* Once the history variable settled is set, every entry of the current    *)
(* generation and every snapshot that can still become one agree with the  *)
(* tables, and no transaction has uncommitted rows (Coherent, Good): only  *)
(* a change of a row ends that, not the commit.  A statement that began    *)
(* then (clean) therefore only sees answers that agree with the tables     *)
(* (Truthful).  A header is never missed because routing a registered      *)
(* relation leaves an entry in the partition cache (Cached), and only a    *)
(* restart removes one.                                                    *)
(***************************************************************************)
EXTENDS Routing, TLAPS

RoutingPc == Lookup \cup {"next", "decide"}

\* The relations a statement still has to route.
Pending(r) == r.toRoute \cup (IF r.pc \in Lookup \cup {"decide"} THEN {r.part} ELSE {})

\* Primary known, node status not yet used.
HasPrimary == {"findNode", "loadNode", "fillNode", "decide"}

\* What a backend holds at each control point.
RecOK(r) ==
    /\ r.pc \in Lookup \cup {"decide"} => r.part \in Partition
    /\ r.pc \in {"fillPart", "findNode", "loadNode", "fillNode"} => r.primary \in Node
    /\ r.pc = "fillPart" => r.primary = r.snapP[r.part]
    /\ r.pc = "fillNode" => r.status = r.snapN[r.primary]
    /\ r.pc = "exec" /\ Local # NoNode => r.toRoute = {}
    /\ r.pc # "exec" => r.toLog = r.rels
    /\ r.pc = "idle" => r.rels = {} /\ ~r.clean

\* Routing a registered relation leaves an entry in the partition cache.
Cached(r, ph) ==
    /\ \A p \in r.rels \ Pending(r) : r.snapP[p] # NoNode => ph[p].gen # -1
    /\ r.pc \in HasPrimary => (r.snapP[r.part] # NoNode => ph[r.part].gen # -1)
    /\ r.pc = "exec" => \A p \in r.rels \ r.toLog : r.snapP[p] # NoNode => p \in r.logged

RunsHere(p, pm, nm) == pm[p] = NoNode \/ (pm[p] = Local /\ nm[Local] # "down")

\* The answers a clean statement has got agree with the tables.
Truthful(r, pm, nm) ==
    r.clean =>
        /\ r.pc \in HasPrimary => r.primary = pm[r.part]
        /\ r.pc = "decide" /\ r.primary # NoNode => r.status = nm[r.primary]
        /\ \A p \in r.rels \ Pending(r) : RunsHere(p, pm, nm)

Good(r, pm, nm, ph, st) ==
    /\ RecOK(r)
    /\ r.clean => st
    /\ st => r.dirtyP = {} /\ r.dirtyN = {}
    /\ st /\ (r.pc \in RoutingPc \/ r.rr) => r.snapP = pm /\ r.snapN = nm
    /\ Local # NoNode => Cached(r, ph) /\ Truthful(r, pm, nm)

Coherent ==
    settled => /\ \A p \in Partition : partHash[p].gen = generation =>
                      partHash[p].node = partMap[p]
               /\ \A n \in Node : nodeHash[n].gen = generation =>
                      nodeHash[n].status = nodeMap[n]

GoodBackends == \A b \in Backend : Good(bk[b], partMap, nodeMap, partHash, settled)

Inv == TypeOK /\ Coherent /\ GoodBackends
-----------------------------------------------------------------------------
LEMMA IdleGood ==
    /\ IdleBackend \in BackendState
    /\ \A pm, nm, ph, st : Good(IdleBackend, pm, nm, ph, st)
<1>1. IdleBackend \in BackendState
  BY DEF IdleBackend, BackendState, Status
<1>2. \A pm, nm, ph, st : Good(IdleBackend, pm, nm, ph, st)
  BY DEF IdleBackend, Good, RecOK, Cached, Truthful, RoutingPc, Lookup, HasPrimary
<1> QED BY <1>1, <1>2

LEMMA InvInit == Init => Inv
<1> SUFFICES ASSUME Init PROVE Inv
  OBVIOUS
<1>1. NoPartEntry \in PartEntry /\ NoNodeEntry \in NodeEntry
  BY DEF NoPartEntry, NoNodeEntry, PartEntry, NodeEntry, Status
<1>2. TypeOK
  BY <1>1, IdleGood, RoutingAssumption DEF Init, TypeOK, NoPartEntry, NoNodeEntry, Status
<1>3. Coherent
  BY DEF Init, Coherent, NoPartEntry, NoNodeEntry
<1>4. GoodBackends
  BY IdleGood DEF Init, GoodBackends
<1> QED BY <1>2, <1>3, <1>4 DEF Inv

\* A backend that is good stays good when entries are only added or refreshed.
LEMMA GoodKept ==
    ASSUME NEW r \in BackendState, NEW pm, NEW nm, NEW ph, NEW ph2, NEW st,
           Good(r, pm, nm, ph, st),
           \A p \in Partition : ph[p].gen # -1 => ph2[p].gen # -1
    PROVE  Good(r, pm, nm, ph2, st)
<1>1. r.rels \in SUBSET Partition
  BY DEF BackendState
<1>2. r.pc \in HasPrimary => r.part \in Partition
  BY DEF Good, RecOK, HasPrimary, Lookup
<1>3. Local # NoNode => Cached(r, ph2)
  BY <1>1, <1>2 DEF Good, Cached
<1> QED BY <1>3 DEF Good

\* A step of one backend: its new state is good, the tables and the generation
\* stay, entries are only added or refreshed.
LEMMA BackendFrame ==
    ASSUME Inv, NEW b \in Backend, NEW r \in BackendState,
           bk' = [bk EXCEPT ![b] = r],
           UNCHANGED <<tableVars, generation, ghostVars>>,
           partHash' \in [Partition -> PartEntry], nodeHash' \in [Node -> NodeEntry],
           \A p \in Partition : partHash'[p].gen <= generation,
           \A n \in Node : nodeHash'[n].gen <= generation,
           \A p \in Partition : partHash[p].gen # -1 => partHash'[p].gen # -1,
           Coherent',
           Good(r, partMap, nodeMap, partHash', settled)
    PROVE  Inv'
<1>1. /\ partMap' = partMap /\ nodeMap' = nodeMap /\ writes' = writes
      /\ generation' = generation /\ bumped' = bumped /\ settled' = settled
  BY DEF tableVars, ghostVars
<1>2. bk \in [Backend -> BackendState]
  BY DEF Inv, TypeOK
<1>3. TypeOK'
  BY <1>1, <1>2 DEF Inv, TypeOK
<1>4. ASSUME NEW c \in Backend
      PROVE  Good(bk'[c], partMap, nodeMap, partHash', settled)
  <2>1. CASE c = b
    BY <2>1, <1>2
  <2>2. CASE c # b
    <3>1. bk'[c] = bk[c] /\ bk[c] \in BackendState
      BY <2>2, <1>2
    <3>2. Good(bk[c], partMap, nodeMap, partHash, settled)
      BY DEF Inv, GoodBackends
    <3> QED BY <3>1, <3>2, GoodKept
  <2> QED BY <2>1, <2>2
<1>5. GoodBackends'
  BY <1>1, <1>4 DEF GoodBackends
<1> QED BY <1>3, <1>5 DEF Inv

\* The same for a step that leaves the caches alone.
LEMMA BackendOnly ==
    ASSUME Inv, NEW b \in Backend, NEW r \in BackendState,
           bk' = [bk EXCEPT ![b] = r],
           UNCHANGED <<tableVars, generation, partHash, nodeHash, ghostVars>>,
           Good(r, partMap, nodeMap, partHash, settled)
    PROVE  Inv'
<1>1. /\ partMap' = partMap /\ nodeMap' = nodeMap /\ generation' = generation
      /\ partHash' = partHash /\ nodeHash' = nodeHash /\ settled' = settled
  BY DEF tableVars, ghostVars
<1>2. Coherent'
  BY <1>1 DEF Inv, Coherent
<1> QED BY <1>1, <1>2, BackendFrame DEF Inv, TypeOK

\* The end of a statement leaves what its transaction needs.
LEMMA ReturnGood ==
    ASSUME NEW r \in BackendState, NEW pm, NEW nm, NEW ph, NEW st, Good(r, pm, nm, ph, st)
    PROVE  Return(r) \in BackendState /\ Good(Return(r), pm, nm, ph, st)
<1>1. CASE ~InTransaction(r)
  BY <1>1, IdleGood DEF Return
<1>2. CASE InTransaction(r)
  <2> DEFINE q == [IdleBackend EXCEPT !.rr = r.rr, !.snapP = r.snapP, !.snapN = r.snapN,
                                      !.dirtyP = r.dirtyP, !.dirtyN = r.dirtyN]
  <2>1. Return(r) = q
    BY <1>2 DEF Return
  <2>2. q \in BackendState
    BY IdleGood, ZenonT(60) DEF BackendState
  <2>3. /\ q.pc = "idle" /\ q.part = NoPart /\ q.rels = {} /\ q.toRoute = {} /\ q.toLog = {}
        /\ q.snapP = r.snapP /\ q.snapN = r.snapN /\ q.clean = FALSE
        /\ q.rr = r.rr /\ q.dirtyP = r.dirtyP /\ q.dirtyN = r.dirtyN
    BY DEF IdleBackend
  <2> HIDE DEF q
  <2>4. Good(q, pm, nm, ph, st)
    BY <2>3 DEF Good, RecOK, Cached, Truthful, RoutingPc, Lookup, HasPrimary
  <2> QED BY <2>1, <2>2, <2>4
<1> QED BY <1>1, <1>2

\* Nothing but types and the cached entries matters of a backend once the
\* metadata is unsettled.
LEMMA GoodUnsettled ==
    ASSUME NEW r \in BackendState, NEW pm, NEW nm, NEW ph, NEW st, Good(r, pm, nm, ph, st),
           NEW q \in BackendState, q = [r EXCEPT !.clean = FALSE]
    PROVE  \A pm2, nm2 : Good(q, pm2, nm2, ph, FALSE)
<1>1. /\ q.pc = r.pc /\ q.part = r.part /\ q.toRoute = r.toRoute /\ q.primary = r.primary
      /\ q.status = r.status /\ q.rels = r.rels /\ q.toLog = r.toLog /\ q.logged = r.logged
      /\ q.snapP = r.snapP /\ q.snapN = r.snapN /\ q.clean = FALSE
  BY DEF BackendState
<1>2. Pending(q) = Pending(r)
  BY <1>1 DEF Pending
<1>3. RecOK(q)
  BY <1>1 DEF Good, RecOK
<1>4. Local # NoNode => Cached(q, ph)
  BY <1>1, <1>2 DEF Good, Cached
<1> QED BY <1>1, <1>3, <1>4 DEF Good, Truthful

\* What a transaction sees of a table.
LEMMA LatestType ==
    ASSUME TypeOK, NEW b \in Backend
    PROVE  /\ LatestP(bk[b]) \in [Partition -> Node \cup {NoNode}]
           /\ LatestN(bk[b]) \in [Node -> Status]
           /\ bk[b].dirtyP = {} => LatestP(bk[b]) = partMap
           /\ bk[b].dirtyN = {} => LatestN(bk[b]) = nodeMap
<1>1. /\ bk[b] \in BackendState /\ partMap \in [Partition -> Node \cup {NoNode}]
      /\ nodeMap \in [Node -> Status]
  BY DEF TypeOK
<1>2. bk[b].snapP \in [Partition -> Node \cup {NoNode}] /\ bk[b].snapN \in [Node -> Status]
  BY <1>1 DEF BackendState
<1> QED BY <1>1, <1>2 DEF LatestP, LatestN

\* What the caller of GetPartitionPrimary continues with.
LEMMA GotPrimaryGood ==
    ASSUME NEW r \in BackendState, NEW pm, NEW nm, NEW ph, NEW st,
           Good(r, pm, nm, ph, st), r.pc \in {"findPart", "loadPart", "fillPart"},
           NEW n \in Node \cup {NoNode}, r.clean => n = pm[r.part],
           r.snapP[r.part] # NoNode => ph[r.part].gen # -1
    PROVE  GotPrimary(r, n) \in BackendState /\ Good(GotPrimary(r, n), pm, nm, ph, st)
<1>1. CASE r.report
  BY <1>1, IdleGood DEF GotPrimary
<1>2. CASE ~r.report
  <2> DEFINE c == IF n = NoNode THEN "decide" ELSE "findNode"
             q == [r EXCEPT !.primary = n, !.pc = c]
  <2>1. GotPrimary(r, n) = q
    BY <1>2 DEF GotPrimary
  <2>2. q \in BackendState
    BY DEF BackendState, Lookup
  <2>3. /\ q.pc = c /\ q.primary = n /\ q.part = r.part /\ q.rels = r.rels
        /\ q.toRoute = r.toRoute /\ q.toLog = r.toLog /\ q.snapP = r.snapP /\ q.snapN = r.snapN
        /\ q.rr = r.rr /\ q.dirtyP = r.dirtyP /\ q.dirtyN = r.dirtyN
        /\ q.clean = r.clean /\ q.status = r.status
    BY DEF BackendState
  <2> HIDE DEF q
  <2>4. Pending(q) = Pending(r)
    BY <2>3 DEF Pending, Lookup
  <2>5. RecOK(q)
    BY <2>3 DEF Good, RecOK, Lookup
  <2>6. Local # NoNode => Cached(q, ph) /\ Truthful(q, pm, nm)
    BY <2>3, <2>4 DEF Good, Cached, Truthful, HasPrimary
  <2>7. r.pc \in RoutingPc
    BY DEF RoutingPc, Lookup
  <2> QED BY <2>1, <2>2, <2>3, <2>5, <2>6, <2>7 DEF Good
<1> QED BY <1>1, <1>2

LEMMA InvBackend ==
    ASSUME Inv, NEW b \in Backend,
           BackendStep(b) \/ BeginRepeatableRead(b) \/ Rollback(b)
    PROVE  Inv'
<1> DEFINE r == bk[b]
<1>a. /\ TypeOK /\ Coherent
      /\ r \in BackendState /\ Good(r, partMap, nodeMap, partHash, settled)
  BY DEF Inv, GoodBackends, TypeOK
<1>b. /\ partMap \in [Partition -> Node \cup {NoNode}] /\ nodeMap \in [Node -> Status]
      /\ generation \in Nat
      /\ partHash \in [Partition -> PartEntry] /\ nodeHash \in [Node -> NodeEntry]
      /\ bk \in [Backend -> BackendState] /\ settled \in BOOLEAN
      /\ \A p \in Partition : partHash[p].gen <= generation
      /\ \A n \in Node : nodeHash[n].gen <= generation
  BY <1>a, RoutingAssumption DEF TypeOK
<1>c. IdleBackend \in BackendState /\ Good(IdleBackend, partMap, nodeMap, partHash, settled)
  BY IdleGood
<1>d. Return(r) \in BackendState /\ Good(Return(r), partMap, nodeMap, partHash, settled)
  BY <1>a, ReturnGood
<1>1. ASSUME NEW op \in {"read", "dml"}, NEW S \in SUBSET Partition, Begin(b, op, S)
      PROVE  Inv'
  <2> DEFINE c == IF op = "dml" /\ Local = NoNode THEN "exec" ELSE "next"
             sp == IF r.rr THEN r.snapP ELSE LatestP(r)
             sn == IF r.rr THEN r.snapN ELSE LatestN(r)
             q == [r EXCEPT !.pc = c, !.op = op, !.rels = S, !.toRoute = S, !.toLog = S,
                            !.snapP = sp, !.snapN = sn, !.clean = settled]
  <2>1. /\ r.pc = "idle" /\ bk' = [bk EXCEPT ![b] = q]
        /\ UNCHANGED <<tableVars, generation, partHash, nodeHash, ghostVars>>
    BY <1>1 DEF Begin
  <2>2. /\ sp \in [Partition -> Node \cup {NoNode}] /\ sn \in [Node -> Status]
        /\ settled => sp = partMap /\ sn = nodeMap
    BY <1>a, LatestType DEF Good, BackendState
  <2> HIDE DEF sp, sn
  <2>3. /\ q.pc = c /\ q.part = r.part /\ q.rels = S /\ q.toRoute = S /\ q.toLog = S
        /\ q.snapP = sp /\ q.snapN = sn /\ q.clean = settled
        /\ q.rr = r.rr /\ q.dirtyP = r.dirtyP /\ q.dirtyN = r.dirtyN
    BY <1>a DEF BackendState
  <2>4. q \in BackendState
    BY <2>2, <1>a, <1>b, ZenonT(60) DEF BackendState
  <2> HIDE DEF q
  <2>5. RecOK(q)
    BY <2>3 DEF RecOK, Lookup
  <2>6. S \ Pending(q) = {}
    BY <2>3 DEF Pending
  <2>7. Local # NoNode => Cached(q, partHash) /\ Truthful(q, partMap, nodeMap)
    BY <2>3, <2>6 DEF Cached, Truthful, HasPrimary
  <2>8. Good(q, partMap, nodeMap, partHash, settled)
    BY <2>2, <2>3, <2>5, <2>7, <1>a DEF Good
  <2> QED BY <2>1, <2>4, <2>8, BackendOnly
<1>2. ASSUME NEW p \in Partition, RouteNext(b, p) PROVE Inv'
  <2> DEFINE rest == r.toRoute \ {p}
             q == [r EXCEPT !.pc = "findPart", !.part = p, !.toRoute = rest]
  <2>1. /\ r.pc = "next" /\ p \in r.toRoute /\ bk' = [bk EXCEPT ![b] = q]
        /\ UNCHANGED <<tableVars, generation, partHash, nodeHash, ghostVars>>
    BY <1>2 DEF RouteNext
  <2>2. q \in BackendState
    BY <1>a DEF BackendState, Lookup
  <2>3. /\ q.pc = "findPart" /\ q.part = p /\ q.toRoute = rest /\ q.rels = r.rels
        /\ q.toLog = r.toLog /\ q.snapP = r.snapP /\ q.snapN = r.snapN /\ q.clean = r.clean
 /\ q.rr = r.rr /\ q.dirtyP = r.dirtyP /\ q.dirtyN = r.dirtyN
    BY <1>a DEF BackendState
  <2> HIDE DEF q
  <2>4. Pending(q) = Pending(r)
    BY <2>1, <2>3 DEF Pending, Lookup
  <2>5. Good(q, partMap, nodeMap, partHash, settled)
    BY <2>1, <2>3, <2>4, <1>a DEF Good, RecOK, Cached, Truthful, HasPrimary, RoutingPc, Lookup
  <2> QED BY <2>1, <2>2, <2>5, BackendOnly
<1>3. CASE FindPartition(b)
  <2> DEFINE e == partHash[r.part]
             miss == [r EXCEPT !.pc = "loadPart"]
  <2>1. /\ r.pc = "findPart"
        /\ bk' = [bk EXCEPT ![b] = IF e.gen = generation THEN GotPrimary(r, e.node) ELSE miss]
        /\ UNCHANGED <<tableVars, generation, partHash, nodeHash, ghostVars>>
    BY <1>3 DEF FindPartition, PartitionHit
  <2>2. r.part \in Partition
    BY <2>1, <1>a DEF Good, RecOK, Lookup
  <2>3. CASE e.gen = generation
    <3>1. e.node \in Node \cup {NoNode} /\ e.gen # -1
      BY <2>2, <2>3, <1>b DEF PartEntry
    <3>2. r.clean => e.node = partMap[r.part]
      BY <2>2, <2>3, <1>a DEF Good, Coherent
    <3>3. /\ GotPrimary(r, e.node) \in BackendState
          /\ Good(GotPrimary(r, e.node), partMap, nodeMap, partHash, settled)
      BY <3>1, <3>2, <2>1, <1>a, GotPrimaryGood
    <3> QED BY <3>3, <2>1, <2>3, BackendOnly
  <2>4. CASE e.gen # generation
    <3>1. miss \in BackendState
      BY <1>a DEF BackendState, Lookup
    <3>2. /\ miss.pc = "loadPart" /\ miss.part = r.part /\ miss.toRoute = r.toRoute
          /\ miss.rels = r.rels /\ miss.toLog = r.toLog /\ miss.snapP = r.snapP
          /\ miss.snapN = r.snapN /\ miss.clean = r.clean
          /\ miss.rr = r.rr /\ miss.dirtyP = r.dirtyP /\ miss.dirtyN = r.dirtyN
      BY <1>a DEF BackendState
    <3> HIDE DEF miss
    <3>3. Pending(miss) = Pending(r)
      BY <3>2, <2>1 DEF Pending, Lookup
    <3>4. Good(miss, partMap, nodeMap, partHash, settled)
      BY <3>2, <3>3, <2>1, <1>a DEF Good, RecOK, Cached, Truthful, HasPrimary, RoutingPc, Lookup
    <3> QED BY <3>1, <3>4, <2>1, <2>4, BackendOnly
  <2> QED BY <2>3, <2>4
<1>4. CASE LoadPartitionFromTable(b)
  <2> DEFINE n == r.snapP[r.part]
             q == [r EXCEPT !.pc = "fillPart", !.primary = n]
  <2>1. /\ r.pc = "loadPart"
        /\ bk' = [bk EXCEPT ![b] = IF n = NoNode THEN GotPrimary(r, NoNode) ELSE q]
        /\ UNCHANGED <<tableVars, generation, partHash, nodeHash, ghostVars>>
    BY <1>4 DEF LoadPartitionFromTable
  <2>2. r.part \in Partition /\ n \in Node \cup {NoNode}
    BY <2>1, <1>a DEF Good, RecOK, Lookup, BackendState
  <2>3. r.clean => n = partMap[r.part]
    BY <2>1, <1>a DEF Good, RoutingPc, Lookup
  <2>4. CASE n = NoNode
    <3>1. /\ GotPrimary(r, NoNode) \in BackendState
          /\ Good(GotPrimary(r, NoNode), partMap, nodeMap, partHash, settled)
      BY <2>1, <2>3, <2>4, <1>a, GotPrimaryGood
    <3> QED BY <3>1, <2>1, <2>4, BackendOnly
  <2>5. CASE n # NoNode
    <3>1. q \in BackendState
      BY <2>2, <1>a DEF BackendState, Lookup
    <3>2. /\ q.pc = "fillPart" /\ q.part = r.part /\ q.toRoute = r.toRoute /\ q.primary = n
          /\ q.rels = r.rels /\ q.toLog = r.toLog /\ q.snapP = r.snapP
          /\ q.snapN = r.snapN /\ q.clean = r.clean
          /\ q.rr = r.rr /\ q.dirtyP = r.dirtyP /\ q.dirtyN = r.dirtyN
      BY <1>a DEF BackendState
    <3> HIDE DEF q
    <3>3. Pending(q) = Pending(r)
      BY <3>2, <2>1 DEF Pending, Lookup
    <3>4. Good(q, partMap, nodeMap, partHash, settled)
      BY <3>2, <3>3, <2>1, <2>2, <2>5, <1>a
         DEF Good, RecOK, Cached, Truthful, HasPrimary, RoutingPc, Lookup
    <3> QED BY <3>1, <3>4, <2>1, <2>5, BackendOnly
  <2> QED BY <2>4, <2>5
<1>5. CASE FillPartition(b)
  <2> DEFINE p == r.part
             n == r.primary
             e == [gen |-> generation, node |-> n]
  <2>1. /\ r.pc = "fillPart" /\ partHash' = [partHash EXCEPT ![p] = e]
        /\ bk' = [bk EXCEPT ![b] = GotPrimary(r, n)]
        /\ UNCHANGED <<tableVars, generation, nodeHash, ghostVars>>
    BY <1>5 DEF FillPartition, MetaVersion
  <2>2. p \in Partition /\ n \in Node /\ n = r.snapP[p]
    BY <2>1, <1>a DEF Good, RecOK, Lookup
  <2>3. e \in PartEntry /\ e.gen = generation /\ e.node = n
    BY <2>2, <1>b DEF PartEntry
  <2>4. settled => n = partMap[p]
    BY <2>1, <2>2, <1>a DEF Good, RoutingPc, Lookup
  <2> HIDE DEF e
  <2>5. /\ partHash' \in [Partition -> PartEntry]
        /\ \A q \in Partition : partHash'[q].gen <= generation
        /\ \A q \in Partition : partHash[q].gen # -1 => partHash'[q].gen # -1
        /\ partHash'[p].gen # -1
        /\ \A q \in Partition \ {p} : partHash'[q] = partHash[q]
        /\ partHash'[p] = e
    BY <2>1, <2>2, <2>3, <1>b
  <2>6. /\ nodeHash' = nodeHash /\ partMap' = partMap /\ nodeMap' = nodeMap
        /\ settled' = settled /\ generation' = generation
    BY <2>1 DEF tableVars, ghostVars
  <2>7. Coherent'
    BY <2>3, <2>4, <2>5, <2>6, <1>a DEF Coherent
  <2>8. Good(r, partMap, nodeMap, partHash', settled)
    BY <2>5, <1>a, GoodKept
  <2>9. r.clean => n = partMap[p]
    BY <2>4, <1>a DEF Good
  <2>10. /\ GotPrimary(r, n) \in BackendState
         /\ Good(GotPrimary(r, n), partMap, nodeMap, partHash', settled)
    <3>1. /\ r \in BackendState /\ n \in Node \cup {NoNode}
          /\ r.pc \in {"findPart", "loadPart", "fillPart"}
          /\ r.snapP[p] # NoNode => partHash'[p].gen # -1
      BY <2>1, <2>2, <2>5, <1>a
    <3> HIDE DEF r, n
    <3> QED BY <3>1, <2>8, <2>9, GotPrimaryGood
  <2>11. \A m \in Node : nodeHash'[m].gen <= generation
    BY <2>6, <1>b
  <2>12. nodeHash' \in [Node -> NodeEntry]
    BY <2>6, <1>b
  <2>13. UNCHANGED <<tableVars, generation, ghostVars>>
    BY <2>1
  <2> DEFINE g == GotPrimary(r, n)
  <2>14. /\ g \in BackendState /\ bk' = [bk EXCEPT ![b] = g]
         /\ Good(g, partMap, nodeMap, partHash', settled)
    BY <2>1, <2>10
  <2> HIDE DEF g
  <2> QED BY <2>5, <2>7, <2>11, <2>12, <2>13, <2>14, BackendFrame
<1>6. CASE FillPartitionFull(b) \/ FillNodeFull(b) \/ Rollback(b)
  <2>1. /\ bk' = [bk EXCEPT ![b] = IdleBackend]
        /\ UNCHANGED <<tableVars, generation, partHash, nodeHash, ghostVars>>
    BY <1>6 DEF FillPartitionFull, FillNodeFull, Rollback
  <2> QED BY <2>1, <1>c, BackendOnly
<1>12. CASE AnswerPrimary(b) \/ EndStatement(b)
  <2>1. /\ bk' = [bk EXCEPT ![b] = Return(r)]
        /\ UNCHANGED <<tableVars, generation, partHash, nodeHash, ghostVars>>
    BY <1>12 DEF AnswerPrimary, EndStatement
  <2> QED BY <2>1, <1>d, BackendOnly
<1>13. CASE BeginRepeatableRead(b)
  <2> DEFINE q == [r EXCEPT !.rr = TRUE, !.snapP = partMap, !.snapN = nodeMap]
  <2>1. /\ r.pc = "idle" /\ bk' = [bk EXCEPT ![b] = q]
        /\ UNCHANGED <<tableVars, generation, partHash, nodeHash, ghostVars>>
        /\ r.dirtyP = {} /\ r.dirtyN = {}
    BY <1>13 DEF BeginRepeatableRead, InTransaction, Uncommitted
  <2>2. q \in BackendState
    BY <1>a, <1>b DEF BackendState
  <2>3. /\ q.pc = "idle" /\ q.rels = r.rels /\ q.toRoute = r.toRoute /\ q.toLog = r.toLog
        /\ q.snapP = partMap /\ q.snapN = nodeMap /\ q.clean = r.clean /\ q.part = r.part
        /\ q.dirtyP = r.dirtyP /\ q.dirtyN = r.dirtyN
    BY <2>1, <1>a DEF BackendState
  <2> HIDE DEF q
  <2>4. Good(q, partMap, nodeMap, partHash, settled)
    BY <2>1, <2>3, <1>a DEF Good, RecOK, Cached, Truthful, HasPrimary, RoutingPc, Lookup, Pending
  <2> QED BY <2>1, <2>2, <2>4, BackendOnly
<1>7. CASE FindNode(b)
  <2> DEFINE e == nodeHash[r.primary]
             hit == [r EXCEPT !.pc = "decide", !.status = e.status]
             miss == [r EXCEPT !.pc = "loadNode"]
  <2>1. /\ r.pc = "findNode"
        /\ bk' = [bk EXCEPT ![b] = IF e.gen = generation THEN hit ELSE miss]
        /\ UNCHANGED <<tableVars, generation, partHash, nodeHash, ghostVars>>
    BY <1>7 DEF FindNode
  <2>2. r.primary \in Node /\ r.part \in Partition /\ e.status \in Status
    BY <2>1, <1>a, <1>b DEF Good, RecOK, Lookup, NodeEntry
  <2>3. CASE e.gen = generation
    <3>1. hit \in BackendState
      BY <2>2, <1>a DEF BackendState
    <3>2. /\ hit.pc = "decide" /\ hit.part = r.part /\ hit.toRoute = r.toRoute
          /\ hit.primary = r.primary /\ hit.status = e.status
          /\ hit.rels = r.rels /\ hit.toLog = r.toLog /\ hit.snapP = r.snapP
          /\ hit.snapN = r.snapN /\ hit.clean = r.clean
          /\ hit.rr = r.rr /\ hit.dirtyP = r.dirtyP /\ hit.dirtyN = r.dirtyN
      BY <1>a DEF BackendState
    <3>3. r.clean => e.status = nodeMap[r.primary]
      BY <2>2, <2>3, <1>a DEF Good, Coherent
    <3> HIDE DEF hit, e
    <3>4. Pending(hit) = Pending(r)
      BY <3>2, <2>1 DEF Pending, Lookup
    <3>5. Good(hit, partMap, nodeMap, partHash, settled)
      BY <3>2, <3>3, <3>4, <2>1, <2>2, <1>a
         DEF Good, RecOK, Cached, Truthful, HasPrimary, RoutingPc, Lookup
    <3> QED BY <3>1, <3>5, <2>1, <2>3, BackendOnly
  <2>4. CASE e.gen # generation
    <3>1. miss \in BackendState
      BY <1>a DEF BackendState, Lookup
    <3>2. /\ miss.pc = "loadNode" /\ miss.part = r.part /\ miss.toRoute = r.toRoute
          /\ miss.primary = r.primary
          /\ miss.rels = r.rels /\ miss.toLog = r.toLog /\ miss.snapP = r.snapP
          /\ miss.snapN = r.snapN /\ miss.clean = r.clean
          /\ miss.rr = r.rr /\ miss.dirtyP = r.dirtyP /\ miss.dirtyN = r.dirtyN
      BY <1>a DEF BackendState
    <3> HIDE DEF miss
    <3>3. Pending(miss) = Pending(r)
      BY <3>2, <2>1 DEF Pending, Lookup
    <3>4. Good(miss, partMap, nodeMap, partHash, settled)
      BY <3>2, <3>3, <2>1, <2>2, <1>a
         DEF Good, RecOK, Cached, Truthful, HasPrimary, RoutingPc, Lookup
    <3> QED BY <3>1, <3>4, <2>1, <2>4, BackendOnly
  <2> QED BY <2>3, <2>4
<1>8. CASE LoadNodeFromTable(b)
  <2> DEFINE s == r.snapN[r.primary]
             c == IF s = "none" THEN "decide" ELSE "fillNode"
             q == [r EXCEPT !.status = s, !.pc = c]
  <2>1. /\ r.pc = "loadNode" /\ bk' = [bk EXCEPT ![b] = q]
        /\ UNCHANGED <<tableVars, generation, partHash, nodeHash, ghostVars>>
    BY <1>8 DEF LoadNodeFromTable
  <2>2. r.primary \in Node /\ r.part \in Partition /\ s \in Status
    BY <2>1, <1>a DEF Good, RecOK, Lookup, BackendState
  <2>3. r.clean => s = nodeMap[r.primary]
    BY <2>1, <1>a DEF Good, RoutingPc, Lookup
  <2>4. q \in BackendState
    BY <2>2, <1>a DEF BackendState, Lookup
  <2>5. /\ q.pc = c /\ q.part = r.part /\ q.toRoute = r.toRoute
        /\ q.primary = r.primary /\ q.status = s
        /\ q.rels = r.rels /\ q.toLog = r.toLog /\ q.snapP = r.snapP
        /\ q.snapN = r.snapN /\ q.clean = r.clean
        /\ q.rr = r.rr /\ q.dirtyP = r.dirtyP /\ q.dirtyN = r.dirtyN
    BY <1>a DEF BackendState
  <2> HIDE DEF q
  <2>6. Pending(q) = Pending(r)
    BY <2>5, <2>1 DEF Pending, Lookup
  <2>7. Good(q, partMap, nodeMap, partHash, settled)
    BY <2>1, <2>2, <2>3, <2>5, <2>6, <1>a
       DEF Good, RecOK, Cached, Truthful, HasPrimary, RoutingPc, Lookup
  <2> QED BY <2>1, <2>4, <2>7, BackendOnly
<1>9. CASE FillNode(b)
  <2> DEFINE n == r.primary
             s == r.status
             e == [gen |-> generation, status |-> s]
             q == [r EXCEPT !.pc = "decide"]
  <2>1. /\ r.pc = "fillNode" /\ nodeHash' = [nodeHash EXCEPT ![n] = e]
        /\ bk' = [bk EXCEPT ![b] = q]
        /\ UNCHANGED <<tableVars, generation, partHash, ghostVars>>
    BY <1>9 DEF FillNode
  <2>2. n \in Node /\ r.part \in Partition /\ s = r.snapN[n] /\ s \in Status
    BY <2>1, <1>a DEF Good, RecOK, Lookup, BackendState
  <2>3. e \in NodeEntry /\ e.gen = generation /\ e.status = s
    BY <2>2, <1>b DEF NodeEntry
  <2>4. settled => s = nodeMap[n]
    BY <2>1, <2>2, <1>a DEF Good, RoutingPc, Lookup
  <2> HIDE DEF e
  <2>5. /\ nodeHash' \in [Node -> NodeEntry]
        /\ \A m \in Node : nodeHash'[m].gen <= generation
        /\ \A m \in Node \ {n} : nodeHash'[m] = nodeHash[m]
        /\ nodeHash'[n] = e
    BY <2>1, <2>2, <2>3, <1>b
  <2>6. /\ partHash' = partHash /\ partMap' = partMap /\ nodeMap' = nodeMap
        /\ settled' = settled /\ generation' = generation
    BY <2>1 DEF tableVars, ghostVars
  <2>7. Coherent'
    BY <2>3, <2>4, <2>5, <2>6, <1>a DEF Coherent
  <2>8. q \in BackendState
    BY <1>a DEF BackendState
  <2>9. /\ q.pc = "decide" /\ q.part = r.part /\ q.toRoute = r.toRoute
        /\ q.primary = n /\ q.status = s
        /\ q.rels = r.rels /\ q.toLog = r.toLog /\ q.snapP = r.snapP
        /\ q.snapN = r.snapN /\ q.clean = r.clean
        /\ q.rr = r.rr /\ q.dirtyP = r.dirtyP /\ q.dirtyN = r.dirtyN
    BY <1>a DEF BackendState
  <2> HIDE DEF q
  <2>10. Pending(q) = Pending(r)
    BY <2>9, <2>1 DEF Pending, Lookup
  <2>11. Good(q, partMap, nodeMap, partHash, settled)
    BY <2>1, <2>2, <2>4, <2>9, <2>10, <1>a
       DEF Good, RecOK, Cached, Truthful, HasPrimary, RoutingPc, Lookup
  <2>12. /\ partHash' \in [Partition -> PartEntry]
         /\ \A x \in Partition : partHash'[x].gen <= generation
         /\ \A x \in Partition : partHash[x].gen # -1 => partHash'[x].gen # -1
         /\ Good(q, partMap, nodeMap, partHash', settled)
    BY <2>6, <2>11, <1>b
  <2>13. UNCHANGED <<tableVars, generation, ghostVars>> /\ bk' = [bk EXCEPT ![b] = q]
    BY <2>1
  <2> QED BY <2>5, <2>7, <2>8, <2>12, <2>13, BackendFrame
<1>10. CASE Decide(b)
  <2> DEFINE route == RouteStatus(r)
             again == [r EXCEPT !.pc = "findPart", !.report = TRUE]
             c == IF r.toRoute = {} THEN "exec" ELSE "next"
             go == [r EXCEPT !.pc = c, !.part = NoPart, !.primary = NoNode, !.status = "none"]
  <2>1. /\ r.pc = "decide"
        /\ bk' = [bk EXCEPT ![b] =
                    IF r.op = "read" THEN Return(r)
                    ELSE IF route = "node_down" THEN IdleBackend
                    ELSE IF route = "remote" THEN again ELSE go]
        /\ UNCHANGED <<tableVars, generation, partHash, nodeHash, ghostVars>>
    BY <1>10 DEF Decide
  <2>2. r.part \in Partition
    BY <2>1, <1>a DEF Good, RecOK
  <2>3. CASE r.op = "read" \/ route = "node_down"
    BY <2>1, <2>3, <1>c, <1>d, BackendOnly
  <2>4. CASE ~(r.op = "read" \/ route = "node_down") /\ route = "remote"
    <3>1. again \in BackendState
      BY <1>a DEF BackendState, Lookup
    <3>2. /\ again.pc = "findPart" /\ again.part = r.part /\ again.toRoute = r.toRoute
          /\ again.rels = r.rels /\ again.toLog = r.toLog /\ again.snapP = r.snapP
          /\ again.snapN = r.snapN /\ again.clean = r.clean
          /\ again.rr = r.rr /\ again.dirtyP = r.dirtyP /\ again.dirtyN = r.dirtyN
      BY <1>a DEF BackendState
    <3>3. bk' = [bk EXCEPT ![b] = again]
      BY <2>1, <2>4
    <3> HIDE DEF again
    <3>4. Pending(again) = Pending(r)
      BY <3>2, <2>1 DEF Pending, Lookup
    <3>5. Good(again, partMap, nodeMap, partHash, settled)
      BY <3>2, <3>4, <2>1, <2>2, <1>a
         DEF Good, RecOK, Cached, Truthful, HasPrimary, RoutingPc, Lookup
    <3> QED BY <3>1, <3>3, <3>5, <2>1, BackendOnly
  <2>5. CASE ~(r.op = "read" \/ route = "node_down") /\ route # "remote"
    <3>1. go \in BackendState
      BY <1>a, ZenonT(60) DEF BackendState, Status
    <3>2. /\ go.pc = c /\ go.part = NoPart /\ go.toRoute = r.toRoute
          /\ go.rels = r.rels /\ go.toLog = r.toLog /\ go.snapP = r.snapP
          /\ go.snapN = r.snapN /\ go.clean = r.clean
          /\ go.rr = r.rr /\ go.dirtyP = r.dirtyP /\ go.dirtyN = r.dirtyN
      BY <1>a DEF BackendState
    <3>3. bk' = [bk EXCEPT ![b] = go]
      BY <2>1, <2>5
    <3>4. r.primary = NoNode \/ (r.primary = Local /\ r.status # "down")
      BY <2>5 DEF RouteStatus
    <3> HIDE DEF go
    <3>5. Pending(go) = r.toRoute /\ Pending(r) = r.toRoute \cup {r.part}
      BY <3>2, <2>1 DEF Pending, Lookup
    <3>6. RecOK(go)
      BY <3>2, <2>1, <1>a DEF Good, RecOK, Lookup
    <3>7. ASSUME Local # NoNode PROVE Cached(go, partHash)
      <4>1. /\ \A p \in r.rels \ Pending(r) : r.snapP[p] # NoNode => partHash[p].gen # -1
            /\ r.snapP[r.part] # NoNode => partHash[r.part].gen # -1
            /\ r.toLog = r.rels
        BY <3>7, <2>1, <1>a DEF Good, Cached, RecOK, HasPrimary
      <4> QED BY <4>1, <3>2, <3>5 DEF Cached, HasPrimary
    <3>8. ASSUME Local # NoNode PROVE Truthful(go, partMap, nodeMap)
      <4> SUFFICES ASSUME r.clean
                   PROVE  \A p \in r.rels \ r.toRoute : RunsHere(p, partMap, nodeMap)
        BY <3>2, <3>5 DEF Truthful, HasPrimary
      <4>1. /\ r.primary = partMap[r.part]
            /\ r.primary # NoNode => r.status = nodeMap[r.primary]
            /\ \A p \in r.rels \ Pending(r) : RunsHere(p, partMap, nodeMap)
        BY <3>8, <2>1, <1>a DEF Good, Truthful, HasPrimary
      <4>2. RunsHere(r.part, partMap, nodeMap)
        BY <4>1, <3>4 DEF RunsHere
      <4> QED BY <4>1, <4>2, <3>5
    <3>9. Good(go, partMap, nodeMap, partHash, settled)
      BY <3>2, <3>6, <3>7, <3>8, <2>1, <1>a DEF Good, RoutingPc, Lookup
    <3> QED BY <3>1, <3>3, <3>9, <2>1, BackendOnly
  <2> QED BY <2>3, <2>4, <2>5
<1>11. ASSUME NEW p \in Partition, FinishRelation(b, p) PROVE Inv'
  <2> DEFINE rest == r.toLog \ {p}
             out == IF partHash[p].gen # -1 THEN r.logged \cup {p} ELSE r.logged
             q == [r EXCEPT !.toLog = rest, !.logged = out]
  <2>1. /\ r.pc = "exec" /\ p \in r.toLog /\ bk' = [bk EXCEPT ![b] = q]
        /\ UNCHANGED <<tableVars, generation, partHash, nodeHash, ghostVars>>
    BY <1>11 DEF FinishRelation, ShouldWritePartWAL
  <2>2. rest \in SUBSET Partition /\ out \in SUBSET Partition
    BY <1>a DEF BackendState
  <2> HIDE DEF rest, out
  <2>3. q \in BackendState
    BY <2>2, <1>a DEF BackendState
  <2>4. /\ q.pc = "exec" /\ q.part = r.part /\ q.toRoute = r.toRoute /\ q.primary = r.primary
        /\ q.rels = r.rels /\ q.toLog = rest /\ q.logged = out /\ q.snapP = r.snapP
        /\ q.snapN = r.snapN /\ q.clean = r.clean
        /\ q.rr = r.rr /\ q.dirtyP = r.dirtyP /\ q.dirtyN = r.dirtyN
    BY <2>1, <1>a DEF BackendState
  <2> HIDE DEF q
  <2>5. Pending(q) = Pending(r)
    BY <2>4, <2>1 DEF Pending, Lookup
  <2>6. RecOK(q)
    BY <2>1, <2>4, <1>a DEF Good, RecOK, Lookup
  <2>7. ASSUME Local # NoNode PROVE Cached(q, partHash)
    <3>1. /\ \A x \in r.rels \ Pending(r) : r.snapP[x] # NoNode => partHash[x].gen # -1
          /\ \A x \in r.rels \ r.toLog : r.snapP[x] # NoNode => x \in r.logged
          /\ r.toRoute = {}
      BY <2>7, <2>1, <1>a DEF Good, Cached, RecOK
    <3>2. Pending(r) = {}
      BY <3>1, <2>1 DEF Pending, Lookup
    <3>3. ASSUME NEW x \in r.rels \ rest, r.snapP[x] # NoNode PROVE x \in out
      BY <3>1, <3>2, <3>3 DEF rest, out
    <3> QED BY <3>1, <3>3, <2>4, <2>5 DEF Cached, HasPrimary
  <2>8. ASSUME Local # NoNode PROVE Truthful(q, partMap, nodeMap)
    BY <2>4, <2>5, <2>8, <1>a DEF Good, Truthful, HasPrimary
  <2>9. Good(q, partMap, nodeMap, partHash, settled)
    BY <2>4, <2>6, <2>7, <2>8, <1>a DEF Good, RoutingPc, Lookup
  <2> QED BY <2>1, <2>3, <2>9, BackendOnly
<1> QED BY <1>1, <1>2, <1>3, <1>4, <1>5, <1>6, <1>7, <1>8, <1>9, <1>10, <1>11, <1>12, <1>13 DEF BackendStep

\* A change of a row: nothing counts as settled or clean any more.
LEMMA InvChangeRow ==
    ASSUME Inv, NEW b \in Backend, NEW r \in BackendState, ChangeRow(b, r),
           \A ph : Good(r, partMap, nodeMap, ph, FALSE)
    PROVE  Inv'
<1>1. /\ writes < MaxWrites /\ writes' = writes + 1
      /\ bk' = [c \in Backend |-> IF c = b THEN r ELSE [bk[c] EXCEPT !.clean = FALSE]]
      /\ bumped' = FALSE /\ settled' = FALSE
      /\ partMap' = partMap /\ nodeMap' = nodeMap /\ generation' = generation
      /\ partHash' = partHash /\ nodeHash' = nodeHash
  BY DEF ChangeRow
<1>2. bk \in [Backend -> BackendState] /\ GoodBackends
  BY DEF Inv, TypeOK
<1>3. ASSUME NEW c \in Backend
      PROVE  bk'[c] \in BackendState /\ Good(bk'[c], partMap, nodeMap, partHash, FALSE)
  <2>1. CASE c = b
    BY <1>1, <2>1
  <2>2. CASE c # b
    <3> DEFINE q == [bk[c] EXCEPT !.clean = FALSE]
    <3>1. bk'[c] = q /\ bk[c] \in BackendState
      BY <1>1, <1>2, <2>2
    <3>2. q \in BackendState
      BY <3>1 DEF BackendState
    <3>3. Good(bk[c], partMap, nodeMap, partHash, settled)
      BY <1>2 DEF GoodBackends
    <3> QED BY <3>1, <3>2, <3>3, GoodUnsettled
  <2> QED BY <2>1, <2>2
<1>4. bk' \in [Backend -> BackendState]
  BY <1>1, <1>3
<1>5. writes' \in 0..MaxWrites
  BY <1>1, RoutingAssumption DEF Inv, TypeOK
<1>6. TypeOK'
  BY <1>1, <1>4, <1>5 DEF Inv, TypeOK
<1>7. Coherent' /\ GoodBackends'
  BY <1>1, <1>3 DEF Coherent, GoodBackends
<1> QED BY <1>6, <1>7 DEF Inv

LEMMA InvWriteMap ==
    ASSUME Inv, NEW b \in Backend,
           \/ \E p \in Partition, n \in Node \cup {NoNode} : WritePartitionMap(b, p, n)
           \/ \E n \in Node, s \in Status : WriteNodeMap(b, n, s)
    PROVE  Inv'
<1> DEFINE r == bk[b]
<1>1. r \in BackendState /\ Good(r, partMap, nodeMap, partHash, settled)
  BY DEF Inv, TypeOK, GoodBackends
<1>2. ASSUME NEW q \in BackendState, r.pc = "idle",
             q.pc = r.pc, q.rels = r.rels, q.toRoute = r.toRoute, q.toLog = r.toLog,
             q.clean = r.clean, q.rels = {}, q.clean = FALSE
      PROVE  \A ph : Good(q, partMap, nodeMap, ph, FALSE)
  BY <1>1, <1>2 DEF Good, RecOK, Cached, Truthful, HasPrimary, RoutingPc, Lookup
<1>3. r.pc = "idle" => r.rels = {} /\ ~r.clean
  BY <1>1 DEF Good, RecOK
<1>4. ASSUME NEW p \in Partition, NEW n \in Node \cup {NoNode}, WritePartitionMap(b, p, n)
      PROVE  Inv'
  <2> DEFINE q == [r EXCEPT !.snapP[p] = n, !.dirtyP = @ \cup {p}]
  <2>1. ChangeRow(b, q) /\ r.pc = "idle"
    BY <1>4 DEF WritePartitionMap, ChangeRow
  <2>2. q \in BackendState
    BY <1>1 DEF BackendState
  <2>3. /\ q.pc = r.pc /\ q.rels = r.rels /\ q.toRoute = r.toRoute /\ q.toLog = r.toLog
        /\ q.clean = r.clean
    BY <1>1 DEF BackendState
  <2> HIDE DEF q
  <2>4. \A ph : Good(q, partMap, nodeMap, ph, FALSE)
    BY <1>1, <1>2, <1>3, <2>1, <2>2, <2>3 DEF BackendState
  <2> QED BY <2>1, <2>2, <2>4, InvChangeRow
<1>5. ASSUME NEW n \in Node, NEW s \in Status, WriteNodeMap(b, n, s) PROVE Inv'
  <2> DEFINE q == [r EXCEPT !.snapN[n] = s, !.dirtyN = @ \cup {n}]
  <2>1. ChangeRow(b, q) /\ r.pc = "idle"
    BY <1>5 DEF WriteNodeMap, ChangeRow
  <2>2. q \in BackendState
    BY <1>1 DEF BackendState
  <2>3. /\ q.pc = r.pc /\ q.rels = r.rels /\ q.toRoute = r.toRoute /\ q.toLog = r.toLog
        /\ q.clean = r.clean
    BY <1>1 DEF BackendState
  <2> HIDE DEF q
  <2>4. \A ph : Good(q, partMap, nodeMap, ph, FALSE)
    BY <1>1, <1>2, <1>3, <2>1, <2>2, <2>3 DEF BackendState
  <2> QED BY <2>1, <2>2, <2>4, InvChangeRow
<1> QED BY <1>4, <1>5

\* A commit changes the tables only when the metadata is unsettled already.
LEMMA InvCommit == ASSUME Inv, NEW b \in Backend, Commit(b) PROVE Inv'
<1>1. /\ bk' = [bk EXCEPT ![b] = IdleBackend]
      /\ partMap' = LatestP(bk[b]) /\ nodeMap' = LatestN(bk[b])
      /\ writes' = writes /\ generation' = generation
      /\ partHash' = partHash /\ nodeHash' = nodeHash
      /\ bumped' = bumped /\ settled' = settled
  BY DEF Commit, ghostVars
<1>2. bk \in [Backend -> BackendState] /\ settled \in BOOLEAN
  BY DEF Inv, TypeOK
<1>3. /\ partMap' \in [Partition -> Node \cup {NoNode}] /\ nodeMap' \in [Node -> Status]
      /\ settled => partMap' = partMap /\ nodeMap' = nodeMap
  BY <1>1, LatestType DEF Inv, GoodBackends, Good
<1>4. TypeOK'
  BY <1>1, <1>2, <1>3, IdleGood DEF Inv, TypeOK
<1>5. Coherent'
  BY <1>1, <1>3 DEF Inv, Coherent
<1>6. ASSUME NEW c \in Backend PROVE Good(bk'[c], partMap', nodeMap', partHash', settled')
  <2>1. CASE c = b
    BY <1>1, <1>2, <2>1, IdleGood
  <2>2. CASE c # b
    <3>1. bk'[c] = bk[c] /\ bk[c] \in BackendState
          /\ Good(bk[c], partMap, nodeMap, partHash, settled)
      BY <1>1, <1>2, <2>2 DEF Inv, GoodBackends
    <3>2. CASE settled
      BY <1>1, <1>3, <3>1, <3>2
    <3>3. CASE ~settled
      <4>1. bk[c] = [bk[c] EXCEPT !.clean = FALSE]
        BY <3>1, <3>3 DEF Good, BackendState
      <4>2. \A pm, nm : Good(bk[c], pm, nm, partHash, FALSE)
        BY <3>1, <4>1, GoodUnsettled
      <4> QED BY <1>1, <1>2, <3>1, <3>3, <4>2
    <3> QED BY <3>2, <3>3
  <2> QED BY <2>1, <2>2
<1>7. GoodBackends'
  BY <1>6 DEF GoodBackends
<1> QED BY <1>4, <1>5, <1>7 DEF Inv

LEMMA InvInvalidate == ASSUME Inv, InvalidatePartdistCache PROVE Inv'
<1>1. /\ partMap' = partMap /\ nodeMap' = nodeMap /\ writes' = writes /\ bk' = bk
      /\ partHash' = partHash /\ nodeHash' = nodeHash /\ generation' = generation + 1
      /\ generation \in 0..MaxGen /\ generation < MaxGen
  BY DEF InvalidatePartdistCache, tableVars, Inv, TypeOK
<1>2. /\ bk \in [Backend -> BackendState] /\ settled \in BOOLEAN
      /\ partHash \in [Partition -> PartEntry] /\ nodeHash \in [Node -> NodeEntry]
      /\ \A p \in Partition : partHash[p].gen <= generation
      /\ \A n \in Node : nodeHash[n].gen <= generation
  BY DEF Inv, TypeOK
<1>3. /\ \A p \in Partition : partHash[p].gen <= generation + 1 /\ partHash[p].gen # generation + 1
      /\ \A n \in Node : nodeHash[n].gen <= generation + 1 /\ nodeHash[n].gen # generation + 1
      /\ generation + 1 \in 0..MaxGen
  BY <1>1, <1>2, RoutingAssumption DEF PartEntry, NodeEntry
<1>4. Coherent'
  BY <1>1, <1>3 DEF Coherent
<1>5. settled' \in BOOLEAN
  BY DEF InvalidatePartdistCache
<1>6. TypeOK'
  BY <1>1, <1>2, <1>3, <1>5 DEF Inv, TypeOK, InvalidatePartdistCache
<1>7. \A c \in Backend : Good(bk[c], partMap, nodeMap, partHash, settled)
  BY DEF Inv, GoodBackends
<1>8. settled => settled'
  BY <1>7 DEF InvalidatePartdistCache, Good, Routes, RoutingPc, Uncommitted
<1>9. settled' => \A c \in Backend :
          /\ bk[c].dirtyP = {} /\ bk[c].dirtyN = {}
          /\ bk[c].pc \in RoutingPc \/ bk[c].rr =>
                bk[c].snapP = partMap /\ bk[c].snapN = nodeMap
  BY DEF InvalidatePartdistCache, Routes, RoutingPc, Uncommitted
<1>10. \A c \in Backend : Good(bk[c], partMap, nodeMap, partHash, settled')
  BY <1>7, <1>8, <1>9 DEF Good
<1>11. GoodBackends'
  BY <1>1, <1>10 DEF GoodBackends
<1> QED BY <1>4, <1>6, <1>11 DEF Inv

LEMMA InvRestart == ASSUME Inv, Restart PROVE Inv'
<1>1. NoPartEntry \in PartEntry /\ NoNodeEntry \in NodeEntry
      /\ NoPartEntry.gen = -1 /\ NoNodeEntry.gen = -1
  BY DEF NoPartEntry, NoNodeEntry, PartEntry, NodeEntry, Status
<1>2. /\ partHash' = [p \in Partition |-> NoPartEntry] /\ nodeHash' = [n \in Node |-> NoNodeEntry]
      /\ bk' = [b \in Backend |-> IdleBackend] /\ generation' = 0
      /\ bumped' = TRUE /\ settled' = TRUE
      /\ partMap' = partMap /\ nodeMap' = nodeMap /\ writes' = writes
  BY DEF Restart, tableVars
<1>3. TypeOK'
  BY <1>1, <1>2, IdleGood, RoutingAssumption DEF Inv, TypeOK
<1>4. Coherent'
  BY <1>1, <1>2 DEF Coherent
<1>5. GoodBackends'
  BY <1>2, IdleGood DEF GoodBackends
<1> QED BY <1>3, <1>4, <1>5 DEF Inv

LEMMA InvNext == Inv /\ [Next]_vars => Inv'
<1> SUFFICES ASSUME Inv, [Next]_vars PROVE Inv'
  OBVIOUS
<1>1. CASE UNCHANGED vars
  BY <1>1 DEF vars, Inv, TypeOK, Coherent, GoodBackends
<1>2. ASSUME NEW b \in Backend, BackendStep(b) PROVE Inv'
  BY <1>2, InvBackend
<1>3. ASSUME NEW b \in Backend, TransactionStep(b) PROVE Inv'
  <2>1. CASE BeginRepeatableRead(b) \/ Rollback(b)
    BY <2>1, InvBackend
  <2>2. CASE Commit(b)
    BY <2>2, InvCommit
  <2>3. CASE \/ \E p \in Partition, n \in Node \cup {NoNode} : WritePartitionMap(b, p, n)
             \/ \E n \in Node, s \in Status : WriteNodeMap(b, n, s)
    BY <2>3, InvWriteMap
  <2> QED BY <1>3, <2>1, <2>2, <2>3 DEF TransactionStep
<1>5. CASE InvalidatePartdistCache
  BY <1>5, InvInvalidate
<1>6. CASE Restart
  BY <1>6, InvRestart
<1> QED BY <1>1, <1>2, <1>3, <1>5, <1>6 DEF Next

LEMMA Invariance == Spec => []Inv
BY InvInit, InvNext, PTL DEF Spec

\* Every variable keeps its type, and no cache entry is ever ahead of the
\* shared generation (FillPartition and FillNode stamp it under the exclusive
\* lock): one bump makes every entry stale.
THEOREM RoutingTypes == Spec => []TypeOK
<1>1. Inv => TypeOK
  BY DEF Inv
<1> QED BY <1>1, Invariance, PTL

\* A statement that begins once the metadata is settled passes the
\* ExecutorStart hook only when the tables say that every relation it touches
\* is local or unregistered, for any number of backends, transactions,
\* relations, nodes and invalidations: although uncommitted rows and rows of
\* old snapshots enter the shared cache, no such entry outlives the next
\* invalidation at which their transactions are over.
THEOREM RoutedCorrectly == Spec => []RoutedByCurrentMap
<1>1. Inv => RoutedByCurrentMap
  <2> SUFFICES ASSUME Inv, Local # NoNode, NEW b \in Backend, bk[b].pc = "exec", bk[b].clean,
                      NEW p \in bk[b].rels
               PROVE  RunsHere(p, partMap, nodeMap)
    BY DEF RoutedByCurrentMap, RunsHere
  <2>1. Good(bk[b], partMap, nodeMap, partHash, settled)
    BY DEF Inv, GoodBackends
  <2>2. bk[b].toRoute = {} /\ \A x \in bk[b].rels \ Pending(bk[b]) : RunsHere(x, partMap, nodeMap)
    BY <2>1 DEF Good, RecOK, Truthful
  <2>3. Pending(bk[b]) = {}
    BY <2>2 DEF Pending, Lookup
  <2> QED BY <2>2, <2>3
<1> QED BY <1>1, Invariance, PTL

\* With local_node_id set, ExecutorFinish writes a header for every registered
\* relation of a DML statement, whatever invalidations, table changes and
\* other statements happen between the two hooks.
THEOREM RegisteredLogged == ASSUME Local # NoNode PROVE Spec => []RegisteredWritesLogged
<1>1. Inv => RegisteredWritesLogged
  BY DEF Inv, GoodBackends, Good, Cached, RegisteredWritesLogged
<1> QED BY <1>1, Invariance, PTL
=============================================================================
