------------------------------ MODULE Routing ------------------------------
(***************************************************************************)
(* The metadata cache and the write router of pg_partdist.                 *)
(*                                                                         *)
(* partition_map and node_map are ordinary tables; two hash tables in      *)
(* shared memory cache their rows.  An entry is used as long as its        *)
(* meta_version is the shared metadata_generation, which                   *)
(* InvalidatePartdistCache() bumps.  The ExecutorStart hook routes every   *)
(* relation of a DML statement through both caches, the ExecutorFinish     *)
(* hook decides from the partition cache whether the relation gets a       *)
(* partition WAL header.                                                   *)
(*                                                                         *)
(* A look-up is three steps: the hash under the shared lock, the row       *)
(* through SPI without a lock, the hash again under the exclusive lock.    *)
(* SPI reads under the snapshot of the calling statement, which has the    *)
(* uncommitted changes of its own transaction on top of the rows committed *)
(* when the statement (READ COMMITTED) or its transaction (REPEATABLE      *)
(* READ) began: such rows enter the shared cache too, and stay in it when  *)
(* the transaction rolls back.                                             *)
(***************************************************************************)
EXTENDS Integers, FiniteSets

CONSTANTS
    Backend,        \* client backends
    Partition,      \* relation OIDs
    Node,           \* node ids
    NoNode,         \* -1: no row, or an unset local_node_id
    NoPart,         \* no relation
    Local,          \* pg_partdist.local_node_id
    InitialParts,   \* partition_map when the server starts
    InitialNodes,   \* node_map when the server starts
    MaxGen,         \* bound: bumps of the generation
    MaxWrites       \* bound: changes of the tables

ASSUME RoutingAssumption ==
    /\ NoNode \notin Node /\ NoPart \notin Partition
    /\ Local \in Node \cup {NoNode}
    /\ InitialParts \in [Partition -> Node \cup {NoNode}]
    /\ InitialNodes \in [Node -> {"up", "down", "none"}]
    /\ MaxGen \in Nat /\ MaxWrites \in Nat

VARIABLES
    partMap,        \* partdist.partition_map, committed: primary node, NoNode = no row
    nodeMap,        \* partdist.node_map, committed: status, "none" = no row
    generation,     \* PartdistState->metadata_generation
    partHash,       \* PartitionMapHash
    nodeHash,       \* NodeMapHash
    bk,             \* the backends
    bumped,         \* history: no row was changed since the last bump, committed
                    \* or not, and at the bump no change was uncommitted
    settled,        \* history: nor can a snapshot older than that fill an entry
    writes          \* history: changes of the tables so far

vars == <<partMap, nodeMap, generation, partHash, nodeHash, bk, bumped, settled, writes>>

tableVars == <<partMap, nodeMap, writes>>
ghostVars == <<bumped, settled>>
-----------------------------------------------------------------------------
(* Types *)

\* up: 'active' or 'syncing', between which nothing distinguishes.
Status == {"up", "down", "none"}

\* gen: meta_version, -1 when the hash table has no entry.
PartEntry == [gen : Nat \cup {-1}, node : Node \cup {NoNode}]
NodeEntry == [gen : Nat \cup {-1}, status : Status]
NoPartEntry == [gen |-> -1, node |-> NoNode]
NoNodeEntry == [gen |-> -1, status |-> "none"]

\* Inside GetPartitionPrimary and GetNodeInfo.
Lookup == {"findPart", "loadPart", "fillPart", "findNode", "loadNode", "fillNode"}

BackendState ==
    [pc : {"idle", "next", "decide", "exec"} \cup Lookup,
     op : {"none", "read", "dml"},
     rels : SUBSET Partition,           \* result relations of the statement
     toRoute : SUBSET Partition,        \* of these, not yet routed
     toLog : SUBSET Partition,          \* of these, not yet seen by ExecutorFinish
     logged : SUBSET Partition,         \* of these, written to the partition WAL
     part : Partition \cup {NoPart},    \* the relation being routed
     primary : Node \cup {NoNode},
     status : Status,
     report : BOOLEAN,                  \* looking up the node for the error message
     rr : BOOLEAN,                      \* in a REPEATABLE READ transaction
     snapP : [Partition -> Node \cup {NoNode}],     \* what the statement sees
     snapN : [Node -> Status],
     dirtyP : SUBSET Partition,         \* of these, rows the transaction has changed
     dirtyN : SUBSET Node,
     clean : BOOLEAN]                   \* history: settled when the statement began,
                                        \* and no row was changed since

IdleBackend ==
    [pc |-> "idle", op |-> "none", rels |-> {}, toRoute |-> {}, toLog |-> {}, logged |-> {},
     part |-> NoPart, primary |-> NoNode, status |-> "none", report |-> FALSE, rr |-> FALSE,
     snapP |-> [p \in Partition |-> NoNode], snapN |-> [n \in Node |-> "none"],
     dirtyP |-> {}, dirtyN |-> {}, clean |-> FALSE]
-----------------------------------------------------------------------------
Init ==
    /\ partMap = InitialParts
    /\ nodeMap = InitialNodes
    /\ generation = 0
    /\ partHash = [p \in Partition |-> NoPartEntry]
    /\ nodeHash = [n \in Node |-> NoNodeEntry]
    /\ bk = [b \in Backend |-> IdleBackend]
    /\ bumped = TRUE
    /\ settled = TRUE
    /\ writes = 0

\* The committed rows, the transaction's own changes on top of them.
LatestP(r) == [p \in Partition |-> IF p \in r.dirtyP THEN r.snapP[p] ELSE partMap[p]]
LatestN(r) == [n \in Node |-> IF n \in r.dirtyN THEN r.snapN[n] ELSE nodeMap[n]]

Uncommitted(r) == r.dirtyP # {} \/ r.dirtyN # {}

\* A READ COMMITTED transaction counts from its first change of the metadata:
\* until then nothing tells its statements from statements of their own.
InTransaction(r) == r.rr \/ Uncommitted(r)

\* A statement starts: it takes its snapshot, or keeps its transaction's.
\* "read" is pg_partdist_get_primary(p) or pg_partdist_route_write(p), which
\* begin alike; the ExecutorStart hook of DML returns at once when
\* local_node_id is not set.
Begin(b, op, S) ==
    LET r == bk[b]
    IN  /\ r.pc = "idle"
        /\ S # {} /\ (op # "dml" => Cardinality(S) = 1)
        /\ bk' = [bk EXCEPT ![b] =
                    [r EXCEPT
                        !.pc = IF op = "dml" /\ Local = NoNode THEN "exec" ELSE "next",
                        !.op = op, !.rels = S, !.toRoute = S, !.toLog = S,
                        !.snapP = IF r.rr THEN r.snapP ELSE LatestP(r),
                        !.snapN = IF r.rr THEN r.snapN ELSE LatestN(r),
                        !.clean = settled]]
        /\ UNCHANGED <<tableVars, generation, partHash, nodeHash, ghostVars>>

\* The next relation of the statement.
RouteNext(b, p) ==
    /\ bk[b].pc = "next" /\ p \in bk[b].toRoute
    /\ bk' = [bk EXCEPT ![b] = [@ EXCEPT !.pc = "findPart", !.part = p,
                                         !.toRoute = bk[b].toRoute \ {p}]]
    /\ UNCHANGED <<tableVars, generation, partHash, nodeHash, ghostVars>>
-----------------------------------------------------------------------------
(* GetPartitionPrimary *)

\* The statement is over; its transaction goes on.  (An error ends both.)
Return(r) ==
    IF ~InTransaction(r) THEN IdleBackend
    ELSE [IdleBackend EXCEPT !.rr = r.rr, !.snapP = r.snapP, !.snapN = r.snapN,
                             !.dirtyP = r.dirtyP, !.dirtyN = r.dirtyN]

\* Return to the caller: the error about a remote write is raised, or
\* RouteWriteRequest goes on.
GotPrimary(r, n) ==
    IF r.report THEN IdleBackend
    ELSE [r EXCEPT !.primary = n, !.pc = IF n = NoNode THEN "decide" ELSE "findNode"]

\* Mutant: the generation is not compared.
PartitionPresent(p) == partHash[p].gen # -1

PartitionHit(p) == partHash[p].gen = generation

FindPartition(b) ==
    LET p == bk[b].part
    IN  /\ bk[b].pc = "findPart"
        /\ bk' = [bk EXCEPT ![b] = IF PartitionHit(p) THEN GotPrimary(bk[b], partHash[p].node)
                                   ELSE [bk[b] EXCEPT !.pc = "loadPart"]]
        /\ UNCHANGED <<tableVars, generation, partHash, nodeHash, ghostVars>>

LoadPartitionFromTable(b) ==
    LET n == bk[b].snapP[bk[b].part]
    IN  /\ bk[b].pc = "loadPart"
        /\ bk' = [bk EXCEPT ![b] = IF n = NoNode THEN GotPrimary(bk[b], NoNode)
                                   ELSE [bk[b] EXCEPT !.pc = "fillPart", !.primary = n]]
        /\ UNCHANGED <<tableVars, generation, partHash, nodeHash, ghostVars>>

\* Mutant: the entry is stamped with the next generation.
NextMetaVersion == generation + 1

\* The generation is read again, under the exclusive lock.
MetaVersion == generation

FillPartition(b) ==
    /\ bk[b].pc = "fillPart"
    /\ partHash' = [partHash EXCEPT ![bk[b].part] = [gen |-> MetaVersion, node |-> bk[b].primary]]
    /\ bk' = [bk EXCEPT ![b] = GotPrimary(bk[b], bk[b].primary)]
    /\ UNCHANGED <<tableVars, generation, nodeHash, ghostVars>>

\* HASH_ENTER needs shared memory for a new entry, which other tables use too,
\* and raises an error when there is none.
FillPartitionFull(b) ==
    /\ bk[b].pc = "fillPart" /\ partHash[bk[b].part].gen = -1
    /\ bk' = [bk EXCEPT ![b] = IdleBackend]
    /\ UNCHANGED <<tableVars, generation, partHash, nodeHash, ghostVars>>
\* pg_partdist_get_primary() answers where route_write() goes on.
AnswerPrimary(b) ==
    /\ bk[b].op = "read"
    /\ bk[b].pc = "findNode" \/ (bk[b].pc = "decide" /\ bk[b].primary = NoNode)
    /\ bk' = [bk EXCEPT ![b] = Return(bk[b])]
    /\ UNCHANGED <<tableVars, generation, partHash, nodeHash, ghostVars>>
-----------------------------------------------------------------------------
(* GetNodeInfo *)

FindNode(b) ==
    LET e == nodeHash[bk[b].primary]
    IN  /\ bk[b].pc = "findNode"
        /\ bk' = [bk EXCEPT ![b] = IF e.gen = generation
                                   THEN [bk[b] EXCEPT !.pc = "decide", !.status = e.status]
                                   ELSE [bk[b] EXCEPT !.pc = "loadNode"]]
        /\ UNCHANGED <<tableVars, generation, partHash, nodeHash, ghostVars>>

LoadNodeFromTable(b) ==
    LET s == bk[b].snapN[bk[b].primary]
    IN  /\ bk[b].pc = "loadNode"
        /\ bk' = [bk EXCEPT ![b] = [@ EXCEPT !.status = s,
                                             !.pc = IF s = "none" THEN "decide" ELSE "fillNode"]]
        /\ UNCHANGED <<tableVars, generation, partHash, nodeHash, ghostVars>>

FillNode(b) ==
    /\ bk[b].pc = "fillNode"
    /\ nodeHash' = [nodeHash EXCEPT ![bk[b].primary] = [gen |-> generation, status |-> bk[b].status]]
    /\ bk' = [bk EXCEPT ![b].pc = "decide"]
    /\ UNCHANGED <<tableVars, generation, partHash, ghostVars>>

FillNodeFull(b) ==
    /\ bk[b].pc = "fillNode" /\ nodeHash[bk[b].primary].gen = -1
    /\ bk' = [bk EXCEPT ![b] = IdleBackend]
    /\ UNCHANGED <<tableVars, generation, partHash, nodeHash, ghostVars>>
-----------------------------------------------------------------------------
(* RouteWriteRequest, and what the ExecutorStart hook makes of its answer *)

RouteStatus(r) ==
    IF r.primary = NoNode THEN "not_found"
    ELSE IF r.status = "down" THEN "node_down"
    ELSE IF r.primary = Local THEN "local" ELSE "remote"

\* route_write() returns the answer.  The hook raises an error for a node that
\* is down, and for a remote one, whose id it looks up once more; the
\* statement runs when every relation is local or not registered.
Decide(b) ==
    LET r == bk[b]
        route == RouteStatus(r)
    IN  /\ r.pc = "decide"
        /\ bk' = [bk EXCEPT ![b] =
                    IF r.op = "read" THEN Return(r)
                    ELSE IF route = "node_down" THEN IdleBackend
                    ELSE IF route = "remote" THEN [r EXCEPT !.pc = "findPart", !.report = TRUE]
                    ELSE [r EXCEPT !.pc = IF r.toRoute = {} THEN "exec" ELSE "next",
                                   !.part = NoPart, !.primary = NoNode, !.status = "none"]]
        /\ UNCHANGED <<tableVars, generation, partHash, nodeHash, ghostVars>>

\* Mutant: a stale entry does not count.
ShouldWriteIfValid(p) == partHash[p].gen = generation

\* ShouldWritePartWAL for relations that are no Citus shards: any entry of the
\* partition cache counts, valid or not.
ShouldWritePartWAL(p) == partHash[p].gen # -1

\* The ExecutorFinish hook, one relation at a time.
FinishRelation(b, p) ==
    /\ bk[b].pc = "exec" /\ p \in bk[b].toLog
    /\ bk' = [bk EXCEPT ![b] = [@ EXCEPT !.toLog = bk[b].toLog \ {p},
                                  !.logged = IF ShouldWritePartWAL(p) THEN bk[b].logged \cup {p}
                                             ELSE bk[b].logged]]
    /\ UNCHANGED <<tableVars, generation, partHash, nodeHash, ghostVars>>

EndStatement(b) ==
    /\ bk[b].pc = "exec" /\ bk[b].toLog = {}
    /\ bk' = [bk EXCEPT ![b] = Return(bk[b])]
    /\ UNCHANGED <<tableVars, generation, partHash, nodeHash, ghostVars>>
-----------------------------------------------------------------------------
(* Transactions, and changes of the metadata *)

\* BEGIN ISOLATION LEVEL REPEATABLE READ, and its first snapshot.
BeginRepeatableRead(b) ==
    /\ bk[b].pc = "idle" /\ ~InTransaction(bk[b])
    /\ bk' = [bk EXCEPT ![b] = [@ EXCEPT !.rr = TRUE, !.snapP = partMap, !.snapN = nodeMap]]
    /\ UNCHANGED <<tableVars, generation, partHash, nodeHash, ghostVars>>

\* Backend b becomes r, which has changed a row; the row's lock is held until
\* the transaction ends.
ChangeRow(b, r) ==
    /\ bk[b].pc = "idle" /\ writes < MaxWrites
    /\ writes' = writes + 1
    /\ bk' = [c \in Backend |-> IF c = b THEN r ELSE [bk[c] EXCEPT !.clean = FALSE]]
    /\ bumped' = FALSE /\ settled' = FALSE
    /\ UNCHANGED <<partMap, nodeMap, generation, partHash, nodeHash>>

\* A row of partition_map is inserted, updated or deleted: nothing bumps the
\* generation.  REPEATABLE READ refuses a row that changed since its snapshot.
WritePartitionMap(b, p, n) ==
    LET now == LatestP(bk[b])
    IN  /\ \A c \in Backend \ {b} : p \notin bk[c].dirtyP
        /\ n # now[p] /\ (bk[b].rr => bk[b].snapP[p] = now[p])
        /\ ChangeRow(b, [bk[b] EXCEPT !.snapP[p] = n, !.dirtyP = @ \cup {p}])

WriteNodeMap(b, n, s) ==
    LET now == LatestN(bk[b])
    IN  /\ \A c \in Backend \ {b} : n \notin bk[c].dirtyN
        /\ s # now[n] /\ (bk[b].rr => bk[b].snapN[n] = now[n])
        /\ ChangeRow(b, [bk[b] EXCEPT !.snapN[n] = s, !.dirtyN = @ \cup {n}])

Commit(b) ==
    /\ bk[b].pc = "idle" /\ InTransaction(bk[b])
    /\ partMap' = LatestP(bk[b]) /\ nodeMap' = LatestN(bk[b])
    /\ bk' = [bk EXCEPT ![b] = IdleBackend]
    /\ UNCHANGED <<writes, generation, partHash, nodeHash, ghostVars>>

\* ROLLBACK, or an error of another statement: what the transaction's look-ups
\* put into the caches stays there.
Rollback(b) ==
    /\ bk[b].pc = "idle" /\ InTransaction(bk[b])
    /\ bk' = [bk EXCEPT ![b] = IdleBackend]
    /\ UNCHANGED <<tableVars, generation, partHash, nodeHash, ghostVars>>

Routes(b) == bk[b].pc \in Lookup \cup {"next", "decide"}

\* pg_partdist_cache_invalidate(), pg_partdist_bump_metadata_version(); not
\* undone when the caller's transaction rolls back.
InvalidatePartdistCache ==
    /\ generation < MaxGen
    /\ generation' = generation + 1
    /\ bumped' = \A b \in Backend : ~Uncommitted(bk[b])
    /\ settled' = \A b \in Backend :
                      /\ ~Uncommitted(bk[b])
                      /\ Routes(b) \/ bk[b].rr =>
                            bk[b].snapP = partMap /\ bk[b].snapN = nodeMap
    /\ UNCHANGED <<tableVars, partHash, nodeHash, bk>>

\* A restart of the server: pg_partdist_shmem_startup_hook.
Restart ==
    /\ generation' = 0
    /\ partHash' = [p \in Partition |-> NoPartEntry]
    /\ nodeHash' = [n \in Node |-> NoNodeEntry]
    /\ bk' = [b \in Backend |-> IdleBackend]
    /\ bumped' = TRUE /\ settled' = TRUE
    /\ UNCHANGED tableVars
-----------------------------------------------------------------------------
BackendStep(b) ==
    \/ \E op \in {"read", "dml"}, S \in SUBSET Partition : Begin(b, op, S)
    \/ \E p \in Partition : RouteNext(b, p) \/ FinishRelation(b, p)
    \/ FindPartition(b) \/ LoadPartitionFromTable(b) \/ FillPartition(b) \/ FillPartitionFull(b)
    \/ AnswerPrimary(b) \/ FindNode(b) \/ LoadNodeFromTable(b) \/ FillNode(b) \/ FillNodeFull(b)
    \/ Decide(b) \/ EndStatement(b)

TransactionStep(b) ==
    \/ \E p \in Partition, n \in Node \cup {NoNode} : WritePartitionMap(b, p, n)
    \/ \E n \in Node, s \in Status : WriteNodeMap(b, n, s)
    \/ BeginRepeatableRead(b) \/ Commit(b) \/ Rollback(b)

Next ==
    \/ \E b \in Backend : BackendStep(b) \/ TransactionStep(b)
    \/ InvalidatePartdistCache \/ Restart

Spec == Init /\ [][Next]_vars
-----------------------------------------------------------------------------
(***************************************************************************)
(* Properties                                                              *)
(***************************************************************************)

\* Types; no entry is ahead of the shared generation, so that a bump makes
\* every entry stale.
TypeOK ==
    /\ partMap \in [Partition -> Node \cup {NoNode}]
    /\ nodeMap \in [Node -> Status]
    /\ generation \in 0..MaxGen
    /\ partHash \in [Partition -> PartEntry]
    /\ nodeHash \in [Node -> NodeEntry]
    /\ \A p \in Partition : partHash[p].gen <= generation
    /\ \A n \in Node : nodeHash[n].gen <= generation
    /\ bk \in [Backend -> BackendState]
    /\ bumped \in BOOLEAN /\ settled \in BOOLEAN
    /\ writes \in 0..MaxWrites

\* After an invalidation at which no change of the metadata was uncommitted and
\* no statement or REPEATABLE READ transaction with an older snapshot was under
\* way, and until a row is next changed (by a transaction that commits or by one
\* that rolls back), a statement that starts runs on this node only if the
\* tables say so: each of its relations is unregistered, or has this node as
\* its primary, and the node is not down.
RoutedByCurrentMap ==
    Local # NoNode =>
        \A b \in Backend : bk[b].pc = "exec" /\ bk[b].clean =>
            \A p \in bk[b].rels :
                \/ partMap[p] = NoNode
                \/ partMap[p] = Local /\ nodeMap[Local] # "down"

\* Every DML statement writes a header for each of its relations that is
\* registered in partition_map, as the statement sees it ("fires after every
\* DML that touches a relation registered in partdist.partition_map"), however
\* often the cache is invalidated between ExecutorStart and ExecutorFinish.
RegisteredWritesLogged ==
    \A b \in Backend : bk[b].pc = "exec" =>
        \A p \in bk[b].rels \ bk[b].toLog :
            bk[b].snapP[p] # NoNode => p \in bk[b].logged

\* After an invalidation that follows the last change of the tables every
\* entry in use was fetched from the tables as they are now ("On the next
\* lookup every entry will be re-fetched from the system tables").
InvalidateRefreshes ==
    bumped => \A p \in Partition : PartitionHit(p) => partHash[p].node = partMap[p]
=============================================================================
