----------------------------- MODULE WriteHooks -----------------------------
(***************************************************************************)
(* Which statements of which transactions leave a partition WAL header.    *)
(*                                                                         *)
(* INSERT, UPDATE and DELETE pass the ExecutorStart hook, which routes and *)
(* thereby fills the shared partition cache, and the ExecutorFinish hook,  *)
(* which writes a header for every relation that ShouldWritePartWAL        *)
(* accepts.  COPY FROM passes the ProcessUtility hook only.  Statements    *)
(* nest: a trigger's statement runs, hooks included, before the hook of    *)
(* the statement that fired it.                                            *)
(*                                                                         *)
(* Routing has the steps of a cache look-up, PartWal those of an LSN       *)
(* allocation, of the WAL and of orig_node_lsn; here each is one step, and *)
(* of the WAL only what the running transaction still owes is kept.  One   *)
(* backend is modelled step by step; the others are its environment, and   *)
(* touch only the tables and the shared cache.                             *)
(***************************************************************************)
EXTENDS Naturals, Sequences, FiniteSets, SequencesExt

CONSTANTS
    Rel,            \* relations
    Shard,          \* of these, the ones with a name like <table>_<digits>
    MaxDepth        \* bound: nesting of statements

ASSUME HooksAssumption ==
    /\ Shard \subseteq Rel /\ IsFiniteSet(Rel)
    /\ MaxDepth \in Nat \ {0}

VARIABLES
    partMap,        \* relations with a committed row in partdist.partition_map
    cache,          \* relations with an entry in PartitionMapHash
    worker,         \* pg_dist_local_group holds a group above 0
    distTables,     \* relations in pg_dist_partition
    me              \* one client backend

vars == <<partMap, cache, worker, distTables, me>>

catalogVars == <<partMap, worker, distTables>>
-----------------------------------------------------------------------------
(* Types *)

\* "local": a change of this node's heap; "remote": of another node's, by an
\* adaptive statement.
ChangeKind == {"local", "remote"}

\* "dml": INSERT, UPDATE or DELETE; "adaptive": the same planned by Citus, with
\* an empty resultRelations; "copy": COPY FROM; "merge": MERGE, or a SELECT with
\* a data-modifying WITH.  rels: what the hook will look at; owed (history): of
\* these, the ones that must get a header if they are changed.
Statement ==
    [op : {"dml", "adaptive", "copy", "merge"}, rels : SUBSET Rel, owed : SUBSET Rel]

\* hook: the hook that runs, for the innermost statement; own: rows of
\* partition_map the transaction has inserted or deleted; group:
\* cached_group_id; dist: DistTableCache. History: unlogged: the transaction's
\* changes that must get a header and have none behind them yet.
BackendState ==
    [xact : BOOLEAN, stack : Seq(Statement), own : SUBSET Rel,
     hook : {"none", "finish", "utility"}, todo : SUBSET Rel,
     unlogged : SUBSET (ChangeKind \X Rel),
     inFinish : BOOLEAN, inUtility : BOOLEAN, inRoute : BOOLEAN,
     group : {"unknown", "worker", "other"}, dist : [Rel -> {"unknown", "yes", "no"}]]

NewBackend ==
    [xact |-> FALSE, stack |-> <<>>, own |-> {}, hook |-> "none", todo |-> {}, unlogged |-> {},
     inFinish |-> FALSE, inUtility |-> FALSE, inRoute |-> FALSE,
     group |-> "unknown", dist |-> [r \in Rel |-> "unknown"]]
-----------------------------------------------------------------------------
Init ==
    /\ partMap = {} /\ cache = {}
    /\ worker = FALSE /\ distTables = {}
    /\ me = NewBackend

\* In a transaction, and no hook of this module is running.
InXact == me.xact /\ me.hook = "none"

Innermost == Last(me.stack)

\* partition_map as the transaction sees it: committed rows and its own changes.
Visible == SymDiff(partMap, me.own)
-----------------------------------------------------------------------------
(* Transactions *)

Begin ==
    /\ ~me.xact
    /\ me' = [me EXCEPT !.xact = TRUE]
    /\ UNCHANGED <<catalogVars, cache>>

\* A row of partition_map is inserted or deleted: its lock is held to the end.
\* Shards are recognised by their name, with or without a row.
ChangePartitionMap(r) ==
    /\ InXact /\ me.stack = <<>> /\ r \notin Shard \cup me.own
    /\ me' = [me EXCEPT !.own = @ \cup {r}]
    /\ UNCHANGED <<catalogVars, cache>>

\* The end of a transaction leaves the backend's caches and static flags.
Ended(r) ==
    [NewBackend EXCEPT !.inFinish = r.inFinish, !.inUtility = r.inUtility,
                       !.inRoute = r.inRoute, !.group = r.group, !.dist = r.dist]

Commit ==
    /\ InXact /\ me.stack = <<>>
    /\ partMap' = Visible
    /\ me' = Ended(me)
    /\ UNCHANGED <<worker, distTables, cache>>

\* ROLLBACK, or an error of the statement itself.
Abort ==
    /\ InXact
    /\ me' = Ended(me)
    /\ UNCHANGED <<catalogVars, cache>>
-----------------------------------------------------------------------------
(* Statements *)

\* Mutant: an error leaves the flag set.
FlagKept(flag) == flag

\* PG_FINALLY resets the flag of the hook that an error leaves.
FlagAfterError(flag) == FALSE

\* The node is a worker, r is distributed, and no older answer that this backend
\* has cached says otherwise.
FreshFor(r) == worker /\ r \in distTables /\ me.group # "other" /\ me.dist[r] # "no"

Owed(op, S, local) ==
    CASE op = "dml" -> S \cap (Shard \cup IF local THEN Visible ELSE {})
      [] op = "copy" -> S \cap (Shard \cup cache)
      [] op = "adaptive" -> {r \in S : FreshFor(r)}
      [] op = "merge" -> {}

\* A statement starts, at the top level or inside the innermost statement (a
\* trigger, a function).  S: the relations the hook will look at: what the
\* statement changes, for an adaptive one what it reads too.  local:
\* pg_partdist.local_node_id is set; then pg_partdist_executor_start routes
\* the relations of DML, which leaves a cache entry for every registered one.
StartStatement(op, S, local) ==
    LET routed == op = "dml" /\ local /\ ~me.inRoute
    IN  /\ InXact /\ Len(me.stack) < MaxDepth
        /\ S # {} /\ (op = "copy" => Cardinality(S) = 1)
        /\ cache' = cache \cup IF routed THEN S \cap Visible ELSE {}
        /\ me' = [me EXCEPT !.stack =
                    Append(@, [op |-> op, rels |-> S, owed |-> Owed(op, S, local)])]
        /\ UNCHANGED catalogVars

\* Routing fails: a relation is remote, its node is down, the cache is full.
\* S: the relations that got a cache entry before the error.
RouteError(S) ==
    /\ InXact /\ Len(me.stack) < MaxDepth /\ ~me.inRoute
    /\ S \subseteq Visible /\ Visible \cup cache # {}
    /\ cache' = cache \cup S
    /\ me' = [Ended(me) EXCEPT !.inRoute = FlagAfterError(TRUE)]
    /\ UNCHANGED catalogVars

\* The innermost statement changes rows of r; only changes that must get a
\* header are remembered.
Change(r) ==
    LET s == Innermost
        kind == IF s.op = "adaptive" THEN "remote" ELSE "local"
    IN  /\ InXact /\ me.stack # <<>> /\ r \in s.owed
        /\ me' = [me EXCEPT !.unlogged = @ \cup {<<kind, r>>}]
        /\ UNCHANGED <<catalogVars, cache>>
-----------------------------------------------------------------------------
(* The hooks after the statement *)

HookOf ==
    CASE Innermost.op \in {"dml", "adaptive"} /\ ~me.inFinish -> "finish"
      [] Innermost.op = "copy" /\ ~me.inUtility -> "utility"
      [] OTHER -> "none"

\* The innermost statement has been executed, its triggers included.  A
\* statement no hook is concerned with just ends.
EnterHook ==
    LET h == HookOf
    IN  /\ InXact /\ me.stack # <<>>
        /\ me' = IF h = "none" THEN [me EXCEPT !.stack = Front(@)]
                 ELSE [me EXCEPT !.hook = h, !.todo = Innermost.rels,
                                 !.inFinish = @ \/ h = "finish",
                                 !.inUtility = @ \/ h = "utility"]
        /\ UNCHANGED <<catalogVars, cache>>

\* GetLocalCitusGroupId: every answer is kept, also a failure.
GroupId ==
    IF me.group # "unknown" THEN me.group
    ELSE IF worker THEN "worker" ELSE "other"

\* GetCitusDistTableStatus: every answer is kept, also "not distributed".
DistStatus(r) ==
    IF me.dist[r] # "unknown" THEN me.dist[r]
    ELSE IF r \in distTables THEN "yes" ELSE "no"

\* Mutant: only the caches are asked.
ShouldWriteIfKnown(r) ==
    r \in cache \cup Shard \/ (me.group = "worker" /\ me.dist[r] = "yes")

ShouldWritePartWAL(r) ==
    r \in cache \cup Shard \/ (GroupId = "worker" /\ DistStatus(r) = "yes")

\* What the look-ups leave in the backend's caches: none is made for a
\* relation of the partition cache or a shard, the second only on a worker.
Looked(r) ==
    IF r \in cache \cup Shard THEN me
    ELSE [me EXCEPT !.group = GroupId,
                    !.dist[r] = IF GroupId = "worker" THEN DistStatus(r) ELSE @]

\* One relation of the list: WritePartitionWALRecord inserts and flushes.
HookRelation(r) ==
    LET seen == [Looked(r) EXCEPT !.todo = @ \ {r}]
    IN  /\ me.hook # "none" /\ r \in me.todo
        /\ me' = IF ShouldWritePartWAL(r)
                 THEN [seen EXCEPT !.unlogged = @ \ {<<k, r>> : k \in ChangeKind}]
                 ELSE seen
        /\ UNCHANGED <<catalogVars, cache>>

\* No directory, or no room in the LSN table: the error aborts the transaction.
HookError ==
    /\ me.hook # "none" /\ \E r \in me.todo : ShouldWritePartWAL(r)
    /\ me' = [Ended(me) EXCEPT
                !.inFinish = IF me.hook = "finish" THEN FlagAfterError(@) ELSE @,
                !.inUtility = IF me.hook = "utility" THEN FlagAfterError(@) ELSE @]
    /\ UNCHANGED <<catalogVars, cache>>

LeaveHook ==
    /\ me.hook # "none" /\ me.todo = {}
    /\ me' = [me EXCEPT !.hook = "none", !.stack = Front(@),
                         !.inFinish = @ /\ me.hook # "finish",
                         !.inUtility = @ /\ me.hook # "utility"]
    /\ UNCHANGED <<catalogVars, cache>>
-----------------------------------------------------------------------------
(* The rest of the node *)

\* A transaction of another backend commits a change of a row.
OtherCommits(r) ==
    /\ r \notin Shard \cup me.own
    /\ partMap' = SymDiff(partMap, {r})
    /\ UNCHANGED <<worker, distTables, cache, me>>

\* Another backend routes a relation it sees registered: by a committed row, or
\* by one that its transaction has not committed and may roll back.
OtherRoutes(r) ==
    /\ r \in Rel \ Shard /\ (r \in partMap \/ r \notin me.own)
    /\ cache' = cache \cup {r}
    /\ UNCHANGED <<catalogVars, me>>

\* The node is added to the Citus cluster as a worker.
BecomeWorker ==
    /\ ~worker
    /\ worker' = TRUE
    /\ UNCHANGED <<partMap, distTables, cache, me>>

\* The node is removed from the cluster, also while a distributed statement
\* runs, which then owes nothing any more.  No cached answer changes.
LeaveCluster ==
    /\ worker
    /\ worker' = FALSE
    /\ me' = [me EXCEPT
                !.stack = [i \in DOMAIN me.stack |->
                             [me.stack[i] EXCEPT !.owed = IF me.stack[i].op = "adaptive" THEN {} ELSE @]],
                !.unlogged = @ \ ({"remote"} \X Rel)]
    /\ UNCHANGED <<partMap, distTables, cache>>

\* create_distributed_table() on a relation that exists.
Distribute(r) ==
    /\ r \notin distTables \cup Shard
    /\ distTables' = distTables \cup {r}
    /\ UNCHANGED <<partMap, worker, cache, me>>

\* undistribute_table(), or the rollback of create_distributed_table(): its
\* exclusive lock waits for the statements under way on r.
Undistribute(r) ==
    /\ r \in distTables /\ \A i \in DOMAIN me.stack : r \notin me.stack[i].rels
    /\ distTables' = distTables \ {r}
    /\ UNCHANGED <<partMap, worker, cache, me>>

\* The client disconnects, and a new backend takes its place.
Reconnect ==
    /\ ~me.xact
    /\ me' = NewBackend
    /\ UNCHANGED <<catalogVars, cache>>

\* The server restarts, after a crash or a shutdown.
Restart ==
    /\ cache' = {}
    /\ me' = NewBackend
    /\ UNCHANGED catalogVars
-----------------------------------------------------------------------------
BackendStep ==
    \/ Begin \/ Commit \/ Abort \/ Reconnect
    \/ \E r \in Rel : ChangePartitionMap(r) \/ Change(r) \/ HookRelation(r)
    \/ \E op \in {"dml", "adaptive", "copy", "merge"}, S \in SUBSET Rel, local \in BOOLEAN :
          StartStatement(op, S, local)
    \/ \E S \in SUBSET Rel : RouteError(S)
    \/ EnterHook \/ HookError \/ LeaveHook

Next ==
    \/ BackendStep
    \/ \E r \in Rel : Distribute(r) \/ Undistribute(r) \/ OtherCommits(r) \/ OtherRoutes(r)
    \/ BecomeWorker \/ LeaveCluster \/ Restart

Spec == Init /\ [][Next]_vars
-----------------------------------------------------------------------------
(***************************************************************************)
(* Properties                                                              *)
(***************************************************************************)

\* Types; a re-entrancy flag is set exactly while its hook runs (in_partwal_finish,
\* in_partwal_utility, in_partdist_hook).
TypeOK ==
    /\ partMap \subseteq Rel /\ cache \subseteq Rel
    /\ worker \in BOOLEAN /\ distTables \subseteq Rel \ Shard
    /\ me \in BackendState
    /\ Len(me.stack) <= MaxDepth
    /\ me.inFinish = (me.hook = "finish")
    /\ me.inUtility = (me.hook = "utility")
    /\ ~me.inRoute

\* Between statements, and so when the transaction commits, every change of kind
\* k that must get a header is followed by one.
OwedLogged(k) ==
    me.stack = <<>> => me.unlogged \cap ({k} \X Rel) = {}

\* Each change to a shard, to a relation registered as the statement sees it
\* (INSERT, UPDATE or DELETE with local_node_id set) or cached (COPY) is followed
\* by a header of the same transaction before the commit record, so that no crash
\* keeps the change and loses the header: whichever hooks failed in the backend
\* before, whichever triggers ran, whatever other transactions register or
\* roll back.
CommittedHasHeader == OwedLogged("local")

\* A worker writes a header for each distributed table a Citus statement changes,
\* although both answers about Citus are cached for the life of the backend and
\* the node may leave and join the cluster, and tables be undistributed and
\* distributed again, in between: unless this backend asked when the node was no
\* worker or the table not distributed, or the node leaves during the statement.
DistributedHasHeader == OwedLogged("remote")
-----------------------------------------------------------------------------
(***************************************************************************)
(* The inductive invariant behind them                                     *)
(***************************************************************************)

\* Statements and hooks exist inside transactions only; a hook belongs to the
\* innermost statement.
ControlInv ==
    /\ me.stack # <<>> => me.xact
    /\ me.hook # "none" => me.stack # <<>>

\* What a statement owes stays recognisable for its hook until the hook runs.
StatementInv ==
    \A i \in 1..Len(me.stack) :
        LET s == me.stack[i]
        IN  /\ s.owed \subseteq s.rels
            /\ s.op \in {"dml", "copy"} => s.owed \subseteq Shard \cup cache
            /\ s.op = "adaptive" => \A r \in s.owed : FreshFor(r)
            /\ s.op = "merge" => s.owed = {}

\* The statement at depth i owes r a header and can still write it.
Owes(i, k, r) ==
    /\ r \in me.stack[i].owed
    /\ (k = "remote") = (me.stack[i].op = "adaptive")
    /\ i = Len(me.stack) /\ me.hook # "none" => r \in me.todo

\* Every change without a header is owed by some statement under way.
UnloggedInv ==
    \A k \in ChangeKind, r \in Rel :
        <<k, r>> \in me.unlogged => \E i \in 1..Len(me.stack) : Owes(i, k, r)

HooksInv ==
    TypeOK /\ ControlInv /\ StatementInv /\ UnloggedInv
=============================================================================
