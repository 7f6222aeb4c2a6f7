-------------------------- MODULE WriteHooksProofs --------------------------
(***************************************************************************)
(* CommittedHasHeader and DistributedHasHeader for any relations and any   *)
(* nesting of statements.  The argument: a change without a header is owed *)
(* by a statement on the stack; what a statement owes is recognised by     *)
(* ShouldWritePartWAL when its hook comes to the relation, because no      *)
(* entry leaves the partition cache, a relation in use is not              *)
(* undistributed, and fresh answers about Citus stay right.                *)
(***************************************************************************)
EXTENDS WriteHooks, BasicLemmas

\* What Front does to the stack.
LEMMA FrontFacts ==
    ASSUME NEW T, NEW s \in Seq(T), s # <<>>
    PROVE  /\ Front(s) \in Seq(T)
           /\ Len(Front(s)) = Len(s) - 1
           /\ Len(s) \in Nat \ {0}
           /\ \A i \in 1..Len(s) - 1 : Front(s)[i] = s[i]
<1>1. Len(s) \in Nat \ {0} /\ s \in [1..Len(s) -> T]
  OBVIOUS
<1>2. Front(s) = [i \in 1..Len(s) - 1 |-> s[i]]
  BY <1>1 DEF Front
<1>3. Front(s) \in [1..Len(s) - 1 -> T] /\ Len(s) - 1 \in Nat
  BY <1>1, <1>2
<1>4. Front(s) \in Seq(T)
  BY <1>3
<1>5. Len(Front(s)) = Len(s) - 1
  BY <1>3, <1>4
<1> QED  BY <1>1, <1>2, <1>4, <1>5

\* The end of a transaction, with or without the end of the backend: no
\* statement, no hook, no flag is left, and the caches are kept or lost.
LEMMA EndInv ==
    ASSUME HooksInv,
           me' \in BackendState, partMap' \in SUBSET Rel, cache' \in SUBSET Rel,
           worker' = worker, distTables' = distTables,
           me'.stack = <<>>, me'.hook = "none", me'.unlogged = {},
           me'.inFinish = FALSE, me'.inUtility = FALSE, me'.inRoute = FALSE,
           me'.group \in {me.group, "unknown"},
           \A r \in Rel : me'.dist[r] \in {me.dist[r], "unknown"}
    PROVE  HooksInv'
<1>0. Len(me'.stack) = 0
  OBVIOUS
<1>1. TypeOK'
  <2>1. me'.inFinish = (me'.hook = "finish") /\ me'.inUtility = (me'.hook = "utility")
    OBVIOUS
  <2>2. 0 <= MaxDepth
    BY HooksAssumption DEF HooksAssumption
  <2>3. worker' \in BOOLEAN /\ distTables' \subseteq Rel \ Shard
    BY DEF HooksInv, TypeOK
  <2> QED  BY <1>0, <2>1, <2>2, <2>3, Zenon DEF TypeOK
<1>2. ControlInv'
  BY DEF ControlInv
<1>3. StatementInv'
  BY <1>0 DEF StatementInv
<1>4. UnloggedInv'
  BY DEF UnloggedInv
<1> QED  BY <1>1, <1>2, <1>3, <1>4 DEF HooksInv

\* Steps that touch neither the statements nor the hooks of the backend: the
\* partition cache only grows, and no relation in use is undistributed.
LEMMA GrowInv ==
    ASSUME HooksInv,
           me' \in BackendState, partMap' \in SUBSET Rel, cache' \in SUBSET Rel,
           worker' \in BOOLEAN, distTables' \in SUBSET (Rel \ Shard),
           cache \subseteq cache', worker => worker',
           \A i \in 1..Len(me.stack) : distTables \cap me.stack[i].rels \subseteq distTables',
           me.xact => me'.xact, me'.stack = me.stack, me'.hook = me.hook,
           me'.todo = me.todo, me'.unlogged = me.unlogged,
           me'.inFinish = me.inFinish, me'.inUtility = me.inUtility,
           me'.inRoute = me.inRoute, me'.group = me.group, me'.dist = me.dist
    PROVE  HooksInv'
<1>1. TypeOK'
  BY Zenon DEF HooksInv, TypeOK
<1>2. ControlInv'
  BY DEF HooksInv, ControlInv
<1>3. StatementInv'
  <2>1. \A i \in 1..Len(me.stack) : \A r \in me.stack[i].rels : FreshFor(r) => FreshFor(r)'
    BY DEF FreshFor
  <2>2. \A i \in 1..Len(me.stack) : me.stack[i].owed \subseteq me.stack[i].rels
    BY DEF HooksInv, StatementInv
  <2> QED  BY <2>1, <2>2 DEF HooksInv, StatementInv
<1>4. UnloggedInv'
  <2>1. \A i, k, r : Owes(i, k, r)' <=> Owes(i, k, r)
    BY Zenon DEF Owes
  <2> QED  BY <2>1 DEF HooksInv, UnloggedInv
<1> QED  BY <1>1, <1>2, <1>3, <1>4 DEF HooksInv

\* The node leaves the cluster: adaptive statements owe nothing any more, and the
\* other statements what they owed.
LEMMA LeaveClusterInv ==
    ASSUME HooksInv, LeaveCluster
    PROVE  HooksInv'
<1> DEFINE n == Len(me.stack)
           S == [i \in DOMAIN me.stack |->
                   [me.stack[i] EXCEPT
                      !.owed = IF me.stack[i].op = "adaptive" THEN {} ELSE me.stack[i].owed]]
<1>1. /\ me.stack \in Seq(Statement) /\ me \in BackendState
      /\ me.unlogged \in SUBSET (ChangeKind \X Rel)
  BY DEF HooksInv, TypeOK, BackendState
<1>2. /\ me' = [me EXCEPT !.stack = S, !.unlogged = me.unlogged \ ({"remote"} \X Rel)]
      /\ partMap' = partMap /\ worker' = FALSE /\ distTables' = distTables /\ cache' = cache
  BY <1>1 DEF LeaveCluster
<1>3. n \in Nat /\ DOMAIN me.stack = 1..n /\ \A i \in 1..n : me.stack[i] \in Statement
  BY <1>1
<1>4. \A i \in 1..n : /\ S[i] \in Statement
                      /\ S[i].op = me.stack[i].op /\ S[i].rels = me.stack[i].rels
                      /\ S[i].owed = IF me.stack[i].op = "adaptive" THEN {} ELSE me.stack[i].owed
  BY <1>3 DEF Statement
<1>5. DOMAIN S = 1..n
  BY <1>3
<1> HIDE DEF S
<1>6. S \in Seq(Statement) /\ Len(S) = n
  <2>1. S = [i \in 1..n |-> S[i]]
    BY <1>1, <1>3, <1>5 DEF S
  <2>2. S \in [1..n -> Statement]
    BY <2>1, <1>4
  <2>3. S \in Seq(Statement)
    BY <2>2, <1>3
  <2> QED  BY <2>3, <1>3, <1>5
<1>7. /\ me' \in BackendState
      /\ me'.stack = S /\ me'.unlogged = me.unlogged \ ({"remote"} \X Rel)
      /\ me'.xact = me.xact /\ me'.hook = me.hook /\ me'.todo = me.todo
      /\ me'.inFinish = me.inFinish /\ me'.inUtility = me.inUtility
      /\ me'.inRoute = me.inRoute /\ me'.group = me.group /\ me'.dist = me.dist
  BY <1>1, <1>2, <1>6 DEF BackendState
<1>8. TypeOK'
  <2>1. Len(me'.stack) <= MaxDepth
    BY <1>6, <1>7 DEF HooksInv, TypeOK
  <2> QED  BY <1>2, <1>7, <2>1, Zenon DEF HooksInv, TypeOK
<1>9. ControlInv'
  <2>1. S # <<>> => me.stack # <<>>
    BY <1>1, <1>6
  <2>2. me.stack # <<>> => S # <<>>
    BY <1>1, <1>6
  <2> QED  BY <2>1, <2>2, <1>7 DEF HooksInv, ControlInv
<1>10. StatementInv'
  BY <1>2, <1>4, <1>6, <1>7 DEF HooksInv, StatementInv
<1>11. UnloggedInv'
  <2> SUFFICES ASSUME NEW k \in ChangeKind, NEW r \in Rel, <<k, r>> \in me'.unlogged
               PROVE  \E i \in 1..Len(me'.stack) : Owes(i, k, r)'
    BY DEF UnloggedInv
  <2>1. <<k, r>> \in me.unlogged /\ k # "remote"
    BY <1>7
  <2>2. PICK i \in 1..n : Owes(i, k, r)
    BY <2>1 DEF HooksInv, UnloggedInv
  <2>3. me.stack[i].op # "adaptive" /\ r \in me.stack[i].owed
    BY <2>1, <2>2 DEF Owes
  <2>4. S[i].op # "adaptive" /\ r \in S[i].owed
    BY <2>3, <1>4
  <2>5. i = Len(me.stack) /\ me.hook # "none" => r \in me.todo
    BY <2>2 DEF Owes
  <2>6. Owes(i, k, r)'
    BY <2>1, <2>4, <2>5, <1>6, <1>7 DEF Owes
  <2> QED  BY <2>6, <1>6, <1>7
<1> QED  BY <1>8, <1>9, <1>10, <1>11 DEF HooksInv

\* A statement owes only what its hook will look at and recognise.
LEMMA StartInv ==
    ASSUME HooksInv, NEW op \in {"dml", "adaptive", "copy", "merge"},
           NEW S \in SUBSET Rel, NEW local \in BOOLEAN, StartStatement(op, S, local)
    PROVE  HooksInv'
<1> DEFINE st == [op |-> op, rels |-> S, owed |-> Owed(op, S, local)]
<1>1. /\ me.stack \in Seq(Statement) /\ me \in BackendState /\ me.inRoute = FALSE
      /\ partMap \in SUBSET Rel /\ cache \in SUBSET Rel
  BY DEF HooksInv, TypeOK, BackendState
<1>2. /\ me' = [me EXCEPT !.stack = Append(me.stack, st)]
      /\ partMap' = partMap /\ worker' = worker /\ distTables' = distTables
      /\ cache' = cache \cup IF op = "dml" /\ local /\ ~me.inRoute THEN S \cap Visible ELSE {}
      /\ me.xact /\ me.hook = "none" /\ Len(me.stack) < MaxDepth
  BY DEF StartStatement, InXact, catalogVars
<1>3. cache \subseteq cache' /\ (op = "dml" /\ local => S \cap Visible \subseteq cache')
  BY <1>1, <1>2
<1>4. Shard \subseteq Rel /\ MaxDepth \in Nat
  BY HooksAssumption DEF HooksAssumption
<1>5. Visible \subseteq Rel
  BY <1>1 DEF Visible, SymDiff, BackendState
<1>6. cache' \subseteq Rel
  BY <1>1, <1>2, <1>5
<1>7. /\ st.owed \subseteq S
      /\ op \in {"dml", "copy"} => st.owed \subseteq Shard \cup cache'
      /\ op = "adaptive" => \A r \in st.owed : FreshFor(r)
      /\ op = "merge" => st.owed = {}
  <2>1. CASE op = "dml"
    BY <2>1, <1>3 DEF Owed
  <2>2. CASE op = "copy"
    BY <2>2, <1>3 DEF Owed
  <2>3. CASE op = "adaptive"
    BY <2>3 DEF Owed
  <2>4. CASE op = "merge"
    BY <2>4 DEF Owed
  <2> QED  BY <2>1, <2>2, <2>3, <2>4
<1>8. st \in Statement /\ st.op = op /\ st.rels = S
  BY <1>7 DEF Statement
<1> HIDE DEF st
<1>9. /\ me'.stack = Append(me.stack, st)
      /\ me'.xact = me.xact /\ me'.hook = me.hook /\ me'.todo = me.todo
      /\ me'.unlogged = me.unlogged
      /\ me'.inFinish = me.inFinish /\ me'.inUtility = me.inUtility
      /\ me'.inRoute = me.inRoute /\ me'.group = me.group /\ me'.dist = me.dist
  BY <1>1, <1>2 DEF BackendState
<1>10. /\ me'.stack \in Seq(Statement) /\ Len(me'.stack) = Len(me.stack) + 1
       /\ Len(me.stack) \in Nat /\ me'.stack[Len(me.stack) + 1] = st
       /\ \A i \in 1..Len(me.stack) : me'.stack[i] = me.stack[i]
  BY <1>1, <1>8, <1>9, AppendFacts
<1>11. TypeOK'
  <2>1. me' \in BackendState
    BY <1>1, <1>2, <1>9, <1>10 DEF BackendState
  <2>2. Len(me'.stack) <= MaxDepth
    BY <1>2, <1>4, <1>10
  <2> QED  BY <1>2, <1>6, <1>9, <2>1, <2>2, Zenon DEF HooksInv, TypeOK
<1>12. ControlInv'
  <2>1. me'.stack # <<>>
    BY <1>1, <1>8, <1>9, AppendFacts
  <2> QED  BY <2>1, <1>2, <1>9 DEF ControlInv
<1>13. \A r : FreshFor(r) => FreshFor(r)'
  BY <1>2, <1>9 DEF FreshFor
<1>14. StatementInv'
  <2> SUFFICES ASSUME NEW i \in 1..Len(me.stack) + 1
               PROVE  /\ me'.stack[i].owed \subseteq me'.stack[i].rels
                      /\ me'.stack[i].op \in {"dml", "copy"} =>
                            me'.stack[i].owed \subseteq Shard \cup cache'
                      /\ me'.stack[i].op = "adaptive" =>
                            \A r \in me'.stack[i].owed : FreshFor(r)'
                      /\ me'.stack[i].op = "merge" => me'.stack[i].owed = {}
    BY <1>10 DEF StatementInv
  <2>1. CASE i = Len(me.stack) + 1
    BY <2>1, <1>7, <1>8, <1>10, <1>13
  <2>2. CASE i \in 1..Len(me.stack)
    <3>1. me'.stack[i] = me.stack[i]
      BY <2>2, <1>10
    <3> QED  BY <2>2, <3>1, <1>3, <1>13 DEF HooksInv, StatementInv
  <2> QED  BY <2>1, <2>2, <1>10
<1>15. UnloggedInv'
  <2> SUFFICES ASSUME NEW k \in ChangeKind, NEW r \in Rel, <<k, r>> \in me.unlogged
               PROVE  \E i \in 1..Len(me'.stack) : Owes(i, k, r)'
    BY <1>9 DEF UnloggedInv
  <2>1. PICK i \in 1..Len(me.stack) : Owes(i, k, r)
    BY DEF HooksInv, UnloggedInv
  <2>2. me'.stack[i] = me.stack[i] /\ i \in 1..Len(me'.stack)
    BY <2>1, <1>10
  <2>3. Owes(i, k, r)'
    BY <2>1, <2>2, <1>2, <1>9 DEF Owes
  <2> QED  BY <2>2, <2>3
<1> QED  BY <1>11, <1>12, <1>14, <1>15 DEF HooksInv

\* A change is owed by the innermost statement.
LEMMA ChangeInv ==
    ASSUME HooksInv, NEW x \in Rel, Change(x)
    PROVE  HooksInv'
<1> DEFINE n == Len(me.stack)
           kind == IF me.stack[n].op = "adaptive" THEN "remote" ELSE "local"
<1>1. me.stack \in Seq(Statement) /\ me \in BackendState
  BY DEF HooksInv, TypeOK, BackendState
<1>2. /\ me' = [me EXCEPT !.unlogged = @ \cup {<<kind, x>>}]
      /\ partMap' = partMap /\ worker' = worker /\ distTables' = distTables /\ cache' = cache
      /\ me.hook = "none" /\ me.stack # <<>> /\ x \in me.stack[n].owed
  BY DEF Change, Innermost, Last, InXact, catalogVars
<1>3. n \in Nat \ {0}
  BY <1>1, <1>2, FrontFacts
<1>4. kind \in ChangeKind
  BY DEF ChangeKind
<1>5. /\ me'.unlogged = me.unlogged \cup {<<kind, x>>}
      /\ me'.stack = me.stack /\ me'.xact = me.xact /\ me'.hook = me.hook
      /\ me'.todo = me.todo
      /\ me'.inFinish = me.inFinish /\ me'.inUtility = me.inUtility
      /\ me'.inRoute = me.inRoute /\ me'.group = me.group /\ me'.dist = me.dist
  BY <1>1, <1>2 DEF BackendState
<1>6. TypeOK'
  <2>1. me' \in BackendState
    BY <1>1, <1>2, <1>4 DEF BackendState
  <2> QED  BY <1>2, <1>5, <2>1, Zenon DEF HooksInv, TypeOK
<1>7. ControlInv'
  BY <1>2, <1>5 DEF HooksInv, ControlInv
<1>8. StatementInv'
  <2>1. \A r : FreshFor(r) => FreshFor(r)'
    BY <1>2, <1>5 DEF FreshFor
  <2> QED  BY <1>2, <1>5, <2>1 DEF HooksInv, StatementInv
<1>9. UnloggedInv'
  <2>1. \A i, k, r : Owes(i, k, r) => Owes(i, k, r)'
    BY <1>5 DEF Owes
  <2>2. PICK m \in 1..n, c \in ChangeKind : m = n /\ c = kind
    BY <1>3, <1>4
  <2> HIDE DEF kind
  <2>3. Owes(m, c, x)'
    BY <1>2, <1>5, <2>2 DEF Owes, kind
  <2> SUFFICES ASSUME NEW k \in ChangeKind, NEW r \in Rel, <<k, r>> \in me'.unlogged
               PROVE  \E i \in 1..Len(me'.stack) : Owes(i, k, r)'
    BY DEF UnloggedInv
  <2>4. CASE <<k, r>> \in me.unlogged
    BY <2>1, <2>4, <1>5 DEF HooksInv, UnloggedInv
  <2>5. CASE <<k, r>> = <<c, x>>
    <3>1. k = c /\ r = x
      BY <2>5
    <3> QED  BY <2>2, <2>3, <3>1, <1>5
  <2> QED  BY <2>2, <2>4, <2>5, <1>5
<1> QED  BY <1>6, <1>7, <1>8, <1>9 DEF HooksInv

\* The statement on top is removed when its changes are logged, or when it owes
\* nothing: the other statements still owe what they owed.
LEMMA PopInv ==
    ASSUME HooksInv, me.stack # <<>>,
           partMap' = partMap, cache' = cache, worker' = worker, distTables' = distTables,
           me' \in BackendState, me'.stack = Front(me.stack), me'.hook = "none", me.xact,
           me'.xact = me.xact, me'.unlogged = me.unlogged,
           me'.inFinish = FALSE, me'.inUtility = FALSE, me'.inRoute = me.inRoute,
           me'.group = me.group, me'.dist = me.dist,
           \/ me.hook # "none" /\ me.todo = {}
           \/ me.stack[Len(me.stack)].owed = {}
    PROVE  HooksInv'
<1> DEFINE n == Len(me.stack)
<1>1. me.stack \in Seq(Statement)
  BY DEF HooksInv, TypeOK, BackendState
<1>2. /\ Len(me'.stack) = n - 1 /\ n \in Nat \ {0}
      /\ \A i \in 1..n - 1 : me'.stack[i] = me.stack[i]
  BY <1>1, FrontFacts
<1>3. TypeOK'
  <2>1. Len(me'.stack) <= MaxDepth
    BY <1>2, HooksAssumption DEF HooksInv, TypeOK, HooksAssumption
  <2>2. me'.inFinish = (me'.hook = "finish") /\ me'.inUtility = (me'.hook = "utility")
    OBVIOUS
  <2> QED  BY <2>1, <2>2, Zenon DEF HooksInv, TypeOK
<1>4. ControlInv'
  BY DEF HooksInv, ControlInv
<1>5. StatementInv'
  <2>1. \A r : FreshFor(r) => FreshFor(r)'
    BY DEF FreshFor
  <2> QED  BY <1>2, <2>1 DEF HooksInv, StatementInv
<1>6. UnloggedInv'
  <2> SUFFICES ASSUME NEW k \in ChangeKind, NEW r \in Rel, <<k, r>> \in me.unlogged
               PROVE  \E i \in 1..Len(me'.stack) : Owes(i, k, r)'
    BY DEF UnloggedInv
  <2>1. PICK i \in 1..n : Owes(i, k, r)
    BY DEF HooksInv, UnloggedInv
  <2>2. i # n
    BY <2>1 DEF Owes
  <2>3. i \in 1..n - 1
    BY <2>2, <1>2
  <2>4. Owes(i, k, r)'
    BY <2>1, <2>3, <1>2 DEF Owes
  <2> QED  BY <2>3, <2>4, <1>2
<1> QED  BY <1>3, <1>4, <1>5, <1>6 DEF HooksInv

\* Before its hook runs, everything the innermost statement owes is in the list
\* of the hook; a statement without a hook owes nothing.
LEMMA EnterInv ==
    ASSUME HooksInv, EnterHook
    PROVE  HooksInv'
<1> DEFINE n == Len(me.stack)
           h == HookOf
<1>1. /\ me.stack \in Seq(Statement) /\ me \in BackendState
      /\ me.inFinish = (me.hook = "finish") /\ me.inUtility = (me.hook = "utility")
  BY Zenon DEF HooksInv, TypeOK, BackendState
<1>2. /\ partMap' = partMap /\ worker' = worker /\ distTables' = distTables /\ cache' = cache
      /\ me.xact /\ me.hook = "none" /\ me.stack # <<>>
      /\ me' = IF h = "none" THEN [me EXCEPT !.stack = Front(@)]
               ELSE [me EXCEPT !.hook = h, !.todo = me.stack[n].rels,
                               !.inFinish = @ \/ h = "finish",
                               !.inUtility = @ \/ h = "utility"]
  BY DEF EnterHook, Innermost, Last, InXact, catalogVars
<1>3. /\ n \in Nat \ {0} /\ Front(me.stack) \in Seq(Statement)
      /\ me.stack[n] \in Statement
  BY <1>1, <1>2, FrontFacts
<1>4. me.inFinish = FALSE /\ me.inUtility = FALSE
  BY <1>1, <1>2
<1>5. /\ h \in {"none", "finish", "utility"}
      /\ h = "none" => me.stack[n].op = "merge"
  BY <1>3, <1>4 DEF HookOf, Innermost, Last, Statement
<1> HIDE DEF h
<1>6. CASE h = "none"
  <2>1. me' = [me EXCEPT !.stack = Front(@)]
    BY <1>2, <1>6
  <2>2. me.stack[n].owed = {}
    BY <1>3, <1>5, <1>6 DEF HooksInv, StatementInv
  <2>3. /\ me' \in BackendState /\ me'.stack = Front(me.stack) /\ me'.hook = "none"
        /\ me'.xact = me.xact /\ me'.unlogged = me.unlogged
        /\ me'.inFinish = FALSE /\ me'.inUtility = FALSE /\ me'.inRoute = me.inRoute
        /\ me'.group = me.group /\ me'.dist = me.dist
    BY <1>1, <1>2, <1>3, <1>4, <2>1 DEF BackendState
  <2> QED  BY <1>2, <2>2, <2>3, PopInv
<1>7. CASE h # "none"
  <2>1. /\ me'.hook = h /\ me'.todo = me.stack[n].rels
        /\ me'.inFinish = (h = "finish") /\ me'.inUtility = (h = "utility")
        /\ me'.stack = me.stack /\ me'.xact = me.xact
        /\ me'.unlogged = me.unlogged
        /\ me'.inRoute = me.inRoute /\ me'.group = me.group /\ me'.dist = me.dist
    BY <1>1, <1>2, <1>4, <1>7 DEF BackendState
  <2>2. me' \in BackendState
    BY <1>1, <1>2, <1>3, <1>4, <1>5, <1>7 DEF BackendState, Statement
  <2>3. TypeOK'
    BY <1>2, <2>1, <2>2, Zenon DEF HooksInv, TypeOK
  <2>4. ControlInv'
    BY <1>2, <2>1 DEF HooksInv, ControlInv
  <2>5. StatementInv'
    <3>1. \A r : FreshFor(r) => FreshFor(r)'
      BY <1>2, <2>1 DEF FreshFor
    <3> QED  BY <1>2, <2>1, <3>1 DEF HooksInv, StatementInv
  <2>6. UnloggedInv'
    <3> SUFFICES ASSUME NEW k \in ChangeKind, NEW r \in Rel, <<k, r>> \in me.unlogged
                 PROVE  \E i \in 1..n : Owes(i, k, r)'
      BY <2>1 DEF UnloggedInv
    <3>1. PICK i \in 1..n : Owes(i, k, r)
      BY DEF HooksInv, UnloggedInv
    <3>2. me.stack[i].owed \subseteq me.stack[i].rels
      BY DEF HooksInv, StatementInv
    <3>3. Owes(i, k, r)'
      BY <3>1, <3>2, <2>1 DEF Owes
    <3> QED  BY <3>3
  <2> QED  BY <2>3, <2>4, <2>5, <2>6 DEF HooksInv
<1> QED  BY <1>6, <1>7

\* What the innermost statement owes is recognised when its hook looks at it.
LEMMA OwedRecognised ==
    ASSUME HooksInv, NEW i \in 1..Len(me.stack), NEW x \in me.stack[i].owed
    PROVE  ShouldWritePartWAL(x)
<1>1. me.stack[i] \in Statement
  BY DEF HooksInv, TypeOK, BackendState
<1>2. CASE me.stack[i].op \in {"dml", "copy"}
  BY <1>2 DEF HooksInv, StatementInv, ShouldWritePartWAL
<1>3. CASE me.stack[i].op = "adaptive"
  <2>1. FreshFor(x) /\ x \in Rel
    BY <1>1, <1>3 DEF HooksInv, StatementInv, Statement
  <2>2. /\ me.group \in {"unknown", "worker", "other"}
        /\ me.dist[x] \in {"unknown", "yes", "no"}
    BY <2>1 DEF HooksInv, TypeOK, BackendState
  <2> QED  BY <2>1, <2>2 DEF FreshFor, ShouldWritePartWAL, GroupId, DistStatus
<1>4. CASE me.stack[i].op = "merge"
  BY <1>4 DEF HooksInv, StatementInv
<1> QED  BY <1>1, <1>2, <1>3, <1>4 DEF Statement

\* A relation of the list: its header is written if the statement owes it.
LEMMA RelationInv ==
    ASSUME HooksInv, NEW x \in Rel, HookRelation(x)
    PROVE  HooksInv'
<1> DEFINE n == Len(me.stack)
           sw == ShouldWritePartWAL(x)
<1>1. /\ me.stack \in Seq(Statement) /\ me \in BackendState
      /\ me.group \in {"unknown", "worker", "other"}
      /\ me.dist \in [Rel -> {"unknown", "yes", "no"}]
      /\ me.todo \in SUBSET Rel
      /\ me.unlogged \in SUBSET (ChangeKind \X Rel)
  BY DEF HooksInv, TypeOK, BackendState
<1>2. /\ partMap' = partMap /\ worker' = worker /\ distTables' = distTables /\ cache' = cache
      /\ me.hook # "none" /\ x \in me.todo
  BY DEF HookRelation, catalogVars
<1>3. /\ GroupId \in {"unknown", "worker", "other"}
      /\ DistStatus(x) \in {"unknown", "yes", "no"}
  BY <1>1 DEF GroupId, DistStatus
<1>4. /\ Looked(x) \in BackendState
      /\ \A f \in {"xact", "stack", "own", "hook", "todo", "unlogged",
                    "inFinish", "inUtility", "inRoute"} : Looked(x)[f] = me[f]
      /\ Looked(x).group \in {me.group, GroupId}
      /\ \A r \in Rel : Looked(x).dist[r] = me.dist[r] \/ (r = x /\ Looked(x).dist[r] = DistStatus(x))
  BY <1>1, <1>3, ZenonT(60) DEF Looked, BackendState
<1>5. /\ me'.stack = me.stack /\ me'.xact = me.xact /\ me'.hook = me.hook
      /\ me'.todo = me.todo \ {x} /\ me'.own = me.own
      /\ me'.inFinish = me.inFinish /\ me'.inUtility = me.inUtility
      /\ me'.inRoute = me.inRoute
      /\ me'.group = Looked(x).group /\ me'.dist = Looked(x).dist
      /\ me'.unlogged = IF sw THEN me.unlogged \ {<<k, x>> : k \in ChangeKind}
                              ELSE me.unlogged
      /\ me' \in BackendState
  <2> HIDE DEF sw
  <2>1. me' = IF sw THEN [Looked(x) EXCEPT !.todo = me.todo \ {x},
                                           !.unlogged = me.unlogged \ {<<k, x>> : k \in ChangeKind}]
                    ELSE [Looked(x) EXCEPT !.todo = me.todo \ {x}]
    BY <1>4 DEF HookRelation, BackendState, sw
  <2> QED  BY <2>1, <1>1, <1>4 DEF BackendState
<1>6. TypeOK'
  BY <1>2, <1>5, Zenon DEF HooksInv, TypeOK
<1>7. ControlInv'
  BY <1>5 DEF HooksInv, ControlInv
<1>8. StatementInv'
  <2>1. \A r \in Rel : FreshFor(r) => FreshFor(r)'
    BY <1>1, <1>2, <1>4, <1>5 DEF FreshFor, GroupId, DistStatus
  <2>2. \A i \in 1..Len(me.stack) : me.stack[i].owed \subseteq Rel
    <3>1. \A i \in 1..Len(me.stack) : me.stack[i] \in Statement
      BY <1>1
    <3> QED  BY <3>1 DEF Statement
  <2> QED  BY <1>2, <1>5, <2>1, <2>2 DEF HooksInv, StatementInv
<1>9. UnloggedInv'
  <2> SUFFICES ASSUME NEW k \in ChangeKind, NEW r \in Rel, <<k, r>> \in me'.unlogged
               PROVE  \E i \in 1..n : Owes(i, k, r)'
    BY <1>5 DEF UnloggedInv
  <2>1. <<k, r>> \in me.unlogged /\ (sw => r # x)
    BY <1>5
  <2>2. PICK i \in 1..n : Owes(i, k, r)
    BY <2>1 DEF HooksInv, UnloggedInv
  <2>3. r # x
    BY <2>1, <2>2, OwedRecognised DEF Owes
  <2>4. Owes(i, k, r)'
    BY <2>2, <2>3, <1>5 DEF Owes
  <2> QED  BY <2>4
<1> QED  BY <1>6, <1>7, <1>8, <1>9 DEF HooksInv

\* When the list is done, the statement owes nothing any more.
LEMMA LeaveInv ==
    ASSUME HooksInv, LeaveHook
    PROVE  HooksInv'
<1>1. /\ me.stack \in Seq(Statement) /\ me \in BackendState
      /\ me.inFinish = (me.hook = "finish") /\ me.inUtility = (me.hook = "utility")
  BY Zenon DEF HooksInv, TypeOK, BackendState
<1>2. /\ partMap' = partMap /\ worker' = worker /\ distTables' = distTables /\ cache' = cache
      /\ me.hook # "none" /\ me.todo = {}
      /\ me' = [me EXCEPT !.hook = "none", !.stack = Front(@),
                          !.inFinish = @ /\ me.hook # "finish",
                          !.inUtility = @ /\ me.hook # "utility"]
  BY DEF LeaveHook, catalogVars
<1>3. me.stack # <<>> /\ me.xact
  BY <1>2 DEF HooksInv, ControlInv
<1>4. Front(me.stack) \in Seq(Statement)
  BY <1>1, <1>3, FrontFacts
<1>5. /\ (me.inFinish /\ me.hook # "finish") = FALSE
      /\ (me.inUtility /\ me.hook # "utility") = FALSE
  BY <1>1
<1>6. /\ me' \in BackendState /\ me'.stack = Front(me.stack) /\ me'.hook = "none"
      /\ me'.xact = me.xact /\ me'.unlogged = me.unlogged
      /\ me'.inFinish = FALSE /\ me'.inUtility = FALSE /\ me'.inRoute = me.inRoute
      /\ me'.group = me.group /\ me'.dist = me.dist
  BY <1>1, <1>2, <1>4, <1>5 DEF BackendState
<1> QED  BY <1>2, <1>3, <1>6, PopInv

\* The backend after the end of a transaction, as EndInv needs it.
LEMMA EndedFacts ==
    ASSUME HooksInv
    PROVE  LET r == [Ended(me) EXCEPT !.inFinish = FALSE, !.inUtility = FALSE,
                                      !.inRoute = FALSE]
           IN  /\ r \in BackendState /\ r.stack = <<>> /\ r.hook = "none"
               /\ r.unlogged = {}
               /\ r.inFinish = FALSE /\ r.inUtility = FALSE /\ r.inRoute = FALSE
               /\ r.group = me.group /\ r.dist = me.dist
<1> DEFINE r == [Ended(me) EXCEPT !.inFinish = FALSE, !.inUtility = FALSE, !.inRoute = FALSE]
<1>1. me \in BackendState /\ NewBackend \in BackendState
  BY DEF HooksInv, TypeOK, NewBackend, BackendState
<1>2. Ended(me) \in BackendState
  BY <1>1 DEF Ended, BackendState
<1>3. /\ Ended(me).stack = <<>> /\ Ended(me).hook = "none" /\ Ended(me).unlogged = {}
      /\ Ended(me).group = me.group /\ Ended(me).dist = me.dist
  BY DEF Ended, NewBackend
<1>4. r \in BackendState
  BY <1>2 DEF BackendState
<1>5. /\ r.stack = <<>> /\ r.hook = "none" /\ r.unlogged = {}
      /\ r.inFinish = FALSE /\ r.inUtility = FALSE /\ r.inRoute = FALSE
      /\ r.group = me.group /\ r.dist = me.dist
  BY <1>2, <1>3 DEF BackendState
<1> QED  BY <1>4, <1>5

\* A new backend, as EndInv needs it.
LEMMA NewBackendFacts ==
    /\ NewBackend \in BackendState /\ NewBackend.stack = <<>> /\ NewBackend.hook = "none"
    /\ NewBackend.unlogged = {}
    /\ NewBackend.inFinish = FALSE /\ NewBackend.inUtility = FALSE
    /\ NewBackend.inRoute = FALSE /\ NewBackend.group = "unknown"
    /\ \A r \in Rel : NewBackend.dist[r] = "unknown"
BY DEF NewBackend, BackendState

\* The server starts without statements and with empty caches.
LEMMA HooksInit == Init => HooksInv
<1> SUFFICES ASSUME Init PROVE HooksInv
  OBVIOUS
<1>1. me = NewBackend /\ partMap = {} /\ cache = {} /\ worker = FALSE /\ distTables = {}
  BY DEF Init
<1>2. TypeOK
  <2>1. Len(me.stack) <= MaxDepth
    BY <1>1, NewBackendFacts, HooksAssumption DEF HooksAssumption
  <2>2. me.inFinish = (me.hook = "finish") /\ me.inUtility = (me.hook = "utility")
    BY <1>1, NewBackendFacts
  <2> QED  BY <1>1, <2>1, <2>2, NewBackendFacts, Zenon DEF TypeOK
<1>3. ControlInv /\ StatementInv /\ UnloggedInv
  BY <1>1, NewBackendFacts DEF ControlInv, StatementInv, UnloggedInv
<1> QED  BY <1>2, <1>3 DEF HooksInv

\* Every action keeps the invariant.
LEMMA HooksStep == HooksInv /\ [Next]_vars => HooksInv'
<1> SUFFICES ASSUME HooksInv, [Next]_vars PROVE HooksInv'
  OBVIOUS
<1>1. /\ me \in BackendState /\ partMap \in SUBSET Rel /\ cache \in SUBSET Rel
      /\ worker \in BOOLEAN /\ distTables \in SUBSET (Rel \ Shard)
      /\ me.inFinish = (me.hook = "finish") /\ me.inUtility = (me.hook = "utility")
      /\ me.inRoute = FALSE
  BY Zenon DEF HooksInv, TypeOK, BackendState
<1>2. Visible \in SUBSET Rel
  BY <1>1 DEF Visible, SymDiff, BackendState
<1>3. Shard \subseteq Rel
  BY HooksAssumption DEF HooksAssumption
<1>4. CASE Begin
  BY <1>1, <1>4, GrowInv DEF Begin, catalogVars, BackendState
<1>5. ASSUME NEW r \in Rel, ChangePartitionMap(r) PROVE HooksInv'
  BY <1>1, <1>5, GrowInv DEF ChangePartitionMap, catalogVars, BackendState
<1>6. CASE Commit \/ Abort
  <2>1. me.inFinish = FALSE /\ me.inUtility = FALSE
    BY <1>1, <1>6 DEF Commit, Abort, InXact
  <2>2. me' = [Ended(me) EXCEPT !.inFinish = FALSE, !.inUtility = FALSE, !.inRoute = FALSE]
    BY <1>1, <1>6, <2>1 DEF Commit, Abort, Ended, NewBackend
  <2>3. /\ partMap' \in SUBSET Rel /\ cache' \in SUBSET Rel
        /\ worker' = worker /\ distTables' = distTables
    BY <1>1, <1>2, <1>6 DEF Commit, Abort, catalogVars
  <2> QED  BY <2>2, <2>3, EndedFacts, EndInv
<1>7. CASE Reconnect \/ Restart
  <2>1. /\ me' = NewBackend /\ partMap' \in SUBSET Rel /\ cache' \in SUBSET Rel
        /\ worker' = worker /\ distTables' = distTables
    BY <1>1, <1>7 DEF Reconnect, Restart, catalogVars
  <2> QED  BY <2>1, NewBackendFacts, EndInv
<1>8. ASSUME NEW S \in SUBSET Rel, RouteError(S) PROVE HooksInv'
  <2>1. me.inFinish = FALSE /\ me.inUtility = FALSE
    BY <1>1, <1>8 DEF RouteError, InXact
  <2>2. me' = [Ended(me) EXCEPT !.inFinish = FALSE, !.inUtility = FALSE, !.inRoute = FALSE]
    BY <1>1, <1>8, <2>1 DEF RouteError, FlagAfterError, Ended, NewBackend
  <2>3. /\ partMap' \in SUBSET Rel /\ cache' \in SUBSET Rel
        /\ worker' = worker /\ distTables' = distTables
    BY <1>1, <1>8 DEF RouteError, catalogVars
  <2> QED  BY <2>2, <2>3, EndedFacts, EndInv
<1>9. CASE HookError
  <2>1. /\ (IF me.hook = "finish" THEN FALSE ELSE me.inFinish) = FALSE
        /\ (IF me.hook = "utility" THEN FALSE ELSE me.inUtility) = FALSE
    BY <1>1
  <2>2. me' = [Ended(me) EXCEPT !.inFinish = FALSE, !.inUtility = FALSE, !.inRoute = FALSE]
    BY <1>1, <1>9, <2>1, ZenonT(60) DEF HookError, FlagAfterError, Ended, NewBackend
  <2>3. /\ partMap' \in SUBSET Rel /\ cache' \in SUBSET Rel
        /\ worker' = worker /\ distTables' = distTables
    BY <1>1, <1>9 DEF HookError, catalogVars
  <2> QED  BY <2>2, <2>3, EndedFacts, EndInv
<1>10. ASSUME NEW r \in Rel, Distribute(r) \/ OtherCommits(r) \/ OtherRoutes(r)
       PROVE  HooksInv'
  <2>1. /\ me' = me /\ partMap' \in SUBSET Rel /\ cache' \in SUBSET Rel
        /\ worker' = worker /\ distTables' \in SUBSET (Rel \ Shard)
        /\ cache \subseteq cache' /\ distTables \subseteq distTables'
    BY <1>1, <1>10 DEF Distribute, OtherCommits, OtherRoutes, SymDiff, catalogVars
  <2> QED  BY <1>1, <2>1, GrowInv
<1>11. ASSUME NEW r \in Rel, Undistribute(r) PROVE HooksInv'
  <2>1. \A i \in 1..Len(me.stack) : r \notin me.stack[i].rels
    BY <1>1, <1>11 DEF Undistribute, BackendState
  <2>2. /\ me' = me /\ partMap' = partMap /\ cache' = cache /\ worker' = worker
        /\ distTables' = distTables \ {r}
    BY <1>11 DEF Undistribute
  <2> QED  BY <1>1, <2>1, <2>2, GrowInv
<1>12. CASE BecomeWorker
  BY <1>1, <1>12, GrowInv DEF BecomeWorker
<1>13. CASE UNCHANGED vars
  BY <1>1, <1>13, GrowInv DEF vars
<1> QED
  BY <1>4, <1>5, <1>6, <1>7, <1>8, <1>9, <1>10, <1>11, <1>12, <1>13, StartInv,
     ChangeInv, EnterInv, RelationInv, LeaveInv, LeaveClusterInv DEF Next, BackendStep

\* The invariant holds in every reachable state.
LEMMA HooksInvariant == Spec => []HooksInv
BY HooksInit, HooksStep, PTL DEF Spec

\* The re-entrancy flags of the hooks are set exactly while their hook runs,
\* after whatever errors.
THEOREM HooksTypes == Spec => []TypeOK
<1>1. HooksInv => TypeOK
  BY DEF HooksInv
<1> QED  BY <1>1, HooksInvariant, PTL

\* Between statements, and so at a commit, no change is left without a header.
LEMMA NothingOwed ==
    ASSUME HooksInv, me.stack = <<>>
    PROVE  me.unlogged = {}
<1>1. 1..Len(me.stack) = {}
  OBVIOUS
<1>2. \A k \in ChangeKind, r \in Rel : <<k, r>> \notin me.unlogged
  BY <1>1 DEF HooksInv, UnloggedInv
<1>3. me.unlogged \in SUBSET (ChangeKind \X Rel)
  BY DEF HooksInv, TypeOK, BackendState
<1> QED  BY <1>2, <1>3

\* No change of INSERT, UPDATE or DELETE to a shard or, with local_node_id set, to a
\* relation registered as the statement sees it, and none of COPY to a shard or a
\* relation cached when it starts, commits without a header of its transaction.
\* MERGE and a data-modifying WITH owe none, nor does COPY to a relation that is
\* registered and not cached.
THEOREM CommittedLogged == Spec => []CommittedHasHeader
<1>1. HooksInv => CommittedHasHeader
  BY NothingOwed DEF CommittedHasHeader, OwedLogged
<1> QED  BY <1>1, HooksInvariant, PTL

\* No change of a Citus statement to a distributed table commits on a worker
\* without a header, unless the backend's cached answers are out of date or the
\* node leaves the cluster meanwhile.
THEOREM DistributedLogged == Spec => []DistributedHasHeader
<1>1. HooksInv => DistributedHasHeader
  BY NothingOwed DEF DistributedHasHeader, OwedLogged
<1> QED  BY <1>1, HooksInvariant, PTL

=============================================================================
