--------------------------- MODULE WebhooksProofs ---------------------------
(***************************************************************************)
(* TLAPS proofs about Webhooks, for any number of hooks, events and edits: *)
(* no hook is sent an event twice, or one it had not asked for when the    *)
(* hooks were read, and none that was ready throughout is passed over.     *)
(***************************************************************************)
EXTENDS Webhooks, SequenceTheorems, FunctionTheorems, FiniteSetTheorems, TLAPS

Run == [pc : {"query", "post", "over", "lost"}, name : Names, todo : Seq(Hooks)]

HooksTyped ==
  /\ hooks \in [Hooks -> Webhook \cup {NoHook}]
  /\ handling \in [Events -> Run \cup {NotEmitted}]
  /\ received \in [Hooks -> Seq(Events)]
  /\ ready \in [Events -> SUBSET Hooks]

\* The hook was not sent the event so far.
NotSent(e, h) == \A i \in 1..Len(received[h]) : received[h][i] # e

\* While the query is on its way, every hook that it may find is ready.
Asking(e) ==
  /\ handling[e].pc \in {"none", "query"} => \A h \in Hooks : NotSent(e, h)
  /\ handling[e].pc = "query" => TakingAll(hooks) \subseteq ready[e]

\* The hooks a run has still to post to are different ones, were ready and
\* have not had the event.
Plan(e, todo) ==
  /\ \A i, j \in 1..Len(todo) : todo[i] = todo[j] => i = j
  /\ \A i \in 1..Len(todo) : todo[i] \in ready[e] /\ NotSent(e, todo[i])

Posting(e) ==
  handling[e].pc = "post" => handling[e].todo # <<>> /\ Plan(e, handling[e].todo)

SentWell(h) ==
  /\ \A i, j \in 1..Len(received[h]) : received[h][i] = received[h][j] => i = j
  /\ \A i \in 1..Len(received[h]) : h \in ready[received[h][i]]

HooksInv ==
  /\ HooksTyped
  /\ \A e \in Events : Asking(e) /\ Posting(e)
  /\ \A h \in Hooks : SentWell(h)

-----------------------------------------------------------------------------
\* A run of handleEvent has a state and a list, one that was not started none.
LEMMA RunStates ==
  ASSUME HooksTyped, NEW e \in Events
  PROVE  /\ handling[e] = NotEmitted => handling[e].pc = "none"
         /\ handling[e].pc # "none" => handling[e] \in Run
         /\ handling[e] \in Run => handling[e].todo \in Seq(Hooks)
BY DEF HooksTyped, NotEmitted, Run

\* What is left to do once the first hook had its turn is still a plan.
LEMMA PlanShrinks ==
  ASSUME NEW e \in Events, NEW todo \in Seq(Hooks), todo # <<>>, Plan(e, todo)
  PROVE  /\ Plan(e, Tail(todo)) /\ Tail(todo) \in Seq(Hooks)
         /\ Head(todo) \in Hooks /\ Head(todo) \in ready[e] /\ NotSent(e, Head(todo))
         /\ \A i \in 1..Len(Tail(todo)) : Tail(todo)[i] # Head(todo)
<1>1. /\ Tail(todo) \in Seq(Hooks) /\ Len(Tail(todo)) = Len(todo) - 1
      /\ \A i \in 1..Len(Tail(todo)) : Tail(todo)[i] = todo[i + 1]
      /\ Len(todo) \in Nat \ {0} /\ Head(todo) \in Hooks
  BY HeadTailProperties, EmptySeq
<1>2. Head(todo) = todo[1] /\ 1 \in 1..Len(todo)
  BY <1>1
<1>3. \A i \in 1..Len(Tail(todo)) : i + 1 \in 1..Len(todo) /\ i + 1 # 1
  BY <1>1
<1>4. \A i, j \in 1..Len(Tail(todo)) : Tail(todo)[i] = Tail(todo)[j] => i = j
  BY <1>1, <1>3 DEF Plan
<1>5. \A i \in 1..Len(Tail(todo)) : /\ Tail(todo)[i] \in ready[e]
                                    /\ NotSent(e, Tail(todo)[i])
  BY <1>1, <1>3 DEF Plan
<1>6. \A i \in 1..Len(Tail(todo)) : Tail(todo)[i] # Head(todo)
  BY <1>1, <1>2, <1>3 DEF Plan
<1> QED
  BY <1>1, <1>2, <1>4, <1>5, <1>6 DEF Plan

\* Any order in which the query may return the hooks is a plan.
LEMMA AnyOrderIsPlan ==
  ASSUME HooksInv, NEW e \in Events, handling[e].pc = "query",
         NEW todo \in Ext!SetToSeqs(Relevant)
  PROVE  todo \in Seq(Hooks) /\ Plan(e, todo)
<1>1. Relevant \subseteq Hooks /\ Relevant \subseteq ready[e]
  BY DEF Relevant, TakingAll, HooksInv, Asking
<1>2. IsFiniteSet(Relevant)
  BY <1>1, HooksAreFinite, FS_Subset
<1>3. Cardinality(Relevant) \in Nat
  BY <1>2, FS_CardinalityType
<1>4. /\ todo \in [1..Cardinality(Relevant) -> Relevant]
      /\ \A i, j \in 1..Cardinality(Relevant) : i # j => todo[i] # todo[j]
  <2>1. Ext!Cardinality(Relevant) = Cardinality(Relevant)
    BY DEF Ext!Cardinality, Cardinality
  <2> QED
    BY <2>1 DEF Ext!SetToSeqs
<1>5. todo \in Seq(Hooks) /\ Len(todo) = Cardinality(Relevant)
  BY <1>1, <1>3, <1>4
<1>6. \A h \in Hooks : NotSent(e, h)
  BY DEF HooksInv, Asking
<1> QED
  BY <1>1, <1>4, <1>5, <1>6 DEF Plan

\* How a run goes on with what is left.
LEMMA GoesMoves ==
  ASSUME HooksTyped, NEW e \in Events, handling[e].pc # "none",
         NEW todo \in Seq(Hooks), Goes(e, todo)
  PROVE  /\ handling' \in [Events -> Run \cup {NotEmitted}]
         /\ \A f \in Events \ {e} : handling'[f] = handling[f]
         /\ handling'[e].pc = (IF todo = <<>> THEN "over" ELSE "post")
         /\ handling'[e].todo = todo
<1>1. handling[e] \in Run
  BY RunStates
<1> DEFINE pc == IF todo = <<>> THEN "over" ELSE "post"
           run == [handling[e] EXCEPT !.pc = pc, !.todo = todo]
<1>2. pc \in {"over", "post"}
  OBVIOUS
<1> HIDE DEF pc
<1>3. run \in Run /\ run.pc = pc /\ run.todo = todo
  BY <1>1, <1>2 DEF Run
<1>4. handling' = [handling EXCEPT ![e] = run]
  BY DEF Goes, pc, HooksTyped
<1> HIDE DEF run
<1> QED
  BY <1>3, <1>4 DEF HooksTyped, pc

\* Nothing is sent, nobody stops being ready, and the hooks that the queries on
\* their way may find are ready.
LEMMA NothingSent ==
  ASSUME HooksInv, HooksTyped', received' = received,
         \A e \in Events :
           /\ handling[e].pc # "none" => ready[e] \subseteq ready'[e]
           /\ handling'[e].pc \in {"none", "query"} => handling[e].pc \in {"none", "query"}
           /\ handling'[e].pc = "query" => TakingAll(hooks)' \subseteq ready'[e]
           /\ handling'[e].pc = "post" =>
                /\ handling[e].pc # "none"
                /\ handling'[e].todo # <<>> /\ Plan(e, handling'[e].todo)
  PROVE  HooksInv'
<1>1. \A e \in Events, h \in Hooks : NotSent(e, h) => NotSent(e, h)'
  BY DEF NotSent
<1>2. ASSUME NEW e \in Events PROVE Asking(e)'
  BY <1>1 DEF HooksInv, Asking
<1>3. ASSUME NEW e \in Events PROVE Posting(e)'
  <2> SUFFICES ASSUME handling'[e].pc = "post"
               PROVE  handling'[e].todo # <<>> /\ Plan(e, handling[e].todo)'
    BY DEF Posting
  <2>1. /\ handling'[e].todo # <<>> /\ Plan(e, handling'[e].todo)
        /\ ready[e] \subseteq ready'[e]
    OBVIOUS
  <2> QED
    BY <2>1 DEF Plan, NotSent
<1>4. ASSUME NEW h \in Hooks PROVE SentWell(h)'
  <2>1. SentWell(h) /\ received[h] \in Seq(Events)
    BY DEF HooksInv, HooksTyped
  <2>2. ASSUME NEW i \in 1..Len(received[h]) PROVE h \in ready'[received[h][i]]
    <3>1. received[h][i] \in Events /\ h \in ready[received[h][i]]
      BY <2>1, ElementOfSeq DEF SentWell
    <3>2. handling[received[h][i]].pc # "none"
      BY <3>1 DEF HooksInv, Asking, NotSent
    <3> QED
      BY <3>1, <3>2
  <2> QED
    BY <2>1, <2>2 DEF SentWell
<1> QED
  BY <1>2, <1>3, <1>4 DEF HooksInv

-----------------------------------------------------------------------------
\* At first nothing is emitted.
LEMMA HooksHoldAtFirst == Init => HooksInv
<1> SUFFICES ASSUME Init PROVE HooksInv
  OBVIOUS
<1>1. /\ HooksTyped
      /\ \A h \in Hooks : Len(received[h]) = 0
      /\ \A e \in Events : handling[e].pc = "none"
  BY DEF Init, HooksTyped, NotEmitted
<1> QED
  BY <1>1 DEF HooksInv, Asking, Posting, SentWell, NotSent

\* emit reads the webhooks of the event.
LEMMA EmitKeeps ==
  ASSUME HooksInv, NEW e \in Events, Emit(e)
  PROVE  HooksInv'
<1>1. PICK n \in Names :
        handling' = [handling EXCEPT ![e] = [pc |-> "query", name |-> n, todo |-> <<>>]]
  BY DEF Emit
<1>2. /\ handling[e].pc = "none" /\ hooks' = hooks /\ received' = received
      /\ ready' = [ready EXCEPT ![e] = TakingAll(hooks)]
  BY RunStates DEF Emit, HooksInv
<1>3. [pc |-> "query", name |-> n, todo |-> <<>>] \in Run
  BY DEF Run
<1>4. HooksTyped'
  BY <1>1, <1>2, <1>3 DEF HooksInv, HooksTyped, TakingAll
<1>5. ASSUME NEW f \in Events, f # e
      PROVE  /\ handling'[f] = handling[f] /\ ready'[f] = ready[f]
             /\ Asking(f) /\ Posting(f)
  BY <1>1, <1>2, <1>5 DEF HooksInv, HooksTyped
<1>6. handling'[e].pc = "query" /\ TakingAll(hooks)' = ready'[e]
  BY <1>1, <1>2 DEF HooksInv, HooksTyped, TakingAll
<1> QED
  BY <1>2, <1>4, <1>5, <1>6, NothingSent DEF Asking, Posting, TakingAll

\* A POST arrives or fails.
LEMMA PostKeeps ==
  ASSUME HooksInv, NEW e \in Events, PostArrives(e) \/ PostFails(e)
  PROVE  HooksInv'
<1>0. /\ HooksTyped /\ handling[e].pc = "post" /\ hooks' = hooks /\ ready' = ready
      /\ Goes(e, Tail(handling[e].todo))
  BY DEF HooksInv, PostArrives, PostFails
<1>1. /\ handling[e].todo \in Seq(Hooks) /\ handling[e].todo # <<>>
      /\ Plan(e, handling[e].todo)
  BY <1>0, RunStates DEF HooksInv, Posting
<1>2. PICK h \in Hooks, rest \in Seq(Hooks) :
        /\ h = Head(handling[e].todo) /\ rest = Tail(handling[e].todo)
        /\ Plan(e, rest) /\ h \in ready[e] /\ NotSent(e, h)
        /\ \A i \in 1..Len(rest) : rest[i] # h
  BY <1>1, PlanShrinks
<1>3. /\ handling' \in [Events -> Run \cup {NotEmitted}]
      /\ \A f \in Events \ {e} : handling'[f] = handling[f]
      /\ handling'[e].pc = (IF rest = <<>> THEN "over" ELSE "post")
      /\ handling'[e].todo = rest
  BY <1>0, <1>2, GoesMoves
<1>4. CASE PostFails(e)
  <2>1. received' = received
    BY <1>4 DEF PostFails
  <2>2. HooksTyped'
    BY <1>0, <1>3, <2>1 DEF HooksTyped
  <2>3. ASSUME NEW f \in Events, f # e
        PROVE  handling'[f] = handling[f] /\ Asking(f) /\ Posting(f)
    BY <1>3, <2>3 DEF HooksInv
  <2> QED
    BY <1>0, <1>2, <1>3, <2>1, <2>2, <2>3, NothingSent DEF Asking, Posting, TakingAll
<1>5. CASE PostArrives(e)
  <2>1. PICK now : now = Append(received[h], e)
    OBVIOUS
  <2>2. /\ received[h] \in Seq(Events) /\ now \in Seq(Events)
        /\ Len(received[h]) \in Nat /\ Len(now) = Len(received[h]) + 1
        /\ \A i \in 1..Len(received[h]) : now[i] = received[h][i]
        /\ now[Len(received[h]) + 1] = e
        /\ received' = [received EXCEPT ![h] = now]
    BY <1>0, <1>2, <1>5, <2>1, AppendProperties DEF HooksTyped, PostArrives
  <2>3. HooksTyped'
    BY <1>0, <1>3, <2>2 DEF HooksTyped
  <2>4. \A i \in 1..Len(now) : i \in 1..Len(received[h]) \/ i = Len(received[h]) + 1
    BY <2>2
  <2>5. /\ received'[h] = now
        /\ \A g \in Hooks \ {h} : received'[g] = received[g]
    BY <1>0, <2>2 DEF HooksTyped
  <2>6. \A f \in Events, g \in Hooks :
          (f # e \/ g # h) /\ NotSent(f, g) => NotSent(f, g)'
    BY <1>2, <2>2, <2>4, <2>5 DEF NotSent
  <2>7. SentWell(h)'
    <3>1. SentWell(h)
      BY <1>2 DEF HooksInv
    <3>2. \A i, j \in 1..Len(now) : now[i] = now[j] => i = j
      <4>1. \A i \in 1..Len(received[h]) : now[i] # e
        BY <1>2, <2>2 DEF NotSent
      <4> QED
        BY <2>2, <2>4, <3>1, <4>1 DEF SentWell
    <3>3. \A i \in 1..Len(now) : h \in ready[now[i]]
      BY <1>2, <2>2, <2>4, <3>1 DEF SentWell
    <3> QED
      BY <1>0, <2>5, <3>2, <3>3 DEF SentWell
  <2>8. \A g \in Hooks : SentWell(g)'
    BY <1>0, <2>5, <2>7 DEF HooksInv, SentWell
  <2>9. ASSUME NEW f \in Events PROVE Asking(f)' /\ Posting(f)'
    <3>1. CASE f = e
      <4>1. Asking(f)'
        BY <1>3, <3>1 DEF Asking
      <4>2. Plan(e, rest)'
        BY <1>0, <1>2, <2>6, ElementOfSeq DEF Plan
      <4>3. Plan(e, handling[e].todo)'
        BY <1>3, <4>2
      <4> QED
        BY <1>3, <3>1, <4>1, <4>3 DEF Posting
    <3>2. CASE f # e
      <4>1. handling'[f] = handling[f] /\ Asking(f) /\ Posting(f)
        BY <1>3, <3>2 DEF HooksInv
      <4>2. Asking(f)'
        BY <1>0, <2>6, <3>2, <4>1 DEF Asking, TakingAll
      <4>3. Posting(f)'
        <5> SUFFICES ASSUME handling[f].pc = "post"
                     PROVE  handling[f].todo # <<>> /\ Plan(f, handling[f].todo)'
          BY <4>1 DEF Posting
        <5>1. handling[f].todo \in Seq(Hooks) /\ Plan(f, handling[f].todo)
              /\ handling[f].todo # <<>>
          BY <1>0, <4>1, RunStates DEF Posting
        <5>2. \A i \in 1..Len(handling[f].todo) : handling[f].todo[i] \in Hooks
          BY <5>1, ElementOfSeq
        <5> QED
          BY <1>0, <2>6, <3>2, <4>1, <5>1, <5>2 DEF Plan
      <4> QED
        BY <4>2, <4>3
    <3> QED
      BY <3>1, <3>2
  <2> QED
    BY <2>3, <2>8, <2>9 DEF HooksInv
<1> QED
  BY <1>4, <1>5

\* A webhook is created, changed or removed.
LEMMA ChangeKeeps ==
  ASSUME HooksInv, NEW h \in Hooks, NEW row \in Webhook \cup {NoHook}, Change(h, row)
  PROVE  HooksInv'
<1>1. /\ HooksTyped /\ UNCHANGED <<handling, received>>
      /\ hooks' = [hooks EXCEPT ![h] = row]
      /\ ready' = [e \in Events |->
           IF handling[e].pc = "query" THEN ready[e] \cup TakingAll(hooks') ELSE ready[e]]
  BY DEF HooksInv, Change
<1>2. HooksTyped'
  BY <1>1 DEF HooksTyped, TakingAll
<1>3. TakingAll(hooks)' = TakingAll(hooks')
  BY DEF TakingAll
<1>4. \A e \in Events : /\ ready[e] \subseteq ready'[e]
                        /\ handling[e].pc = "query" => TakingAll(hooks)' \subseteq ready'[e]
  BY <1>1, <1>3
<1> QED
  BY <1>1, <1>2, <1>4, NothingSent DEF HooksInv, Posting

\* Every step keeps what was sent within what was ready.
LEMMA HooksStep == HooksInv /\ [Next]_vars => HooksInv'
<1> SUFFICES ASSUME HooksInv, [Next]_vars PROVE HooksInv'
  OBVIOUS
<1>0. HooksTyped
  BY DEF HooksInv
<1>1. ASSUME NEW e \in Events, FindHooks(e) PROVE HooksInv'
  <2>1. PICK todo \in Ext!SetToSeqs(Relevant) : Goes(e, todo)
    BY <1>1 DEF FindHooks
  <2>2. /\ handling[e].pc = "query" /\ UNCHANGED <<hooks, received, ready>>
    BY <1>1 DEF FindHooks, history
  <2>3. todo \in Seq(Hooks) /\ Plan(e, todo)
    BY <2>2, AnyOrderIsPlan
  <2>4. /\ handling' \in [Events -> Run \cup {NotEmitted}]
        /\ \A f \in Events \ {e} : handling'[f] = handling[f]
        /\ handling'[e].pc = (IF todo = <<>> THEN "over" ELSE "post")
        /\ handling'[e].todo = todo
    BY <1>0, <2>1, <2>2, <2>3, GoesMoves
  <2>5. HooksTyped'
    BY <1>0, <2>2, <2>4 DEF HooksTyped
  <2>6. ASSUME NEW f \in Events, f # e
        PROVE  handling'[f] = handling[f] /\ Asking(f) /\ Posting(f)
    BY <2>4, <2>6 DEF HooksInv
  <2> QED
    BY <2>2, <2>3, <2>4, <2>5, <2>6, NothingSent DEF Asking, Posting, TakingAll
<1>2. ASSUME NEW e \in Events, QueryFails(e) PROVE HooksInv'
  <2>1. /\ handling[e].pc = "query" /\ UNCHANGED <<hooks, received, ready>>
        /\ handling' = [handling EXCEPT ![e] = [handling[e] EXCEPT !.pc = "lost"]]
    BY <1>0, <1>2 DEF QueryFails, history, HooksTyped
  <2>2. [handling[e] EXCEPT !.pc = "lost"] \in Run
        /\ [handling[e] EXCEPT !.pc = "lost"].pc = "lost"
    BY <1>0, <2>1, RunStates DEF Run
  <2>3. HooksTyped'
    BY <1>0, <2>1, <2>2 DEF HooksTyped
  <2>4. ASSUME NEW f \in Events, f # e
        PROVE  handling'[f] = handling[f] /\ Asking(f) /\ Posting(f)
    BY <1>0, <2>1, <2>4 DEF HooksInv, HooksTyped
  <2>5. handling'[e].pc = "lost"
    BY <1>0, <2>1, <2>2 DEF HooksTyped
  <2> QED
    BY <2>1, <2>3, <2>4, <2>5, NothingSent DEF Asking, Posting, TakingAll
<1>3. CASE Crash
  <2>1. UNCHANGED <<hooks, received, ready>>
    BY <1>3 DEF Crash, history
  <2>2. ASSUME NEW e \in Events
        PROVE  /\ handling'[e] \in Run \cup {NotEmitted}
               /\ \/ handling'[e] = handling[e]
                  \/ handling'[e].pc = "lost"
    <3>1. CASE handling[e].pc \in {"query", "post"}
      <4>1. handling'[e] = [handling[e] EXCEPT !.pc = "lost"]
        BY <1>3, <3>1 DEF Crash
      <4> QED
        BY <1>0, <3>1, <4>1, RunStates DEF Run
    <3>2. CASE handling[e].pc \notin {"query", "post"}
      <4>1. handling'[e] = handling[e]
        BY <1>3, <3>2 DEF Crash
      <4> QED
        BY <1>0, <4>1 DEF HooksTyped
    <3> QED
      BY <3>1, <3>2
  <2>3. HooksTyped'
    <3>1. handling' \in [Events -> Run \cup {NotEmitted}]
      BY <1>3, <2>2 DEF Crash
    <3> QED
      BY <1>0, <2>1, <3>1 DEF HooksTyped
  <2>4. ASSUME NEW e \in Events PROVE Asking(e) /\ Posting(e)
    BY DEF HooksInv
  <2> QED
    BY <2>1, <2>2, <2>3, <2>4, NothingSent DEF Asking, Posting, TakingAll
<1>4. ASSUME NEW h \in Hooks, Create(h) \/ Update(h) \/ Delete(h) PROVE HooksInv'
  BY <1>4, ChangeKeeps DEF Create, Update, Delete
<1>5. CASE UNCHANGED vars
  <2>1. HooksTyped' /\ UNCHANGED <<received, ready, handling, hooks>>
    BY <1>0, <1>5 DEF vars, history, HooksTyped
  <2> QED
    BY <2>1, NothingSent DEF HooksInv, Asking, Posting, TakingAll
<1> QED
  BY <1>1, <1>2, <1>3, <1>4, <1>5, EmitKeeps, PostKeeps DEF Next, Handle, Done

-----------------------------------------------------------------------------
\* handleEvent: a hook is sent an event once at most, and only if between the
\* emission and the reading of the hooks it was active and took all events.
THEOREM SentOnce == Spec => []SentOnceToReady
<1>1. HooksInv => SentOnceToReady
  <2> SUFFICES ASSUME HooksInv, NEW h \in Hooks
               PROVE  /\ Ext!IsInjective(received[h])
                      /\ \A i \in DOMAIN received[h] : h \in ready[received[h][i]]
    BY DEF SentOnceToReady
  <2>1. DOMAIN received[h] = 1..Len(received[h]) /\ SentWell(h)
    BY DEF HooksInv, HooksTyped
  <2> QED
    BY <2>1 DEF SentWell, Ext!IsInjective
<1> QED
  BY <1>1, HooksHoldAtFirst, HooksStep, PTL DEF Spec

-----------------------------------------------------------------------------
(* Nobody is passed over.                                                  *)

Wants(e, h) == <<h, All>> \in wanted[e]

\* While the query is on its way who wants the event is there to be found;
\* while posts go out he had his turn or is still on the list.
TurnsToCome(e) ==
  \A h \in Hooks : Wants(e, h) =>
    /\ handling[e].pc = "query" => h \in TakingAll(hooks)
    /\ handling[e].pc = "post" =>
         h \in tried[e] \/ \E i \in 1..Len(handling[e].todo) : handling[e].todo[i] = h
    /\ handling[e].pc = "over" => h \in tried[e]

HistoryTyped ==
  /\ wanted \in [Events -> SUBSET (Hooks \X Subscriptions)]
  /\ tried \in [Events -> SUBSET Hooks]

TurnsInv == HistoryTyped /\ \A e \in Events : TurnsToCome(e)

\* The answer of the query leaves out none of the relevant hooks.
LEMMA AnswerIsComplete ==
  ASSUME HooksTyped, NEW todo \in Ext!SetToSeqs(Relevant)
  PROVE  /\ Len(todo) \in Nat
         /\ \A h \in Relevant : \E i \in 1..Len(todo) : todo[i] = h
<1> DEFINE n == Cardinality(Relevant)
<1>1. Relevant \subseteq Hooks /\ IsFiniteSet(Relevant)
  BY HooksAreFinite, FS_Subset DEF Relevant, TakingAll
<1>2. n \in Nat
  BY <1>1, FS_CardinalityType
<1>3. todo \in [1..n -> Relevant] /\ \A i, j \in 1..n : i # j => todo[i] # todo[j]
  <2>1. Ext!Cardinality(Relevant) = Cardinality(Relevant)
    BY DEF Ext!Cardinality, Cardinality
  <2> QED
    BY <2>1 DEF Ext!SetToSeqs
<1>4. Cardinality(1..n) = n
  BY <1>2, FS_Interval
<1> HIDE DEF n
<1>5. todo \in Injection(1..n, Relevant)
  BY <1>3, Fun_IsInj
<1>6. todo \in Surjection(1..n, Relevant)
  BY <1>1, <1>4, <1>5, FS_Injection DEF n
<1>7. \A h \in Relevant : \E i \in 1..n : todo[i] = h
  BY <1>6 DEF Surjection
<1>8. Len(todo) = n
  BY <1>1, <1>2, <1>3
<1> QED
  BY <1>2, <1>7, <1>8

\* A step after which an event wants no more, has no fewer tries and, unless it
\* just stopped, is where it was.
LEMMA TurnsKept ==
  ASSUME NEW e \in Events, TurnsToCome(e), wanted'[e] \subseteq wanted[e],
         tried[e] \subseteq tried'[e],
         handling'[e] = handling[e] \/ handling'[e].pc = "lost",
         handling[e].pc = "query" =>
           \A h \in Hooks : Wants(e, h)' => h \in TakingAll(hooks')
  PROVE  TurnsToCome(e)'
<1>1. CASE handling'[e].pc = "lost"
  BY <1>1 DEF TurnsToCome
<1>2. CASE handling'[e] = handling[e]
  BY <1>2 DEF TurnsToCome, Wants, TakingAll
<1> QED
  BY <1>1, <1>2

\* A run that posts takes the first hook off its list and tries it.
LEMMA PostTurns ==
  ASSUME HooksInv, TurnsInv, NEW e \in Events, PostArrives(e) \/ PostFails(e)
  PROVE  TurnsInv'
<1>1. /\ HooksTyped /\ handling[e].pc = "post" /\ wanted' = wanted /\ hooks' = hooks
      /\ Goes(e, Tail(handling[e].todo)) /\ Tries(e)
  BY DEF HooksInv, PostArrives, PostFails
<1>2. /\ handling[e].todo \in Seq(Hooks) /\ handling[e].todo # <<>>
  BY <1>1, RunStates DEF HooksInv, Posting
<1>3. PICK todo \in Seq(Hooks), rest \in Seq(Hooks), h \in Hooks :
        /\ todo = handling[e].todo /\ rest = Tail(todo) /\ h = Head(todo)
        /\ Len(todo) \in Nat \ {0} /\ Len(rest) = Len(todo) - 1 /\ h = todo[1]
        /\ \A i \in 1..Len(rest) : rest[i] = todo[i + 1]
  <2>1. PICK todo \in Seq(Hooks) : todo = handling[e].todo /\ todo # <<>>
    BY <1>2
  <2>2. /\ Tail(todo) \in Seq(Hooks) /\ Len(Tail(todo)) = Len(todo) - 1
        /\ \A i \in 1..Len(Tail(todo)) : Tail(todo)[i] = todo[i + 1]
        /\ Len(todo) \in Nat \ {0} /\ Head(todo) \in Hooks
    BY <2>1, HeadTailProperties, EmptySeq
  <2>3. Head(todo) = todo[1]
    BY <2>1
  <2> QED
    BY <2>1, <2>2, <2>3
<1>4. /\ \A f \in Events \ {e} : handling'[f] = handling[f]
      /\ handling'[e].pc = (IF rest = <<>> THEN "over" ELSE "post")
      /\ handling'[e].todo = rest
  BY <1>1, <1>3, GoesMoves
<1>5. tried' = [tried EXCEPT ![e] = @ \cup {h}]
  BY <1>1, <1>3 DEF Tries
<1>6. /\ HistoryTyped'
      /\ tried'[e] = tried[e] \cup {h}
      /\ \A f \in Events : tried[f] \subseteq tried'[f]
  BY <1>1, <1>5 DEF TurnsInv, HistoryTyped
<1>7. TurnsToCome(e)'
  <2> SUFFICES ASSUME NEW g \in Hooks, Wants(e, g), g # h, g \notin tried[e]
               PROVE  /\ rest # <<>>
                      /\ \E i \in 1..Len(rest) : rest[i] = g
    BY <1>1, <1>4, <1>6 DEF TurnsToCome, Wants
  <2>1. PICK i \in 1..Len(todo) : todo[i] = g
    BY <1>1, <1>3 DEF TurnsInv, TurnsToCome
  <2>2. i # 1
    BY <1>3, <2>1
  <2>3. i - 1 \in 1..Len(rest) /\ rest[i - 1] = g
    BY <1>3, <2>1, <2>2
  <2>4. Len(rest) # 0
    BY <1>3, <2>3
  <2> QED
    BY <2>3, <2>4, EmptySeq
<1>8. ASSUME NEW f \in Events, f # e PROVE TurnsToCome(f)'
  <2>1. TurnsToCome(f) /\ handling'[f] = handling[f] /\ tried[f] \subseteq tried'[f]
    BY <1>4, <1>6, <1>8 DEF TurnsInv
  <2> QED
    BY <1>1, <2>1 DEF TurnsToCome, Wants, TakingAll
<1> QED
  BY <1>6, <1>7, <1>8 DEF TurnsInv

\* Every step gives the turns it takes.
LEMMA TurnsStep == HooksInv /\ TurnsInv /\ [Next]_vars => TurnsInv'
<1> SUFFICES ASSUME HooksInv, TurnsInv, [Next]_vars PROVE TurnsInv'
  OBVIOUS
<1>0. HooksTyped /\ HistoryTyped
  BY DEF HooksInv, TurnsInv
<1>1. ASSUME NEW e \in Events, Emit(e) PROVE TurnsInv'
  <2>1. PICK n \in Names :
          /\ handling' = [handling EXCEPT ![e] = [pc |-> "query", name |-> n, todo |-> <<>>]]
          /\ wanted' = [wanted EXCEPT ![e] =
               {p \in Hooks \X {n, All} : Takes(hooks[p[1]], p[2])}]
    BY <1>1 DEF Emit
  <2>2. UNCHANGED <<hooks, tried>>
    BY <1>1 DEF Emit
  <2>3. HistoryTyped'
    BY <1>0, <2>1, <2>2 DEF HistoryTyped, Subscriptions
  <2>4. /\ handling'[e].pc = "query"
        /\ \A h \in Hooks : Wants(e, h)' => h \in TakingAll(hooks)
        /\ \A f \in Events \ {e} : handling'[f] = handling[f] /\ wanted'[f] = wanted[f]
    BY <1>0, <2>1 DEF HooksTyped, HistoryTyped, Wants, TakingAll
  <2>5. TurnsToCome(e)'
    BY <2>2, <2>4 DEF TurnsToCome, TakingAll
  <2>6. ASSUME NEW f \in Events, f # e PROVE TurnsToCome(f)'
    BY <2>2, <2>4, <2>6 DEF TurnsInv, TurnsToCome, Wants, TakingAll
  <2> QED
    BY <2>3, <2>5, <2>6 DEF TurnsInv
<1>2. ASSUME NEW e \in Events, FindHooks(e) PROVE TurnsInv'
  <2>1. PICK todo \in Ext!SetToSeqs(Relevant) : Goes(e, todo)
    BY <1>2 DEF FindHooks
  <2>2. handling[e].pc = "query" /\ UNCHANGED <<hooks, wanted, tried>>
    BY <1>2 DEF FindHooks, history
  <2>3. todo \in Seq(Hooks)
    BY <2>2, AnyOrderIsPlan
  <2>4. /\ \A f \in Events \ {e} : handling'[f] = handling[f]
        /\ handling'[e].pc = (IF todo = <<>> THEN "over" ELSE "post")
        /\ handling'[e].todo = todo
    BY <1>0, <2>1, <2>2, <2>3, GoesMoves
  <2>5. ASSUME NEW h \in Hooks, Wants(e, h)
        PROVE  todo # <<>> /\ \E i \in 1..Len(todo) : todo[i] = h
    <3>1. h \in Relevant
      BY <2>2, <2>5 DEF TurnsInv, TurnsToCome, Relevant
    <3>2. PICK i \in 1..Len(todo) : todo[i] = h
      BY <1>0, <3>1, AnswerIsComplete
    <3>3. Len(todo) # 0
      BY <1>0, <3>2, AnswerIsComplete
    <3> QED
      BY <3>2, <3>3, EmptySeq
  <2>6. TurnsToCome(e)'
    BY <2>2, <2>4, <2>5 DEF TurnsToCome, Wants
  <2>7. ASSUME NEW f \in Events, f # e PROVE TurnsToCome(f)'
    BY <2>2, <2>4, <2>7 DEF TurnsInv, TurnsToCome, Wants, TakingAll
  <2> QED
    BY <1>0, <2>2, <2>6, <2>7 DEF TurnsInv, HistoryTyped
<1>3. ASSUME UNCHANGED <<hooks, wanted, tried>>,
             \A e \in Events : handling'[e] = handling[e] \/ handling'[e].pc = "lost"
      PROVE  TurnsInv'
  <2>1. HistoryTyped'
    BY <1>0, <1>3 DEF HistoryTyped
  <2>2. ASSUME NEW e \in Events PROVE TurnsToCome(e)'
    BY <1>3, TurnsKept DEF TurnsInv, TurnsToCome, Wants
  <2> QED
    BY <2>1, <2>2 DEF TurnsInv
<1>4. ASSUME NEW e \in Events, QueryFails(e) PROVE TurnsInv'
  <2>1. /\ handling[e].pc = "query" /\ UNCHANGED <<hooks, wanted, tried>>
        /\ handling' = [handling EXCEPT ![e] = [handling[e] EXCEPT !.pc = "lost"]]
    BY <1>0, <1>4 DEF QueryFails, history, HooksTyped
  <2>2. [handling[e] EXCEPT !.pc = "lost"].pc = "lost"
    BY <1>0, <2>1, RunStates DEF Run
  <2> QED
    BY <1>0, <1>3, <2>1, <2>2 DEF HooksTyped
<1>5. CASE Crash
  <2>1. UNCHANGED <<hooks, wanted, tried>>
    BY <1>5 DEF Crash, history
  <2>2. ASSUME NEW e \in Events
        PROVE  handling'[e] = handling[e] \/ handling'[e].pc = "lost"
    <3>1. handling[e].pc \in {"query", "post"}
            => [handling[e] EXCEPT !.pc = "lost"].pc = "lost"
      BY <1>0, RunStates DEF Run
    <3> QED
      BY <1>5, <3>1 DEF Crash
  <2> QED
    BY <1>3, <2>1, <2>2
<1>6. ASSUME NEW h \in Hooks, NEW row, Change(h, row) PROVE TurnsInv'
  <2>1. /\ UNCHANGED <<handling, tried>>
        /\ hooks' = [hooks EXCEPT ![h] = row]
        /\ wanted' = [e \in Events |->
             IF handling[e].pc = "query"
             THEN {p \in wanted[e] : p[1] # h \/ Takes(row, p[2])} ELSE wanted[e]]
    BY <1>6 DEF Change
  <2>2. HistoryTyped'
    BY <1>0, <2>1 DEF HistoryTyped
  <2>3. ASSUME NEW e \in Events PROVE TurnsToCome(e)'
    <3>1. wanted'[e] \subseteq wanted[e] /\ TurnsToCome(e)
      BY <2>1 DEF TurnsInv
    <3>2. ASSUME handling[e].pc = "query", NEW g \in Hooks, Wants(e, g)'
          PROVE  g \in TakingAll(hooks')
      <4>1. Wants(e, g) /\ (g # h \/ Takes(row, All))
        BY <2>1, <3>2 DEF Wants
      <4>2. Takes(hooks[g], All)
        BY <3>1, <3>2, <4>1 DEF TurnsToCome, TakingAll
      <4>3. hooks'[g] = IF g = h THEN row ELSE hooks[g]
        BY <1>0, <2>1 DEF HooksTyped
      <4> QED
        BY <4>1, <4>2, <4>3 DEF TakingAll
    <3> QED
      BY <2>1, <3>1, <3>2, TurnsKept
  <2> QED
    BY <2>2, <2>3 DEF TurnsInv
<1>7. CASE UNCHANGED vars
  BY <1>3, <1>7 DEF vars, history
<1> QED
  BY <1>1, <1>2, <1>4, <1>5, <1>6, <1>7, PostTurns
     DEF Next, Handle, Done, Create, Update, Delete

\* What EveryHookHasItsTurn says of a run that has ended.
NobodyIsPassedOver ==
  \A e \in Events :
    handling[e].pc = "over" => \A h \in Hooks : <<h, All>> \in wanted[e] => h \in tried[e]

\* handleEvent: a run that ended posted to every hook that had taken all events
\* from the emission to the query, whatever became of the posts to others.
THEOREM EverybodyHadHisTurn == Spec => []NobodyIsPassedOver
<1>1. Init => TurnsInv
  BY DEF Init, TurnsInv, HistoryTyped, TurnsToCome, Wants, NotEmitted
<1>2. TurnsInv => NobodyIsPassedOver
  BY DEF TurnsInv, TurnsToCome, NobodyIsPassedOver, Wants
<1> QED
  BY <1>1, <1>2, HooksHoldAtFirst, HooksStep, TurnsStep, PTL DEF Spec
=============================================================================
