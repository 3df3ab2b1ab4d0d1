------------------------------ MODULE Webhooks ------------------------------
(***************************************************************************)
(* WebhooksService of one tenant: every event of the emitter starts a run  *)
(* of handleEvent, which reads the active hooks and posts the event to     *)
(* those it takes for subscribed, one after the other.  Runs of several    *)
(* events interleave with each other and with the administrators' edits.   *)
(*                                                                         *)
(* A post changes failureCount and a WebhookDelivery in memory only;       *)
(* neither is saved, so there is no delivery that retryDelivery could find.*)
(***************************************************************************)
EXTENDS Naturals, Sequences, FiniteSets

CONSTANTS
  Hooks,       \* ids of webhooks
  Events,      \* events that are emitted
  Names,       \* their types, such as task.created
  All,         \* the subscription '*'
  MaxChanges,  \* bound: edits of hooks
  MaxFaults,   \* bound: failing queries and crashes
  NoHook       \* the absence of a row

ASSUME HookConstantsAreTyped ==
  /\ MaxChanges \in Nat /\ MaxFaults \in Nat
  /\ All \notin Names

\* A table has finitely many rows.
ASSUME HooksAreFinite == IsFiniteSet(Hooks)

Ext == INSTANCE SequencesExt

VARIABLES
  hooks,     \* the table webhooks
  handling,  \* the run of handleEvent for each event
  received,  \* the events each hook was sent, in order
  wanted,    \* history: the subscriptions an event met, until it read the hooks
  ready,     \* history: hooks that took all events at some time before that
  tried,     \* history: the hooks each event was posted to, arrived or not
  changes, faults

history == <<wanted, ready, tried>>
vars == <<hooks, handling, received, history, changes, faults>>

Subscriptions == Names \cup {All}

Webhook == [events : SUBSET Subscriptions, isActive : BOOLEAN]

NotEmitted == [pc |-> "none"]

Takes(row, s) == row # NoHook /\ row.isActive /\ s \in row.events

TakingAll(table) == {h \in Hooks : Takes(table[h], All)}

Init ==
  /\ hooks \in [Hooks -> Webhook \cup {NoHook}]
  /\ handling = [e \in Events |-> NotEmitted]
  /\ received = [h \in Hooks |-> <<>>]
  /\ wanted = [e \in Events |-> {}]
  /\ ready = [e \in Events |-> {}]
  /\ tried = [e \in Events |-> {}]
  /\ changes = 0 /\ faults = 0

-----------------------------------------------------------------------------
(* Events.                                                                 *)

\* The emitter calls handleEvent, whose query is on its way.
Emit(e) ==
  /\ handling[e] = NotEmitted
  /\ \E n \in Names :
       /\ handling' = [handling EXCEPT ![e] = [pc |-> "query", name |-> n, todo |-> <<>>]]
       /\ wanted' = [wanted EXCEPT ![e] =
            {p \in Hooks \X {n, All} : Takes(hooks[p[1]], p[2])}]
  /\ ready' = [ready EXCEPT ![e] = TakingAll(hooks)]
  /\ UNCHANGED <<hooks, received, tried, changes, faults>>

\* Faulty variant: inactive hooks are taken too.
RelevantOfAll == {h \in Hooks : hooks[h] # NoHook /\ All \in hooks[h].events}

\* eventType is the constructor's name of a plain object, 'Object', whatever
\* the event; so of the subscriptions only '*' ever matches.
Relevant == TakingAll(hooks)

Goes(e, todo) ==
  handling' = [handling EXCEPT ![e].pc = IF todo = <<>> THEN "over" ELSE "post",
                               ![e].todo = todo]

\* The active hooks are read, in no particular order.
FindHooks(e) ==
  /\ handling[e].pc = "query"
  /\ \E todo \in Ext!SetToSeqs(Relevant) : Goes(e, todo)
  /\ UNCHANGED <<hooks, received, history, changes, faults>>

\* The query fails: the error is logged by the emitter's wrapper.
QueryFails(e) ==
  /\ handling[e].pc = "query"
  /\ faults < MaxFaults
  /\ faults' = faults + 1
  /\ handling' = [handling EXCEPT ![e].pc = "lost"]
  /\ UNCHANGED <<hooks, received, history, changes>>

Tries(e) == tried' = [tried EXCEPT ![e] = @ \cup {Head(handling[e].todo)}]

\* triggerWebhook: the receiver gets the event, and answers or does not.
PostArrives(e) ==
  /\ handling[e].pc = "post"
  /\ LET h == Head(handling[e].todo)
     IN received' = [received EXCEPT ![h] = Append(@, e)]
  /\ Tries(e) /\ Goes(e, Tail(handling[e].todo))
  /\ UNCHANGED <<hooks, wanted, ready, changes, faults>>

\* Faulty variant: an error ends the loop over the hooks.
PostFailsForAll(e) ==
  /\ handling[e].pc = "post"
  /\ Tries(e) /\ Goes(e, <<>>)
  /\ UNCHANGED <<hooks, received, wanted, ready, changes, faults>>

\* It does not arrive; the error is caught, and the next hook is tried.
PostFails(e) ==
  /\ handling[e].pc = "post"
  /\ Tries(e) /\ Goes(e, Tail(handling[e].todo))
  /\ UNCHANGED <<hooks, received, wanted, ready, changes, faults>>

\* The process dies with the runs it holds.
Crash ==
  /\ faults < MaxFaults
  /\ faults' = faults + 1
  /\ \E e \in Events : handling[e].pc \in {"query", "post"}
  /\ handling' = [e \in Events |->
       IF handling[e].pc \in {"query", "post"}
       THEN [handling[e] EXCEPT !.pc = "lost"] ELSE handling[e]]
  /\ UNCHANGED <<hooks, received, history, changes>>

-----------------------------------------------------------------------------
(* The administrators: create, update, delete.                             *)

Change(h, row) ==
  /\ changes < MaxChanges
  /\ changes' = changes + 1
  /\ hooks' = [hooks EXCEPT ![h] = row]
  /\ wanted' = [e \in Events |->
       IF handling[e].pc = "query"
       THEN {p \in wanted[e] : p[1] # h \/ Takes(row, p[2])} ELSE wanted[e]]
  /\ ready' = [e \in Events |->
       IF handling[e].pc = "query"
       THEN ready[e] \cup TakingAll([hooks EXCEPT ![h] = row]) ELSE ready[e]]
  /\ UNCHANGED <<handling, received, tried, faults>>

\* A new hook is active; the body of an update is not validated and may set
\* isActive too.  delete removes the row.
Create(h) ==
  hooks[h] = NoHook /\ \E row \in Webhook : row.isActive /\ Change(h, row)

Update(h) ==
  hooks[h] # NoHook /\ \E row \in Webhook \ {hooks[h]} : Change(h, row)

Delete(h) == hooks[h] # NoHook /\ Change(h, NoHook)

-----------------------------------------------------------------------------
Done ==
  /\ \A e \in Events : handling[e].pc \in {"over", "lost"}
  /\ UNCHANGED vars

Handle(e) == FindHooks(e) \/ PostArrives(e) \/ PostFails(e)

Next ==
  \/ \E e \in Events : Emit(e) \/ Handle(e) \/ QueryFails(e)
  \/ \E h \in Hooks : Create(h) \/ Update(h) \/ Delete(h)
  \/ Crash
  \/ Done

Spec == Init /\ [][Next]_vars

\* The query is answered, and a post ends with the timeout at the latest.
FairSpec == Spec /\ \A e \in Events : WF_vars(Handle(e))

-----------------------------------------------------------------------------
(* Properties.                                                             *)

\* A hook is sent an event at most once, and only if between the emission and
\* the reading of the hooks it was active and took all events, however edits
\* and other events interleave.
SentOnceToReady ==
  \A h \in Hooks :
    /\ Ext!IsInjective(received[h])
    /\ \A i \in DOMAIN received[h] : h \in ready[received[h][i]]

\* Every hook that has taken all events since an event was emitted has its
\* turn with it, whatever becomes of the posts to others, unless the query
\* fails or the process dies.
EveryHookHasItsTurn ==
  \A e \in Events, h \in Hooks :
    <<h, All>> \in wanted[e]
      ~> h \in tried[e] \/ <<h, All>> \notin wanted[e] \/ handling[e].pc = "lost"

\* "Find webhooks subscribed to this event", with subscriptions such as
\* 'task.created': a hook that is subscribed by name from the emission to the
\* reading of the hooks is posted to.
SubscribersAreTried ==
  \A e \in Events :
    handling[e].pc = "over" => \A p \in wanted[e] : p[1] \in tried[e]
=============================================================================
