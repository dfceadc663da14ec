---------------------------- MODULE DigestGossip ----------------------------
(***************************************************************************)
(* What the reconcile loop hands to gossip: digests of its views through   *)
(* DigestPublisher, notifications of changed resources through             *)
(* ResourceNotifier, both forwarded to the cluster node by a third task    *)
(* (gateway/reconcile/leader.rs, gateway/gossip, cluster/node.rs).  All    *)
(* the channels are bounded, and the loop awaits its sends.                *)
(*                                                                         *)
(* A view gives each resource its generation, 0 if it is absent; a digest  *)
(* is the view it was computed from.  The term of a digest only counts     *)
(* publications and is left out.  The receivers of both topics are stubs,  *)
(* so no peer's digest or notification ever reaches the two tasks: the     *)
(* drift check finds no peers and a local notification is never debounced. *)
(* ForceReconcile and TriggerReconcile events are received and dropped.    *)
(***************************************************************************)
EXTENDS Naturals, Sequences

CONSTANTS
    Resources,
    MaxGenerations, \* bound of the changes of resources
    ViewCap,       \* 16: views waiting for the publisher
    LocalCap,      \* 64: notifications waiting for the notifier
    EventCap,      \* 16 and 64: events waiting for the forwarder
    GossipCap,     \* 64: messages waiting for the node's broadcast tasks
    MaxOutages     \* bound of the changes of the gossip layer's health

Absent == 0
NoView == [r \in {} |-> Absent]

VARIABLES
    world,     \* the resources as the API server has them
    lpc,       \* the step of the reconcile loop
    view,      \* the view of the tick in progress
    prev_view, \* the view of the previous tick
    todo,      \* notifications the tick still has to send
    view_rx, local_rx,               \* channels to the publisher and the notifier
    pending,                         \* the publisher's digest waiting for the debounce
    sending,                         \* the digest the publisher is sending
    recent,                          \* published less than MIN_PUBLISH_INTERVAL ago
    notifying,                       \* the notifier's step
    digest_events, notify_events,    \* channels to the forwarder
    gateway_state_tx, gateway_notify_tx, \* channels to the broadcast tasks
    published, \* the digest that the gossip layer broadcast last
    healthy,   \* the gossip layer takes messages
    changes, outages

dgvars == <<world, lpc, view, prev_view, todo, view_rx, local_rx, pending, sending, recent, notifying,
            digest_events, notify_events, gateway_state_tx, gateway_notify_tx, published, healthy, changes, outages>>
loopvars == <<lpc, view, prev_view, todo>>
taskvars == <<pending, sending, recent, notifying>>
eventvars == <<digest_events, notify_events>>
sentvars == <<gateway_state_tx, gateway_notify_tx, published>>
envvars == <<world, healthy, changes, outages>>

DGInit ==
    /\ world \in [Resources -> {Absent, 1}]
    /\ lpc = "tick" /\ view = NoView /\ prev_view = NoView /\ todo = {}
    /\ view_rx = <<>> /\ local_rx = <<>>
    /\ pending = NoView /\ sending = NoView /\ recent = FALSE
    /\ notifying = "select"
    /\ digest_events = <<>> /\ notify_events = <<>>
    /\ gateway_state_tx = <<>> /\ gateway_notify_tx = <<>>
    /\ published = NoView
    /\ healthy \in BOOLEAN /\ changes = 0 /\ outages = 0

-----------------------------------------------------------------------------
\* The reconcile loop.

\* A tick that reads the resources.  One that fails changes nothing.
ReadView ==
    /\ lpc = "tick"
    /\ view' = world
    /\ lpc' = "publish"
    /\ UNCHANGED <<prev_view, todo, view_rx, local_rx, taskvars, eventvars, sentvars, envvars>>

\* diff_view: resources that are new or of another generation.  Deletions are not reported.
DiffView(old, new) ==
    {r \in Resources : new[r] # Absent /\ (old = NoView \/ old[r] # new[r])}

\* Mutant of PublishDigest: the digest is published only when the view has changed.
PublishDigestOnChange ==
    /\ lpc = "publish"
    /\ view = prev_view \/ Len(view_rx) < ViewCap
    /\ view_rx' = IF view = prev_view THEN view_rx ELSE Append(view_rx, view)
    /\ todo' = DiffView(prev_view, view)
    /\ lpc' = "notify"
    /\ UNCHANGED <<view, prev_view, local_rx, taskvars, eventvars, sentvars, envvars>>

\* publish_digest, which waits for room, after every tick.
PublishDigest ==
    /\ lpc = "publish"
    /\ Len(view_rx) < ViewCap
    /\ view_rx' = Append(view_rx, view)
    /\ todo' = DiffView(prev_view, view)
    /\ lpc' = "notify"
    /\ UNCHANGED <<view, prev_view, local_rx, taskvars, eventvars, sentvars, envvars>>

\* handle_notify for one of the changed resources, which waits for room.
HandleNotify ==
    /\ lpc = "notify"
    /\ Len(local_rx) < LocalCap
    /\ \E r \in todo :
          /\ local_rx' = Append(local_rx, r)
          /\ todo' = todo \ {r}
    /\ UNCHANGED <<lpc, view, prev_view, view_rx, taskvars, eventvars, sentvars, envvars>>

EndTick ==
    /\ lpc = "notify"
    /\ todo = {}
    /\ prev_view' = view
    /\ view' = NoView
    /\ lpc' = "tick"
    /\ UNCHANGED <<todo, view_rx, local_rx, taskvars, eventvars, sentvars, envvars>>

-----------------------------------------------------------------------------
\* DigestPublisherHandle::run.

\* A received view replaces a digest that still waits.
TakeView ==
    /\ sending = NoView
    /\ view_rx # <<>>
    /\ pending' = Head(view_rx)
    /\ view_rx' = Tail(view_rx)
    /\ UNCHANGED <<loopvars, local_rx, sending, recent, notifying, eventvars, sentvars, envvars>>

\* maybe_publish on the publisher's timer, up to the send.
MaybePublish ==
    /\ sending = NoView
    /\ pending # NoView
    /\ ~recent
    /\ sending' = pending
    /\ pending' = NoView
    /\ UNCHANGED <<loopvars, view_rx, local_rx, recent, notifying, eventvars, sentvars, envvars>>

\* The send, which waits for room, and the time stamp of the publication.
SendDigest ==
    /\ sending # NoView
    /\ Len(digest_events) < EventCap
    /\ digest_events' = Append(digest_events, sending)
    /\ sending' = NoView
    /\ recent' = TRUE
    /\ UNCHANGED <<loopvars, view_rx, local_rx, pending, notifying, notify_events, sentvars, envvars>>

\* MIN_PUBLISH_INTERVAL has passed.
IntervalOver ==
    /\ recent
    /\ recent' = FALSE
    /\ UNCHANGED <<loopvars, view_rx, local_rx, pending, sending, notifying, eventvars, sentvars, envvars>>

-----------------------------------------------------------------------------
\* ResourceNotifierHandle::run and handle_local: a broadcast, then a trigger, each of which
\* waits for room.
TakeLocal ==
    /\ notifying = "select"
    /\ local_rx # <<>>
    /\ local_rx' = Tail(local_rx)
    /\ notifying' = "broadcast"
    /\ UNCHANGED <<loopvars, view_rx, pending, sending, recent, eventvars, sentvars, envvars>>

SendNotify ==
    /\ notifying \in {"broadcast", "trigger"}
    /\ Len(notify_events) < EventCap
    /\ notify_events' = Append(notify_events, notifying)
    /\ notifying' = IF notifying = "broadcast" THEN "trigger" ELSE "select"
    /\ UNCHANGED <<loopvars, view_rx, local_rx, pending, sending, recent, digest_events, sentvars, envvars>>

-----------------------------------------------------------------------------
\* The forwarder of run_reconcile_loop and the broadcast tasks of the cluster node.

TrySend(channel, msg) == IF Len(channel) < GossipCap THEN Append(channel, msg) ELSE channel

\* Mutant of ForwardDigest: the forwarder waits for room instead of dropping the message.
ForwardDigestWaits ==
    /\ digest_events # <<>>
    /\ Len(gateway_state_tx) < GossipCap
    /\ gateway_state_tx' = Append(gateway_state_tx, Head(digest_events))
    /\ digest_events' = Tail(digest_events)
    /\ UNCHANGED <<loopvars, view_rx, local_rx, taskvars, notify_events, gateway_notify_tx, published, envvars>>

ForwardDigest ==
    /\ digest_events # <<>>
    /\ gateway_state_tx' = TrySend(gateway_state_tx, Head(digest_events))
    /\ digest_events' = Tail(digest_events)
    /\ UNCHANGED <<loopvars, view_rx, local_rx, taskvars, notify_events, gateway_notify_tx, published, envvars>>

\* Triggers are dropped.
ForwardNotify ==
    /\ notify_events # <<>>
    /\ gateway_notify_tx' = IF Head(notify_events) = "broadcast"
                            THEN TrySend(gateway_notify_tx, "notify")
                            ELSE gateway_notify_tx
    /\ notify_events' = Tail(notify_events)
    /\ UNCHANGED <<loopvars, view_rx, local_rx, taskvars, digest_events, gateway_state_tx, published, envvars>>

BroadcastState ==
    /\ healthy
    /\ gateway_state_tx # <<>>
    /\ published' = Head(gateway_state_tx)
    /\ gateway_state_tx' = Tail(gateway_state_tx)
    /\ UNCHANGED <<loopvars, view_rx, local_rx, taskvars, eventvars, gateway_notify_tx, envvars>>

BroadcastNotify ==
    /\ healthy
    /\ gateway_notify_tx # <<>>
    /\ gateway_notify_tx' = Tail(gateway_notify_tx)
    /\ UNCHANGED <<loopvars, view_rx, local_rx, taskvars, eventvars, gateway_state_tx, published, envvars>>

-----------------------------------------------------------------------------
\* Users change a resource: a new generation, or a deletion.
ChangeResource ==
    /\ changes < MaxGenerations
    /\ changes' = changes + 1
    /\ \E r \in Resources : \E g \in {Absent, world[r] + 1} \ {world[r]} : world' = [world EXCEPT ![r] = g]
    /\ UNCHANGED <<loopvars, view_rx, local_rx, taskvars, eventvars, sentvars, healthy, outages>>

\* The gossip layer stops taking messages, or takes them again.
Outage ==
    /\ outages < MaxOutages
    /\ outages' = outages + 1
    /\ healthy' = ~healthy
    /\ UNCHANGED <<loopvars, view_rx, local_rx, taskvars, eventvars, sentvars, world, changes>>

LoopStep == ReadView \/ PublishDigest \/ HandleNotify \/ EndTick

DGNext ==
    \/ LoopStep
    \/ TakeView \/ MaybePublish \/ SendDigest \/ IntervalOver
    \/ TakeLocal \/ SendNotify
    \/ ForwardDigest \/ ForwardNotify
    \/ BroadcastState \/ BroadcastNotify
    \/ ChangeResource \/ Outage

\* Every task runs when it can: select! chooses among its ready branches at random.
DGFairness ==
    /\ WF_dgvars(LoopStep)
    /\ WF_dgvars(TakeView) /\ WF_dgvars(MaybePublish) /\ WF_dgvars(SendDigest) /\ WF_dgvars(IntervalOver)
    /\ WF_dgvars(TakeLocal) /\ WF_dgvars(SendNotify)
    /\ WF_dgvars(ForwardDigest) /\ WF_dgvars(ForwardNotify)
    /\ WF_dgvars(BroadcastState) /\ WF_dgvars(BroadcastNotify)

-----------------------------------------------------------------------------
\* However long the gossip layer takes no messages, the reconcile loop comes round again and
\* again: its awaited sends never wait for ever, so that a wedged cluster node cannot stop
\* the proxy from following its resources.
LoopNeverStalls == []<>(lpc = "tick")

\* Once the resources and the gossip layer are steady, the last digest broadcast is the one of
\* the resources as they are, although messages are dropped when the channel to the node is
\* full: a digest is not only published when the view changes.
DigestFollows == <>[]healthy => <>[](published = world)

=============================================================================
