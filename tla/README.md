# TLA+ models of strongSwan's IKE daemon

This directory holds a verification development for the core logic of charon,
the IKE daemon of strongSwan: TLA+ modules translated from the C sources, TLC
configurations that check them on small instances, and TLAPS proofs of what
matters most. Paths below are relative to the repository; `libcharon/...` and
`libstrongswan/...` and `libipsec/...` stand for the directories below `src/`.

## 1. Inventory

| Component | State | Operations | Interacts with | Hard part | What makes it correct |
|---|---|---|---|---|---|
| Exchange engine, `libcharon/sa/ikev2/task_manager_v2.c` | message IDs and packets of the exchange it initiates and of the one it responds to, queued/active/passive tasks | `queue_*`, `initiate`, `retransmit`, `process_message`, `flush`, `reset` | tasks (`build`, `process`), scheduler (retransmit jobs), sender, IKE_SA | lost, duplicated and reordered packets, fragments, timeouts racing answers, deferred exchanges, both peers active at once | exchanges happen exactly once, in order, with the right answer; tasks are not forgotten; retransmission is bounded |
| IKE_SA, `libcharon/sa/ike_sa.c` | state, hosts, keys, CHILD_SAs, conditions | `initiate`, `delete`, `rekey`, `roam`, `send_dpd`, `process_message` | task manager, kernel, bus | deletes, rekeyings and roaming at any time | both ends agree about the IKE_SA and its CHILD_SAs |
| Tasks, `libcharon/sa/ikev2/tasks/` | per exchange | `build`, `process`, `migrate` | IKE_SA, CHILD_SA, kernel | collisions of rekeyings and deletes, failures half-way | both ends keep the same CHILD_SAs, none leaks, none is doubled, traffic flows throughout |
| IKE_SA manager, `libcharon/sa/ike_sa_manager.c` | hash table of entries with waiters and flags, half-open counters, init hashes | `checkout*`, `checkin`, `checkin_and_destroy`, `flush`, `check_uniqueness` | every job | threads that wait for an entry another one removes | one thread per IKE_SA, no use after free, no lost wakeup, counters agree |
| Processor and scheduler, `libstrongswan/processing/` | job queues per priority, threads and their counters, heap of timed jobs | `queue_job`, `execute_job`, `set_threads`, `cancel`, `schedule_job`, `flush` | all jobs | priorities with reserved threads, requeueing, cancellation | due jobs run, no job is lost or doubled, high priorities are not starved, the shutdown ends |
| Receiver, `libcharon/network/receiver.c` | cookie secrets, counters | `receive_packets` | IKE_SA manager, processor | secret rotation, half-open limits | honest initiators get through |
| Controller, `libcharon/control/controller.c` | jobs with listeners | `initiate`, `terminate` | IKE_SA manager, bus | waiting for an outcome with a timeout | every caller gets an answer |
| Trap manager, `libcharon/sa/trap_manager.c` | installed traps, pending acquires | `install`, `acquire`, `flush` | kernel, IKE_SA | events during an acquire | one acquire per trap, none stuck |
| Virtual IP pools, `libcharon/attributes/mem_pool.c` | online/offline leases | `acquire_address`, `release_address` | attribute manager | reassignment | no address twice |
| libipsec, `libipsec/` | sequence numbers, ESP replay window, SAs with waiters, policies | `encrypt`, `decrypt`, `checkout_by_*`, `add_sa`, `del_sa`, `query_sa`, `flush_sas`, expiry jobs | kernel-libipsec, scheduler | window edges, removing an SA others wait for | a packet is accepted at most once, no use after free |
| IKEv1, `libcharon/sa/ikev1/` | legacy engine | | | | |
| Crypto, encoding, credentials, plugins | | | | | data transformations, not modelled |

The operations run concurrently: jobs of the processor's threads check an IKE_SA
out of the manager, work on it alone, and check it in again. `PROJECT.json` lists
the hazards, each with the line where it bites and the properties that would
catch it.

## 2. Modules

**`TaskManager`** is the exchange engine at both ends of one established IKE_SA.
Peer `i` is the original initiator, `r` the original responder; the model starts
right after IKE_AUTH, with its last response still cached and in the network.
Every handler of a peer is one action, because an IKE_SA is checked out while a
job works on it.

| Variable | Code |
|---|---|
| `initiating`, `responding` | the structs of the same name: `mid`, `type`, `retransmitted`, `deferred`, `packets`, `defrag`; `mid`, `hash`, `prev_hash`, `packets`, `defrag` |
| `queued`, `delayed`, `wakeups` | `queued_tasks` with each task's time, and the `initiate_tasks` jobs scheduled for the delayed ones |
| `active` | `active_tasks` (one task per exchange on an established IKE_SA) |
| `jobs` | retransmit jobs, by message ID |
| `route` | does `ike_mobike.c:transmit()` find a path? |
| `net` | packets sent; they stay, so each may be received any number of times in any order or never |
| `state`, `cause` | IKE_SA state, and why it was destroyed |
| `sent`, `served`, `done` | history of exchanges started, served and completed |

| Action | Code |
|---|---|
| `InitiateChild`, `ControllerInitiate` | `ike_sa.c:initiate`, for an acquire and from `controller.c:initiate_execute` |
| `DeleteChildSa`, `SendDpd`, `Roam`, `DeleteIkeSa`, `ForceDelete` | `ike_sa.c:delete_child_sa`, `send_dpd`, `roam`, `delete_`; with `queue_*` and `initiate` of the task manager |
| `RetransmitJob` | `retransmit_job.c:execute` and `retransmit` |
| `DelayPasses`, `InitiateTasksJob` | time of `queue_task_delayed`; `initiate_tasks_job.c:execute` |
| `RouteChange` | the path `roam` and `transmit` look up |
| `HandleRequest` | `process_message` of a request: `is_retransmit`, `parse_message`, `handle_fragment`, `process_request`, `build_response` |
| `HandleResponse` | `process_message` of a response: `handle_fragment`, `process_response`, `initiate` |

Abstractions: a packet carries the task it is about; SHA-1 is injective on
packets; a request body is valid, contains an unknown critical payload, does not
parse, or names a CHILD_SA that is gone; answers are success, INVALID_KE_PAYLOAD,
TEMPORARY_FAILURE or the two error notifies; timers are jobs that may run at any
time; the probing phase of MOBIKE, which bounds its tries separately, uses the
same bound; message IDs do not wrap.

**`ExchangeChannel`** is the abstract specification: in each direction a serial,
exactly-once sequence of request, service and completion.

**`MCTaskManager`** gives the constants their values. **`TaskManagerProofs`**
holds the theorems.

**`IkeSaManager`** is the IKE_SA manager, used by worker threads and, at shutdown,
by the main thread. The table has one row and one segment, as by default
(`ikesa_table_size` and `ikesa_table_segments` are 1). What happens under the
segment's mutex is one action, except for what goes through the row entry by
entry and may wait: then `lock` names the thread.

| Variable | Code |
|---|---|
| `entry`, `row`, `total` | `entry_t` structs, `ike_sa_table[0]` from the front, `total_sa_count` |
| `lock`, `blocked` | the mutex between two actions; threads asleep on the condvar of the entry they are at |
| `rng`, `nextSpi`, `draining` | `get_spi()` works, the SPI it returns next, `new_entries_driveout_threads` |
| `initHash`, `halfOpen` | `init_hashes_table`, `half_open_table` |
| `sa`, `thread`, `jobs` | state, role and host of the IKE_SAs; where each thread is in its job; how many it had |

| Action | Code |
|---|---|
| `TrackInit` | `process_message_job_create` and `track_init` for an initial request |
| `CheckAndPutInitHash`, `CheckLimit`, `PutInit` | `checkout_by_message` of an initial request: `check_and_put_init_hash`, the limit, `put_entry` |
| `CreateNew`, `CheckoutNew` | `create_new`, `checkout_new` |
| `StartCheckout`, `Lookup`, `Acquire`, `Resume` | `checkout`, `checkout_by_message` and `checkout_by_id` up to, inside and after the wait in `wait_for_entry` |
| `Checkin` | `checkin`, also of an IKE_SA that never was in the table |
| `CheckinAndDestroy`, `DriveOut`, `ResumeDriveOut`, `DestroyEntry` | `checkin_and_destroy`: close the entry, drive the others out, destroy it without the lock |
| `Flush`, `FlushMark`, `FlushRow`, `FlushEntry`, `FlushResume` | `flush` |

Abstractions: a signal wakes any one sleeper, and there are no spurious wakeups
(every wait is in a loop that would absorb one); updates of the half-open
counters and init hashes, which have locks of their own, are part of the adjacent
action, with whose other effects they commute; of the IKE_SA states only created,
connecting and anything later are told apart; SPIs are unique. After a condvar was
freed under `flush()`, whose behaviour is then undefined, the model leaves that
thread asleep. **`MCIkeSaManager`** gives the constants their values;
**`IkeSaManagerProofs`** holds the theorems about the table and who owns its
entries, **`IkeSaManagerTablesProofs`** those about condvars, init hashes and
half-open counters, which rest on the former.

**`ConfigCheckout`** is `checkout_by_config()` of the same manager, with which the
controller and the trap manager get an IKE_SA for a config. Threads that want the
same config take turns; `config_checkouts`, `threads` and `working` are the entries
of the code, `woken` the threads a signal of the one `config_condvar` has ended the
wait of, `todo` the IKE_SAs a thread has yet to look at. `CheckoutByConfig`,
`WakeUp`, `Look`, `Create` and `Leave` are the parts of the function between two
points where it lets go of a mutex; `Checkin` is what the caller does with the
IKE_SA. The table is abstracted to the configs, owners and usability of its IKE_SAs.
**`ConfigCheckoutProofs`** holds the theorems.

**`ChildRekey`** is what `child_rekey.c`, `child_delete.c` and `child_create.c` do at
both ends with the CHILD_SAs of one IKE_SA. It is built on what `TaskManager` and
`ExchangeChannel` establish: a peer has one request outstanding, it is processed
exactly once, and the two directions are independent.

| Variable | Code |
|---|---|
| `peer[p].half` | per CHILD_SA: `state`, `outbound_state`, `rekey_sa` of `child_sa.c`; one identifier stands for the SPIs of both ends |
| `peer[p].active`, `queue` | active and queued tasks: a rekeying with its stage, flags and collision, a delete with its entries, a creation |
| `peer[p].linger`, `retry` | the jobs that destroy rekeyed SAs and that try a rekeying again |
| `peer[p].out`, `resp` | the request outstanding, the response under way |
| `faults`, `causes` | failures so far; history of why the peers may be without a CHILD_SA or disagree |

| Action | Code |
|---|---|
| `Rekey`, `Delete`, `Expire` | `rekey_child_sa_job.c`, `delete_child_sa_job.c` (a user's delete, a hard expiry) with `initiate` |
| `RetryJob`, `DestroyJob` | `schedule_delayed_rekey`, `child_delete_destroy_rekeyed` |
| `ReceiveRequest` | `process_r` and `build_r` of the three tasks, `collide`, `handle_delete`, `conclude_rekeying`, then `initiate` |
| `ReceiveResponse` | `process_i` with `handle_collision`, `ignore_child_sa_failure`, `handle_local_failure` and the deletes it continues with, then `initiate` |

Nonces are abstracted to their order. A task `collide()` left dangling
(`child_rekey.c:1146`) makes the comparison of nonces a choice. The loops of
`initiate()`, of a delete over its SPIs and of `destroy_and_reestablish()` over its
entries are recursive functions. Of the answers a peer may give, NO_ADDITIONAL_SAS is
left out, which strongSwan never sends, and TEMPORARY_FAILURE for a creation, which it
sends only while it rekeys or deletes the IKE_SA; the delayed retry that follows is
part of `TaskManager`. **`ChildRekeyProofs`** holds the theorem.

Jobs rekey and delete CHILD_SAs at any time, and anything may fail at any time, as in the
code. Some properties do not survive all of it, so `causes` remembers three situations
and these properties say that they are about behaviours without them:

| In `causes` | Situation | What fails after it |
|---|---|---|
| `"early delete"` | a user deletes an SA while a peer awaits the response to the creation of it, or to a rekeying that collided with it (not `Known`) | `SasAgree`, `NoLeftovers` |
| `"early rekey"` | an SA is rekeyed, or expires, while an end still works on the exchange that made it (not `Settled`) | `SasAgree`, `NotLost`, `NoDuplicate`, `NoGap`, `PeerReceives` |
| `"failed collision"` | an installation fails while both peers rekey the same SA (`Colliding`) | the same, `CollisionTaskExists`, `LinksAreMutual` |

`ExchangesMatch` and `Settles` hold in all behaviours.

**`EspContext`** is a sender and a receiver of ESP packets: `next_seqno`,
`verify_seqno`, `set_authenticated_seqno` of `esp_context.c`, with `Encrypt`,
`DecryptAuthentic` and `DecryptDamaged` for `encrypt` and `decrypt` of `esp_packet.c`.
The window is the ring of bits of the code, with all differences taken modulo the
range of `u_int`. **`AntiReplay`** is its abstract specification, a set of accepted
numbers and a highest one; **`EspContextProofs`** proves the refinement.

**`IpsecSaMgr`** is `ipsec_sa_mgr.c` with the threads that use it. `sas`, `locked`,
`awaits_deletion` and `waiting_threads` are those of the code; `live`, `stamp` and
the `id`s remember which entries were freed and which address was used again; a member
of `Spis` is a SPI with the hosts of its SA, as most lookups compare, and `Number` its
32-bit SPI alone, which is all that `sa_expired()` and `allocate_spi()` compare;
`owner` is the thread that keeps the mutex between two entries in `flush_entries()`.
`CheckoutBySpi`, `CheckoutByReqid`, `UpdateSa`, `QuerySa`, `Checkin`, `GetSpi`,
`AddSa`, `DelSa`, `Destroy`, `FlushSas`, `FlushEntry`, `FlushEnd`, `SaExpired` are the
operations, `WakeUp` and `WakeUpRemove` the threads that continue after a wait, and
`Use` what an IPsec thread does with an SA (`expire`, `update_usestats`).
**`IpsecSaMgrProofs`** holds the theorems.

**`Processor`** is the thread pool and the scheduler, with **`EventHeap`** for the
scheduler's binary heap. The loops of the heap are given without recursion: `Trail` is
the least set of positions with the one where the loop starts and, with each position,
the one it goes to next; `Settle` moves the events along it.

| Variable | Code |
|---|---|
| `desired`, `total`, `working`, `queue` | `desired_threads`, `total_threads`, `working_threads`, `jobs` |
| `at`, `worker`, `lock` | where each thread is; its `job` and `priority`; the thread that keeps the mutex from requeueing its job to the next `get_job()` |
| `status`, `requeues` | status of a job, "new" before it is submitted and "done" once it is to be destroyed; the bound on requeueing |
| `heap`, `now`, `deadline`, `fired` | `heap`, the monotonic time, until when `schedule()` waits, the event it has in hand |
| `stage` | how far the daemon's start and shutdown got |

| Action | Code |
|---|---|
| `GetJob`, `WaitForJob`, `EndThread` | `process_jobs`, `get_job`, the start of `process_job` |
| `FinishJob`, `DestroyJob`, `RequeueJob`, `RescheduleJob` | the end of `process_job`, by requeue type |
| `Fire`, `HandOver`, `WaitForEvent`, `TimedOut` | `schedule` of the scheduler |
| `Restart`, `EndRestart` | `restart`, after the scheduler's thread was canceled in its wait |
| `QueueJob`, `ExecuteJob`, `ScheduleJob` | `queue_job`, `execute_job`, `schedule_job*` |
| `Start`, `Stop`, `Cancel`, `Terminated`, `Flush` | `set_threads` as `daemon.c` calls it, `cancel` and its wait, `flush` |

The scheduler's mutex needs no variable: no thread acquires another mutex while it
has it (`scheduler.c:174`). `ProcessorCreate` and `SchedulerCreate` are the initial
state. `restart()` never starts a new thread, as only `cancel()`
cancels threads and sets `desired_threads` to 0 before. **`ProcessorProofs`** holds the
theorems about the counters and reservations, the jobs, the queues, the heap and the
signals. `MC*` modules give the constants their values.

## 3. Runs

Deadlock is not checked: an IKE_SA with nothing to do, or destroyed at both ends,
stops, and so do threads that had all their jobs.

| Run | Module | Bounds | Shows |
|---|---|---|---|
| `core` | `TaskManager` | two tasks per peer, delayed retries included, one retransmission, both may delete the IKE_SA, with fairness | `ChannelSpec` (refinement), `DeletesAgree`, `NoForgottenTask`, `TasksEnd`, `TypeOK` |
| `faults` | `TaskManager` | one task per peer, both may delete the IKE_SA, CREATE_CHILD_SA in two fragments, bodies valid/critical/unparsable, MOBIKE paths that come and go, with fairness | `ExchangesAgree`, `CachedResponseAnswers`, `ExchangeIsDriven`, `DeleteEnds` |
| `deferral` | `TaskManager` | two tasks per peer, no retransmission | a disagreement, section 5 |
| `manager_flush` | `IkeSaManager` | two threads with two jobs each, the shutdown, an initial request and its retransmits, two hosts, two IKE_SAs, `ikesa_limit` 1 | `Ownership`, `HalfOpenAgrees`, `InitHashAgrees`, `NoWaiterOnFreed` |
| `manager_shutdown` | `IkeSaManager` | two threads, one IKE_SA, the shutdown | a disagreement, section 5 |
| `manager_live` | `IkeSaManager` | three threads, one of them with two jobs, an initial request, two IKE_SAs, with fairness | `Exclusive`, `NoLostWakeup`, `JobsEnd` |
| `config_checkout` | `ConfigCheckout` | four threads, two configs, two IKE_SAs, one call each, with fairness | `OneIkeSaPerConfig`, `NoLostWakeup`, `CallsReturn` |
| `rekey_collide` | `ChildRekey` | two jobs at `i`, one at `r`, of rekey, delete and expiry, at any time; one failure of any kind; five CHILD_SAs per initiator; with fairness | `ExchangesMatch`, `SasAgree`, `NotLost`, `NoDuplicate`, `NoGap`, `PeerReceives`, `Settles` |
| `rekey_leftover` | `ChildRekey` | one job at `i`, two at `r`, three CHILD_SAs per initiator, no failure | a disagreement, section 5 |
| `esp_replay` | `EspContext` | window of 3, sequence numbers modulo 9 | `AtMostOnce`, `ImplementsAntiReplay` (refinement) |
| `ipsec_manager` | `IpsecSaMgr` | three threads, two addresses, three SAs added one after the other | `Exclusive`, `NoUseAfterFree`, `FlushIsComplete`, `NoLostWakeup` |
| `thread_pool` | `Processor` | three threads with one reserved for critical and one for high priority, three jobs of different priority, one of them cancelable, one requeueing, time up to 1, with fairness | `CountersAgree`, `ReservedThreads`, `JobInOnePlace`, `OnTime`, `NoLostWakeup`, `WorkEnds` |

Why the bounds suffice:

- `TaskManager`: the window has size one, so two tasks per peer reach every
  combination of an old exchange (whose packets stay in the network), a current one
  and a queued one, in both directions at once; a task may take several exchanges
  (INVALID_KE retry, MOBIKE follow-ups, delayed retries). One retransmission separates
  the first transmission, a repeated one and giving up. Two fragments suffice for a
  partial message. With two tasks one waits behind another, and a creation that is
  refused comes back as a second. A refused creation beyond `MaxTasks` counts as lost.
  `TasksEnd` was also checked with three tasks per peer and no retransmission, where a
  retry waits behind another task (45,290 states).
- `IkeSaManager` and `IpsecSaMgr`: three threads are one that has an SA, one that
  waits for it and one that comes after, removes or enumerates; two entries make an
  enumerator pass one over, a third addition reuses an address. A second job lets a
  thread come back to an IKE_SA it checked in. `Exclusive` and `NoLostWakeup` of
  `IkeSaManager` were also checked with two jobs for each of three threads (6.2 million
  states). `IpsecSaMgr` was also checked with
  four threads and two additions (1.3 million states).
- `ConfigCheckout`: a signal meant for a thread of one config can be taken by one of
  two that wait for the other config while the fourth works. Also checked with three
  threads of two calls each (1.0 million states).
- `ChildRekey`: one rekeying at each end is a collision; the second job at `i` rekeys,
  deletes or lets expire the outcome, or the old SA, in the middle of it. The
  safety properties were also checked with two jobs at each end and no failure (1.5
  million states).
- `EspContext`: jumps within, to the edge of and beyond the window, three times around
  the ring, and the end of the range.
- `Processor`: with three threads one is left for jobs of medium and low priority, so
  that one of these has to wait for the other. A heap of three events has both children
  when the third is inserted; `RemoveFirst` then works on two, so the branch for the
  right child is covered by the proof only.
  Also checked without liveness for times up to 2 (1.4 million states).

Fairness:

- `core`, `faults`: weak fairness of the retransmit jobs, of the passing of time and of the
  `initiate_tasks` jobs, because the scheduler hands every due job to the processor.
  Nothing is assumed about the network or the users, so the liveness properties hold
  even if the peer is never heard of again. `TasksEnd` excludes deferred exchanges:
  only a roam event or another task resumes one.
- `manager_live`, `config_checkout`: every thread keeps running, and the work on an
  IKE_SA comes to its end; mutexes are free again and again because no thread sleeps
  while it holds one. Which sleeper a signal wakes is not assumed to be fair.
- `rekey_collide`: weak fairness of messages, which are retransmitted until they are
  answered, and of the jobs that destroy rekeyed SAs; written out in `FairSpec` as "no
  message or job is pending again and again, or again and again one is processed".
- `thread_pool`: threads run, jobs return, time passes, the daemon starts and a shutdown
  that began goes on. Nothing has to be submitted and the daemon need not stop. Jobs
  are only promised to end if enough threads could be created (`EnoughThreads`).

## 4. Proofs

All theorems hold for every value of the constants that satisfies the named assumption
of the component's module, which TLC evaluates in every run. Each proof follows the same
pattern: an inductive invariant, a lemma per action (or per group of actions with the same
effect) that shows the action keeps it, and a last step that combines them. The inductive
invariants were checked with TLC on the instances of section 3 first. `MessageIdsInStep`,
`ClosedWhileDraining` and `RingIsWindow` are parts of these invariants that only a theorem
states; the runs check what follows from them.

### Exchange engine (`TaskManagerProofs`)

For all numbers of tries, tasks and fragments, offered types and bodies, from
`ConstantAssumption`:

- `AgreementCorrect`: `Spec => [](TypeOK /\ ExchangesAgree)`; `TypeCorrect`: `TypeOK`
- `Completion`: `CompletedWereServed`; `ExactlyOnce`: `ServedWereSent`
- `MessageIds`: `MessageIdsInStep`
- `Refinement`: `Spec => ChannelSpec`
- `TasksKept`: `NoForgottenTask`; `ExchangesDriven`: `ExchangeIsDriven`
- `DeletesCorrect`: `DeletesAgree`
- `CachedResponses`: `CachedResponseAnswers`

`ExchangesAgree` is the first inductive invariant. Whether a response completes the right
exchange depends on what is in the network, so it says what the network may hold:
requests of a peer carry the task it started under their message ID, responses the answer
the other peer gave under theirs; the exchange in progress is the last one started, its
buffer holds that request, and the two message IDs equal the numbers of completed and
served exchanges. The central lemmas are `InitiateAgrees` (what `initiate()` does in all
places it is called from), `ServesStep` and `ResponseMatches` (a response with the
expected message ID is the answer to the exchange in progress).

The refinement rests on it. A step of a peer appends at most one exchange to its `sent`,
and in addition at most one to its `done`, or instead at most one to its `served`
(`NextHistory`); `ExchangesAgree` before and after the step then gives the guards of
`ExchangeChannel`'s actions (`ChannelStep`).

The other properties have invariants of their own on top:

- `KeptGoing` adds to `NoForgottenTask` and `ExchangeIsDriven` that a delayed task has an
  `initiate_tasks` job that has not run yet: without it the delay could pass with nobody
  left to look at the queue.
- `DeletesInOrder` adds to `DeletesAgree` that whoever sent a delete is no longer
  established and whoever served one has destroyed the IKE_SA, and that deletes have a
  valid body; otherwise a delete under way could be answered by a peer that keeps its
  IKE_SA.
- `CachesAgree` ties the buffers of the responder together: the packets, the hash they were
  sent for and the fragments collected so far belong to one message ID, unless a response
  has overwritten the hash (section 5). `FirstFragment` shows by counting that a complete
  message includes the fragment whose hash is remembered.

### IKE_SA manager (`IkeSaManagerProofs`, `IkeSaManagerTablesProofs`)

For any finite set of threads and any number of IKE_SAs, messages and jobs, with or without
a shutdown, from `ManagerAssumption`:

- `OwnershipCorrect`: `Ownership`
- `MutualExclusion`: `Exclusive`
- `DrainedTableIsClosed`: `ClosedWhileDraining`
- `WorkersWaitOnLiveEntries`: `NoWaiterOnFreed`, which is about worker threads
  (`flush()` may wait on a freed entry, section 5)
- `WakeupsKept`: `NoLostWakeup`
- `HalfOpenCorrect`: `HalfOpenAgrees`; `HashesCorrect`: `InitHashAgrees`

`Exclusive` is not inductive: that nobody else gets an IKE_SA that is checked out
depends on its entries naming the owner, on nobody pointing to an entry that was
freed or reused, and on `waiting_threads` being the number of threads in the wait.
The subtle case is the shutdown: an entry `flush()` drops from the row while its
IKE_SA is checked out comes back as a second entry when the IKE_SA is checked in.
`Ownership` therefore says that of two entries of an IKE_SA neither can be
acquired, that lost entries are closed, and that one `checkin()` created has no
owner. It has six parts (`LockOwner`, `RowIsSound`, `EntriesAreSound`,
`PointersAreSound`, `OwnersAreSound`, `FlushIsSound`). The lemmas `MoveOnly`,
`PutStep` and `EntryStep` show once that moving a thread, inserting an entry and
writing an entry that is alive keep all of them; most actions are instances.
`RowPut`, `RowRemove` and `RowDrop` are about the row as a sequence.

`Signals` strengthens `NoLostWakeup`. A thread that was driven out of an entry and still
holds the mutex is awake at the entry but will wake nobody, so it must not count as the one
that attends the sleepers (`Attended`); and an entry that is checked out needs a thread
that really works on its IKE_SA (`OwnersExist`), which in turn needs that an IKE_SA has one
entry until `flush()` closes the table. `Books` strengthens the other two: hashes and
half-open marks are held by entries that are alive (or by the thread that is about to
insert one), a hash stays with the entry it was put for, and the counters are the numbers
of such entries and of requests under way, over finite sets.

### Checkout by config (`ConfigCheckoutProofs`)

For any finite set of threads and any configs and IKE_SAs, from `ConstantsAssumption`:

- `NoSecondIkeSa`: `OneIkeSaPerConfig`
- `SignalsSuffice`: `NoLostWakeup`
- `EntriesCounted`: `threads` is the number of callers for a config, and the entry is there
  as long as there are any: it is freed with the last one and no earlier

`CheckoutInv` adds that one caller at a time searches for a config (`Turns`) and that the
search has not yet passed over an IKE_SA it could have used (`Ahead`). For the wakeups,
`Worked` adds that a config marked as worked on has a thread that works on it, and that a
woken thread is one in the wait. There is one condvar for all configs and the signal of a
thread that is done may wake one that wants another config; that one goes back to sleep
only because yet another thread works for it, which is still to signal.

### ESP contexts (`EspContextProofs`)

For every window size and range of sequence numbers that satisfy `WindowAssumption`:

- `TypeCorrect`: types, and that the outbound counter does not cycle
- `RingCorrect`: `RingIsWindow`
- `TakenAtMostOnce`: `AtMostOnce`
- `ContextsImplementAntiReplay`: `Spec => AntiReplay!Spec` under the refinement mapping

`RingIsWindow` is the inductive invariant: the bit of every number inside the window
says whether that number was authenticated. It rests on the ring index being congruent
to the sequence number, which survives the wrap of unsigned arithmetic only if the
window size divides the range; `WindowAssumption` says so and is stronger than the
comment "multiple of 8" (`esp_context.c:28`). 128 and 2^32 satisfy it.

### SAs of libipsec (`IpsecSaMgrProofs`)

For any finite set of threads and any addresses, SPIs and number of additions, from
`ConstantsAssumption`:

- `SasExclusive`: `Exclusive`
- `EntriesOutliveUsers`: `NoUseAfterFree`
- `FlushCorrect`: `FlushIsComplete`
- `WakeupsKept`: `NoLostWakeup`

The four depend on each other, so there is one invariant, `ManagerInv`. That an entry is
freed under nobody needs that it has one remover, which closed it before it waited
(`OneRemover`), and that `waiting_threads` is the number of threads in `wait_for_entry()`
(`Counted`). That a flush is complete although other threads take entries out of the list
while it waits needs that every entry it has not closed yet is at or behind the one it is
at (`FlushProgress`), in the order of insertion (`Stamps`). `find_first()` is a choice of
the newest entry; that it exists is `GreatestNat`.

### Processor and scheduler (`ProcessorProofs`)

For any number of threads and jobs, any priorities, reservation and delays, from
`ConstantsAssumption`:

- `CountersCorrect`: `CountersAgree`
- `ReservationsKept`: `ReservedThreads`
- `JobsKept`: `JobInOnePlace`
- `SchedulerOnTime`: `OnTime`
- `JobSignalsSuffice`: `NoLostWakeup`

`PoolInv` adds to the first two that threads are in excess only while the pool shuts down
and that there are none before the start. Actions are sorted by their effect on the
counters (`Quiet`, `Leave`, `Take`, `GiveUp`), each with a lemma. `TakeReserved` is the
heart: `get_job()` compares what is missing for higher priorities with a number of idle
threads that includes the asking one, so that one thread less still covers what is missing;
if nothing is missing it needs that the asking thread itself is idle, which is
`CountersAgree`.

`JobsInv` is the invariant of the other two: queues without duplicates and with jobs of
their priority, a heap in order with one event per job, threads that have a job of their
own exactly while they execute one (so that only one is at the scheduler's), an event in
hand only between `Fire` and `HandOver`, and statuses that say where a job is. `OnTime` is
part of it: the wait ends with the first event of the heap, which is the earliest as the
heap is ordered (`TopFiresFirst`), and `WakeScheduler` ends the wait when an event is added.
That the two loops of the heap keep its order and its events, for heaps of any size, is
shown without induction: on the trail of a loop positions have a rank that grows, a set of
ranks has a least and a greatest element (`HasLeast`, `HasGreatest`, from the
well-foundedness of inclusion on finite sets), and so the trail is a chain with one end
(`TrailChain`, `TrailShape`), the events move along it one to one (`SettlePermutes`), and
`InsertKeeps` and `RemoveKeeps` compare each event with its parent.

`NoLostWakeup` is not inductive either: a job is signaled to one thread, which may find
that it is for a reserved thread and sleep again, while another job becomes takable because
a third thread ends its own. `EnoughAwake` counts instead: while a thread sleeps, at least
as many threads are on their way to `get_job()` as there are jobs that `get_job()` would
hand out one after the other (`Takable`, a number made of the lengths of the queues, the
threads missing for each priority and the idle ones). Queueing a job adds at most one to
it and wakes one thread (`TakablePush`), giving up a job adds at most one and that thread
looks again (`TakableGiveUp`), taking one removes one (`TakableTake`), and a thread that goes
to sleep found none (`TakableExact`). `CanceledLate` and the second half of `Awake` are
about the shutdown, where `cancel()` broadcasts.

### CHILD_SA rekeying (`ChildRekeyProofs`)

For any number of CHILD_SAs, jobs and faults of any kind, at any time:

- `ExchangesMatched`: `ExchangesMatch`

While a peer waits for a response it serves rekeyings and deletes of the same CHILD_SAs,
which write into its active task: they note what was deleted (`handle_delete()`) or what
collides (`collide()`), queue tasks and destroy SAs. The theorem says that none of this
pulls the task from under the response: the response is processed by the task that built
the request, in the stage that expects it and for the same CHILD_SAs, and it is of a kind
that `process_i()` handles. The second part is that no task stays behind in the queue with
no request under way.

The inductive invariant is `Matched`: each peer has finished initiating (`Finished`), that is,
it waits for a response with a task in the right stage (`Waiting`) or has nothing left to
do, and a response under way
answers the request it is for. It needs the types of the tasks and of the queue (`Sound`),
as a rekey task has fields that a delete does not. Lemmas go along the call graph:

- `Follows(s, t)`: the exchange in `t` is the one in `s`. All helpers on CHILD_SAs and all
  handlers of requests have it (`Calm` is the stronger form for those that touch no task).
- `Built`: `build_i()` in each of the stages sends the request of that stage, or ends the
  task.
- `InitiateFinishes`: `initiate()` calls itself while tasks end without a request. A round
  that sends nothing makes the number of tasks smaller (`Load`, `StepProgress`), so the rounds
  the model allows are enough, for a queue of any length.
- `Open`: after `process_i()`, whatever the response and whatever collided, the peer has no
  request out and its task is ended or is in a stage that `build_i()` knows.

The loops are recursive functions over the number of rounds. The library's theorems about
these take an operator, so existence and value are shown directly: a set of numbers has a
least element (`HasLeast`), which gives induction for a set (`Induct`).

### Only model-checked

- Liveness (`DeleteEnds`, `TasksEnd`, `JobsEnd`, `CallsReturn`, `Settles`, `WorkEnds`), which
  is outside the prover's reach.
- `SasAgree`, `NotLost`, `NoDuplicate`, `NoGap` and `PeerReceives` of
  `ChildRekey`. They are about both peers at once and partly about the state after all
  exchanges: an inductive invariant has to say, for each stage at one end, each stage at the
  other and each combination of requests and responses under way, what either peer has of
  each CHILD_SA involved. `ExchangesMatch` is the part of it that each end keeps by itself.
- The disagreements of section 5, which are violations.

## 5. Disagreements found

With a run, whose counterexample is the case described:

- `deferral`: a deferred MOBIKE exchange makes `initiate()` return INVALID_STATE,
  which `process_message()` and the controller take for a failure; they destroy
  the IKE_SA the deferral was meant to keep.
- `manager_shutdown`: `flush()` waits on the condvar of an entry whose thread is in
  `checkin_and_destroy()`; that thread only counts threads in `wait_for_entry()` and frees
  the entry under `flush()` (`ike_sa_manager.c:2482`).
- `rekey_leftover`: a CHILD_SA kept "until a concurrent active rekeying is concluded (the
  rekey task is responsible for destroying the CHILD_SA)" (`child_delete.c:276-277`) stays
  for good if the peer deletes both the old CHILD_SA and its own replacement before the
  rekeying fails: `ignore_child_sa_failure()` destroys only the old one
  (`child_rekey.c:824-831`).

Not among the runs, but TLC shows the case with the configuration named:

- `TM_hash.cfg` of `MCTaskManager`, `PrevHashIsOfRequest`: `handle_fragment()` hashes
  responses into the buffer used to recognise retransmitted requests
  (`task_manager_v2.c:1488`); a response between two fragments of a request makes its
  retransmissions unrecognisable.
- `TM_cache.cfg` of `MCTaskManager`, `PacketsAreOfPreviousMid`: rejecting an unknown
  critical payload advances the message ID but keeps the older cached response
  (`task_manager_v2.c:1650`). `CachedResponseAnswers` holds all the same: a retransmit
  of the rejected request is ignored, not answered wrongly.
- `CR_dangling.cfg` of `MCChildRekey`, `CollisionTaskExists`: `collide()` keeps a
  passive task that failed without adopting it; `build_response()` destroys it and
  `lost_collision()` reads it later (`child_rekey.c:1140-1148`).
- `CR_links.cfg` of `MCChildRekey`, `LinksAreMutual`: if the initiator fails to install
  its CHILD_SA in a collision, `build_delete_recreate()` destroys the old one while the
  peer's still refers to it (`child_rekey.c:216-226`), although `child_sa.h:507-509`
  says that the link is set in both.
- `IM_query.cfg` of `MCIpsecSaMgr`, `QueryAnswers`: `query_sa()` returns SUCCESS without
  setting the counters if the entry it found is being removed (`ipsec_sa_mgr.c:612`).
  `update_sa()` does the same without updating (`:590`).
- `IM_expiry.cfg` of `MCIpsecSaMgr`, `JobFindsItsSa`: an expiry job cannot tell an entry
  from a later one with the same address and the same SPI (`ipsec_sa_mgr.c:351`).

Reached by the models, without a configuration of its own:

- An IKE_SA put into the table while `flush()` waits is lost from the row when `flush()`
  removes the entry it waited for, as the enumerator takes that for the first one
  (`ike_sa_manager.c:697`): `total = Len(row)` fails with `Shutdown = TRUE`.
- With early deletes or rekeyings, or with an installation that fails during a collision,
  the peers may end with different CHILD_SAs, and with the latter two with none or two
  (section 2, `causes`). The code and its documents promise nothing about these cases.
- With hard expiries at both ends at the same time, both may recreate the CHILD_SA.
- `execute_job()` queues a job if a thread is idle, although that thread may be reserved
  or be about to take another job, while `processor.h:81-84` says that the job is
  executed by an idle thread or else by the caller.
- `EspContext` needs a window size that divides 2^32, not just a "multiple of 8".

## 6. Not modelled

Handshake (IKE_SA_INIT, IKE_AUTH) and `reset()`, rekeying and reauthentication of
IKE_SAs, additional key exchanges, message ID synchronisation, mediation and redirects,
IKEv1, kernel interfaces, cryptography and encoding. Of the IKE_SA manager:
`checkout_by_name` and the enumerators of users, `check_uniqueness` and
`connected_peers`, tables of several rows and segments. Of libipsec: policies, acquires,
the event relay and `destroy()`. Of the CHILD_SA tasks: a failing `install_outbound()`,
`migrate()`, NO_ADDITIONAL_SAS, and in `ChildRekey` the delayed retry of creations. The bulk of the repository (crypto, X.509, plugins, kernel interfaces,
VICI, tools) transforms data or does I/O and has no state machine of this kind.

## 7. Plan

1. (done) `TaskManager`, `ExchangeChannel`, their runs and the agreement proof.
2. (done) `IkeSaManager`, `ConfigCheckout`, and the proof of mutual exclusion.
3. (done) `ChildRekey`; `EspContext` and its refinement proof; `IpsecSaMgr`; `Processor`
   with `EventHeap` and the proof of the reservations.
4. (done) Proofs of the safety properties of `TaskManager` with its refinement, of both SA
   managers, of `ConfigCheckout` and of `Processor` with the heap.
5. (done) Proofs that no wakeup is lost in `ConfigCheckout` and `Processor`, and that the
   exchanges of `ChildRekey` match.
6. The joint invariant of both peers of `ChildRekey`, starting from `Matched`.
7. Modules: IKE_SA rekeying collisions over the structure of `ChildRekey`, the trap
   manager, `mem_pool`, cookies and half-open limits of the receiver, `reset()`.
