# A TLA+ model of se3-mono

`se3-mono` is the Rust monorepo of a competitive robot: `apps/auto_aim` looks at
a camera, tracks an enemy and tells the gimbal where to aim and when to fire;
`apps/locomotion` runs a learned policy that walks and drives the chassis. This
directory holds TLA+ models of its control logic, the TLC runs that check them
and the TLAPS proofs about them. Paths below are relative to the repository;
`rbt_threads.rs` is `apps/auto_aim/src/rbt_threads.rs`, and `rbt_*` paths
without a prefix are in `crates/auto_aim_core/src/`.

## 1. The system

### Auto-aim: nine tokio tasks

```
                 armor:   pre_infer -> infer -> infer_post -> post -> solved -> estimate -> track --+
 pre_process ---<                                                                                   +--> control_loop_250hz
                 energy:  pre_infer -> infer -> infer_post -> post -> solved -> estimate -> track --+         |      ^
      |                                                                                                control_tx   |
      +---- takes and pushes again ------------------------------- feedback_queue <---- can_io_process <-----+      |
                                                                         +------------------------------------------+
```

| part | state | operations | interacts by |
|---|---|---|---|
| `RbtSPSCQueueAsync` (`rbt_infra/rbt_queue_async.rs`) | lock-free ring, `Notify` | `push_latest`, `pop_latest`, `try_pop_latest`, `clear` | every arrow above, capacity 1 |
| `pre_process` | latest feedback | frame: feedback round trip, read the route, resize, push | pushes to one of two pipelines; ends with `IS_RUNNING := false` and the source flags |
| `infer`, `post`, `estimate` (two of each) | frame in hand, route seen, trackers | take, admit, compute, look at the route again, push | queues, router, completion flags |
| `control_loop_250hz` | last snapshots, last feedback and its stamp, route number, two fire controllers | tick: pop, apply feedback to the router, clear on a transition, decide, push | writes the router, the only task that does |
| `can_io_process` | pending head frame | receive a half feedback, pair it, push; send a command | CAN bus |
| `RuntimeRouter` / `ModeContext` | mode, route, transition number | `apply_feedback`, `state` | shared behind a lock |
| `RuntimePipelineCompletion` | one flag per task | set, read | decides who may stop, with `IS_RUNNING` |
| `FireControlController`, `ShotPhaseController`, `EnergyMechanismController` | gates; mode, next slot, hold, cooldown, pulse; time of last shot | `update`, `reset` | inside a control tick |
| detector, solver (`rbt_yolo.rs`, `rbt_solver.rs`, `detected.rs`, `solved.rs`) | none between frames | decode, suppress, filter, group into enemies | inside `post` |
| `RbtHandlerPoll`: enemy selection and one `RbtEstimator` per enemy | selected enemy; state machine, tracked armor, neutral count, fire hold | `update`, `snapshot` | inside `estimate` |
| `YpdAngleTracker` | filter, window of bad measurements, rejections, height samples | `init`, `predict`, `correct` | inside an estimator |
| `EnergyMechanismTracker`, `BigBuffCurveEskf` | mode, blade, history, pending switch; curve | `update`, `snapshot` | inside `estimate` |
| `YawPlanner`, MPC, `FireGateConfig` | last armor chosen; last solution and its reference | `plan`, `solve`, `count_viable_shot_slots` | inside a control tick |
| `rbt_comm_frame.rs` | none | encode, decode | CAN bus |

Hard here: eight latest-wins queues with several writers of the feedback queue;
route transitions that clear queues while six stages keep passing work on;
values read before a computation of tens of milliseconds and used after; a
shutdown that has to reach nine tasks, whatever failed; clocks made of floating
point sums that decide about shots.

Correct means: the newest data wins and none is waited for in vain; work of one
route does not act on another; feedback too old to be true does not permit
fire; no shot without every permission, nor sooner than the rhythm allows; once
running is over, every task ends.

### Locomotion: one loop and what it talks to

| part | state | operations | hard |
|---|---|---|---|
| `LocomotionPolicyRuntime` (`crates/locomotion_core/src/policy_runtime.rs`, `runtime_{cdc,sim,dry}.rs`) | last action, action number, policy memory and whether it is clean, last command | step: sample the command; act, or hold when inactive, timed out or disabled; write; record | serial device or simulator vanishing between any two steps, partial writes |
| `cdc.rs` | file descriptor | `open`, `write_all`, `read` | partial writes, a device that leaves in the middle |
| `protocol.rs` | byte buffer | `feed`, pack and decode | resynchronisation after lost and spurious bytes |
| `policy_io.rs`, `policy_observation.rs`, `ort_policy.rs` | recurrent memory, delay line | build observation, infer, decode action | values that are not finite, from either side |
| gamepad (`crates/se3_input`, `se3_command`, `zoo`) | active pad, toggle, edge memory, height | poll, map, share the last command | disconnects, edges |
| `apps/sim_loop` (Python) | simulation state, latest target, peer | receive in a thread, step, send | restarts of either side, full sockets, datagrams that are lost |
| `se3_ort_ep` | chosen provider | try providers in order | missing libraries, failed registrations |
| telemetry, logs, visualisation | files | write | an error of the disk ends the step |

Correct means: the recurrent policy remembers exactly what the robot was told,
whatever was lost on the way; it acts on no state that is old, disabled or from
another connection; frames are numbered without gaps and announced; a
controller that falls silent ends in a hold and one that comes back is served
again; one press of a button counts once; a frame crosses the link whole or not at
all, and comes out of the parser whatever is around it; no value that is not finite
reaches the actuators.

`PROJECT.json` lists every component with its status, and every hazard at its line.

## 2. Modules

| module | models | composes |
|---|---|---|
| `LatestMailbox` | what a stage may expect of the queue before it (abstract) | |
| `LatestQueue` | the queue at the grain of its atomic operations; refines `LatestMailbox` | instance of `LatestMailbox` |
| `RuntimeRouter` | modes, routes, `ModeContext::apply_feedback` as operators | |
| `FeedbackPath` | MCU, CAN frames, pairing, `feedback_queue`, freshness, control's use | `RuntimeRouter` |
| `CanFrames` | what commands and samples become in their payloads | |
| `AutoAimPipeline` | the nine tasks, transitions, completion, shutdown | `RuntimeRouter` |
| `Detector` | rows of a network to armors of robots, or to a blade | |
| `CostMatrix` | matrices of costs, and what a cheapest assignment is | |
| `Matching` | the Hungarian assignment | `CostMatrix` |
| `ArmorSearch` | the branch and bound over armor identities | `CostMatrix` |
| `EnemyEstimator` | selection of an enemy and the state machine of each | |
| `YpdTracker` | the book-keeping of one enemy's filter | |
| `EnergyTracker` | blades, modes and curve of the energy mechanism | |
| `YawPlanner` | which armor to aim at | |
| `AimControl` | the command of a tick and the shot slots that count | |
| `FireControl` | the decision to fire of one control tick after another | |
| `LocomotionPolicy` | what one control step does to the policy's memory and numbering, as operators over its variables | |
| `PolicyLink` | what a robot is owed by the loop on one link, whatever the transport (abstract) | |
| `LocomotionCdc` | `run_cdc`: the loop over a serial device that comes and goes; refines `PolicyLink` | `LocomotionPolicy`, instance of `PolicyLink` |
| `LocomotionSim` | `run_sim` and the simulation loop, over datagrams; refines `PolicyLink` | `LocomotionPolicy`, instance of `PolicyLink` |
| `PolicyIo` | the values of a step: what is replaced, flagged, refused | `LocomotionPolicy` |
| `FramePort` | what the loop is owed by its port (abstract) | |
| `CdcPort` | `CdcSerial` under `run_cdc`, write by write; refines `FramePort` | instance of `FramePort` |
| `StreamParser` | framing and `StreamParser::feed` | |
| `GamepadCommand` | pad selection, enable toggle, height steps | |
| `ExecutionProvider` | which ONNX Runtime provider a session gets | |
| `MC*` | constants for TLC; three of them put components side by side | |
| `*Proofs` | theorems: one module for each of `LatestQueue`, `AutoAimPipeline`, `FeedbackPath` and `LocomotionCdc`, and one for the components of each of `fire_control`, `target_tracking` (two, the assignments apart) and `locomotion_inputs` |

**LatestQueue.** Items are numbered in the order they are pushed. `Push` /
`NotifyOne` are the two halves of `push_latest`, `TryPop`, `ReadLen`, `Drain`,
`Return` the parts of `try_pop_latest`, `Await` the `notified().await` of
`pop_latest`; `Timeout` is the caller dropping it, `ClearBegin` / `ClearPop` the
loop of `clear`. Every atomic operation of the ring is one step, so every
interleaving the lock-free code allows is there. Since the queue implements the
mailbox, and with one slot a take cannot be divided any further (a later push
only changes what the next take finds), the other modules use one step per push
and take.

**FeedbackPath.** A sample leaves the MCU as head and tail frame, each of which
may be lost; `HeadArrives` / `TailArrives` are `FeedbackPairDecoder::push` and the
push after it; a decoder may also refuse a corrupted pair. `PreTake` /
`PreRepush` are the two queue operations of a frame in
`run_video_preprocess_loop` with the gap between them, `ControlTick` the part of
a tick up to the feedback it hands to the controllers. `Elapse` moves the clock
only when control has run, as its ticker does. The ghosts are when a feedback
was popped, when one was last handed over, and which frames ever arrived.

**AutoAimPipeline.** A task is a record with a program counter, what it holds and
the route it has seen. A frame is its number, mode and the transition number it
was read under. `PreLook .. PreDone` are the frame loop and the three ways it
ends; `WorkerTake`, `WorkerAdmit`, `WorkerFinish`, `WorkerPush` the loop of
`infer` and of `post` (the second look at the route is `Superseded`);
`EstimateLook .. EstimatePush` the estimators; `CtlTick .. CtlReset` the control
loop, whose clear takes one step per queue; `Can*` the sender. `Faults` selects
which failures may happen. Notes a reader may want while comparing:

- `CtlPop` makes its pops and the router's update in one step: no other task
  writes the router, and each pop commutes with what can happen in between.
- Flags only ever go up, so a test of a flag and of an empty queue is one step
  where the code reads the flag first; control reads emptiness first, and there
  (`CtlTick`, `CtlMayStop`) the two are apart.
- The trackers' own state is left out; an estimator may or may not have an answer.
- A command that cannot be serialised is consumed like one that was sent.
- A last snapshot may stay in a track queue, and a last command in
  `control_tx_queue`, when the tasks stop; no property forbids it.

**FireControl.** One step is one tick of the control loop. The controllers
compare a clock with times they stored; the model keeps the time left until each
of them, so its state is finite. The clock is a sum of `f64`: when it should hit
a stored time exactly, the step chooses on which side it falls (`late`).
`PhaseUpdate` is `ShotPhaseController::update`, one disjunct per branch; `Aim`,
`NoPlan`, `NoTarget` are `FireControlController::update`; `EnergyAim` and
`EnergyNoTarget` the energy controller, `RouteChange` the transition branch of the
loop. The gates are inputs: any combination may appear in any tick, and the
number of viable slots is anything the code could count under them.
`burst_active` is left out: it is true exactly in mode Auto. The phase's clock
stands still in a tick without target, which needs no variable, because such a
tick clears every time stored. The energy gap reads the real clock, which is
taken to advance by one period a tick. The ghosts `since` are clocks of their
own, started by what the properties speak of, not by the code's deadlines.

**LocomotionPolicy, LocomotionCdc.** `PolicyStep` is `step_from_state`: the order
of its conditions (`StepReason`), the reset or the inference, and the pair of
packets, whose numbers come from `action_seq` before and after its increment
(`MakeOutput`). An action is named by the number of the target that carries it,
and the policy's memory by how many inferences it holds. `WriteCommand` and
`WriteTarget` are the two writes, each of which may use its budget or fail
(`WriteError`); `ReadStates` drains the kernel's buffer and keeps the last state;
`CheckPort` looks at the device node; `Disconnected` is the arm of `run_cdc` that
retries, and every other error ends in `"failed"`. Time is counted in control
periods; `lag` is how far `next_tick` is behind, so that a loop held up by slow
writes catches up with several steps at once, as the code does. The
environment sends frames of every kind, falls silent, pulls the cable and plugs
it in again; the ghost `wire` is what the controller has received on this
connection. The age of a state is taken before the step and the inference takes up
to `MaxInference` periods after it, during which the state gets older and the loop
falls behind; the code sets no limit, the bound stands for one. One idealisation: a
device node is not back before the loop has noticed that it was gone (`Replug`); a port that was,
with no state in hand, would be read as empty for ever.

**CanFrames.** `EncodeControl`, `EncodeSample` and `Decode`, in the order of
`rbt_comm_frame.rs`, and `Foreign` payloads: rounding and saturation of the angles, and the enums packed
into one byte, with the decoders' refusals.

**Detector.** A box is the set of cells it covers, so overlap is counted
with the code's integers and strict comparison. `Keep` is one turn of the
suppression, on the best of the rest (any of equals), and in `Solve` armors are grouped into
enemies or the blade is chosen.

**CostMatrix, Matching, ArmorSearch.** `Matching` runs the loops of
`hungarian_algorithm` one turn per step: `NextRow`, `Relax` with the shift of the
potentials, `Flip`. `ArmorSearch` runs `visit`, one step per call, per turn of its loop
and per return; the calls on the stack are the first `index` entries of `current`, so no
recursion is needed. Costs are whole numbers and finite. Both end in an assignment that
is compared with every other one.

**EnemyEstimator.** A place stands for where an armor is seen. `Look` is the
look at the route with the reset of a transition, `Frame` the whole of
`RbtHandlerPoll::update`: the selection, then for each enemy `UpdateSeen` or
`UpdateUnseen`, with the next state, the choice of a solution and of an armor, the
neutral grace and the hold after a jump. What a filter tells (unset, young, good) is
open. The ghosts count what the properties speak of: sightings in a row, frames
since a jump, whose armor the filter follows.

**YpdTracker.** One step is one call an estimator makes. Whether a measurement passes a
gate, and whether the window is bad, is open; every count and reset that follows
from it is not: the rejections and the restart of an outpost, the window of the
height phase, the recovery of the geometry with its cooldown.

**EnergyTracker.** `TrackFrame` is `update` with the reset for another mode, the
deferral of a switch and `correct`; `LookEnergy` the look at the route. A sample
either jumps or does not; the curve keeps how many samples it has and of which
blades; of the rate and the direction of the wheel the tracker keeps the mechanisms they
were learned on (`turns`). A switch of blades clears history and curve and keeps rate and
direction on purpose (`retained_rate`, `retained_direction`); a switch of mechanism
clears them all.

**YawPlanner, AimControl.** Angles are whole units on a circle. The planner sees a
robot of three or four armors that turns by its speed and some jitter; ballistics only
decide whether an armor can be hit. `AimControl` unwraps the reference, keeps or drops
the last solution, limits the command, and counts slots over the preview; the
optimiser is external and answers anything.

**LocomotionSim.** `run_sim` in the grain of its sends and receives, the receiving
thread of the simulation, its loop and its send that gives up. Sockets are bounded
queues; each process may end and be started again. It uses the same
`LocomotionPolicy` step as `LocomotionCdc`.

**PolicyLink.** What both transports owe a robot. A link begins (with a handshake or not),
decides a step (`Act` or `Hold`), announces it, delivers it, and ends at any moment; what
was decided and not delivered goes with it. `Act` asks that the policy's memory and the
action it observes are those of the targets this link has delivered. `LocomotionCdc`
maps it to a connection, from the opened port to its loss or the return of `run_cdc`;
`LocomotionSim` to a run, from its handshake to its end. Outside a link the mapping shows
nothing, so the reset that opens a link is checked and what a dead one keeps is not. What
was sent is the ghost `wire` there and the ghost `told` here.

**PolicyIo.** Every float is finite or not, because that is what every guard of the
path asks. A step follows a reading through `policy_observation.rs`, inference,
cleaning, delay and packing, for a dry run and with telemetry too, and ends in one of
the outcomes the code has. The ghost `poisoned` is the truth about the memory.

**CdcPort.** `write_all` one system call per step: some bytes, none, or an error, until
the frame is out or its time is; the device leaves and returns at any moment. `accepted` is
what the other side has of this connection, cut into frames by the refinement to
`FramePort`.

**StreamParser.** `Feed` is the call with what one read returned, and each `Turn` one pass
of its loop: no start in the buffer (`drop_noise`), a header or a frame not all there, a
header refused, a check sum that does not fit, a frame taken. The buffer is always a piece
of what arrived, so it is kept as two places in the stream, `first` and `fed`, and a
message remembers the place of its frame. The header is four bytes, the type and the number
of a message left out; the second test of the start bytes in the loop can never fail after
`find_sof`. The check sum is a constant operator: it may be any function, and takes noise
for a frame as often as it likes.

**ExecutionProvider.** The targets the crate compiles for, the settings, the libraries of
a Jetson, and which providers fail to register or to load the model.

**GamepadCommand.** Every gilrs event updates `active_id` as it happens, since
nothing reads it before `poll` has drained them all. `Sample` is
`GamepadCommandSource::sample`: resolve the pad, map its buttons
(`MapSnapshot`), or fall back. Both directions of a d-pad may be down at once, which
is no direction. `selector` is chosen at the start, an index or automatic, and stays.
Sticks, roll and jump depend on one snapshot alone and are left out. The ghosts say
which press has had its effect, and which pad was read last.

## 3. Runs

| run | question | bounds | distinct states |
|---|---|---|---|
| `latest_queue` | does the queue implement the mailbox, and lose no wake-up? | 2 slots, 5 items | 6.8 10^3 |
| `feedback_path` | when can halves of different samples be joined, can a head be used twice, does silence revoke the permission? | 3 samples, 4 time units, pair timeout 1, stale timeout 2 | 5.8 10^6 |
| `feedback_fresh` (violation) | does fresh mean recently sampled? | 2 samples, 5 time units | |
| `feedback_order` (violation) | does control only move to newer samples? | 2 samples, 5 time units | |
| `pipeline_routes` | what survives a transition? | armor and energy, 2 frames, 2 transitions | 1.2 10^6 |
| `pipeline_shutdown` | does everything end, whatever fails at the start or later? | armor and energy, 1 frame, 1 transition, all faults | 2.6 10^5 |
| `shutdown_hang` (violation) | does everything end without exception, even without failures? | 1 frame, 1 transition | |
| `route_leak` (violation) | does a route change drop all work of the old route? | 1 frame, 1 transition | |
| `target_tracking` | from boxes to snapshots: which boxes stay, are both matchings optimal, when does a filter restart, when may an enemy be fired at, when does the blade change? | 3 rows, matrices up to 3 by 3, 3 enemies in 2 places, 2 blades | 8.8 10^4 |
| `fire_control` | from an armor to a CAN frame: does the aim flutter, is a counted slot on target, do shots keep permission, spacing, hold and cooldown, is the command understood? | the code's own periods; a circle of 72 units for the planner, of 6 for the gimbal | 1.6 10^4 |
| `locomotion_cdc` | is every connection a link of `PolicyLink`, does the policy act on fresh states only, fall back and come back? | timeout 2 periods, numbers modulo 3, 2 frames in the buffer, an inference of up to 2 periods, 3 periods late, 1 failure | 6.0 10^5 |
| `locomotion_inputs` | what reaches the policy from outside: presses (does one count once while one pad is read?), bytes, the simulator (is every run a link of `PolicyLink`?), values, the port, the provider | 2 pads, an index or automatic, 2 heights; 3 segments; 2 starts; 3 frames of 3 bytes | 3.7 10^5 |

In `target_tracking`, `fire_control` and `locomotion_inputs` components that share no
variable stand side by side: the MC module has a variable that names the component a
behaviour is about, and the rest stays as it began. Nothing is lost by this, because
no action of one reads what another writes, and the states of the parts add up
instead of multiplying. The components that do interact are composed inside their
module: sender and receiver in `FeedbackPath`, the tasks in `AutoAimPipeline`,
both processes in `LocomotionSim`.

The type invariants (`TypeOK`, `EnergyTypeOK`) are parts of the inductive invariants of
the proofs, and no run repeats them.

Why the bounds are enough. Two slots are the fewest at which an eviction can
fall into the middle of a drain, five items fill, evict and refill it. Two
samples give a mixed pair, a repeat and an overtaking, the third one that lies between
the halves of a mixed pair; four time units are longer
than a stale timeout that starts at a sample, five allow one more round of `pre_process`. Two transitions let a frame
come back to the route number's own route (there and back again), two frames
let one overtake another in a queue of one. A shutdown needs one frame and one
transition to leave something behind. `fire_control` has no bound besides the
code's constants: its state is finite, and it runs with the periods of
`FireControlController::new()` (4 ms tick, 50 ms slot, -10 ms advance, 20 ms
burst, 40 ms cooldown); only `fire_gap_s` is scaled down, and `MaxSlots` says how many
slots the preview may count. By default the advance is negative, so the first
slot lies at 60 ms, beyond the 50 ms period, unlike what the name of the test
`first_slot_advance_stays_inside_fire_period` suggests; the models allow both.
The planner's unit is 5 degrees, so that its penalty of 10 degrees is more than
a unit of jitter; the gimbal's circle has 6 units, enough for a path that crosses the
turn-around; the horizon of 5 steps holds a slot with its window before it, and one that is
cut off. Angles of the frames lie on both sides of halfway and beyond both ends.

`target_tracking`: three rows are the fewest at which a box overlaps two that do not
overlap each other; matrices of every shape up to three exercise an augmenting path
that moves an earlier row, and a bound that cuts a branch under an id that is free again.
One ordinary enemy, one more and the outpost are one for
each branch of the selection; times are counted past the larger of the waits, and
the grace is the least that is more than one, and the hold is the default, three. Two blades with jumps give every order of odd frames around a
confirmation of two, and a history of three fills and overflows.

`locomotion_inputs`: noise contains half a start, a header of another version, one that is
too long, and headers of frames that are not there with lengths that reach into and beyond
the good frame; one payload is a frame itself; the check sum has three values only, so that
a frame put together by chance does take the bytes of a good one; and the reads cut the
bytes anywhere. A send queue of two fills while one side is slow; two starts give a
predecessor whose target is still in force. Three frames of three bytes let a piece of a
frame be followed by another, were the port kept. Two pads are what a change of pads needs,
and two heights let the d-pad step either way and be clamped at either end.

`locomotion_cdc` needs two frames for one drain to meet both a state and a
malformed frame, three numbers for a wrap between a target and the one before,
two inferences to tell a memory that lost one from one that was reset, and one
failure to separate two connections; the timeout of two periods can be passed
while the loop is on time and while it is late. It runs without `max_steps`, which
would end every behaviour; the proofs cover it. An inference of two periods is as long as the
timeout, so that a state can grow as old again between the test of its age and the writes,
and a loop that is three periods late has met both a slow inference and a slow write.

In `pipeline_shutdown` only one buff is used, so that a result for the other buff
(`Wanted`) is never there to be dropped; to the task that is a timeout. The
proofs cover all modes.

`CHECK_DEADLOCK` is off in `feedback_path` and its two violations, where the
bounded clock stops, and in `target_tracking` and `locomotion_inputs`, where an
assignment, a stream, a run of the program or the choice of a provider is at its end.
In `AutoAimPipeline` the only state without a step would be a hang; `Joined` marks the end of a good shutdown.

**Fairness.** Weak fairness per task and nothing more: tokio polls a task that is
ready, each wait in a stage is a timeout (`pop_latest_until_running`,
`pop_latest_with_timeout`, the ticker, the receive timeout of CAN) or ends with
its data, and a push once begun completes. The video has an end. New samples, new
frames, transitions, clears and failures are never promised. These are the
`FairSpec` of `LatestQueue` and of `AutoAimPipeline`. In `LocomotionCdc` it is
weak fairness of the loop as a whole, one thread that is never blocked for
longer than its poll, an inference, its write budget or its delay before reconnecting; frames,
silence and the cable are never promised. `SilenceEndsInHold` and
`ReconnectsAfterReplug` say in their own premises what they need of the
controller and the port. `SimFairness` is weak fairness of either process, of the receiving thread and of time,
and strong fairness of `Receive`: `next_tick` may be late for a while, in which case the
runtime steps instead of receiving, so taking a datagram is enabled again and again
rather than for good. `PeerReturns` has the premise `[]<>(lag < 0)`: a runtime that is
late in every step never reads its socket, and then neither does it learn anything.

## 4. What disagrees with the documentation

- `feedback_fresh`: `pre_process` pushes a feedback again with every frame and
  the control loop stamps whatever it pops, so a silent MCU stays fresh as long as
  the video runs (`docs/auto_aim/architecture.md:142` promises 500 ms). What does
  hold is checked: the permission does not outlive the last hand-over by more
  than the timeout (`SilenceRevokesPermit`).
- `feedback_order`: the same round trip can replace a newer sample by an older one:
  `pre_process` holds sample 1 while CAN pushes sample 2 and control acts on it; then
  sample 1 is pushed again and control goes back to it.
- `route_leak`: a task that read the route before a transition and pushes after
  the clear brings work of the old route into the new one. What holds is checked
  and proved: nothing else does (`StaleWorkEscapedTheClear`).
- `shutdown_hang`: such work, left in front of an estimator whose pipeline is off,
  is never taken, and the shutdown waits for it forever. What holds is checked:
  nothing else hangs (`ShutdownUnlessStranded`).

Seen while modelling and not made a run; for each, a run checks the property that does hold, or
the property of the run would only repeat the line:

- An estimator whose tracked armor is unknown takes any armor of the frame
  (`rbt_estimator.rs:504`, `is_none_or`), so after an interruption its filter may go
  to another enemy; `docs/auto_aim/architecture.md:182` says one target is selected and
  tracked. What holds is checked and proved: it takes a frame without its own
  (`HandedOverOnlyAfterAGap`).
- The memory of the toggle button is shared by all pads, and with `--gamepad auto`, the
  default, an event of another pad changes the pad: East held on one pad toggles a second
  time when another pad was read in between (`crates/zoo/src/lib.rs:245`, `README.md:78`).
  What holds for either selector is checked and proved: as long as one pad is read a press
  counts once (`OneTogglePerPress`, `OneStepPerPress`); and with an index no other pad is
  ever read, so that it always does (`IndexTogglesOnce`).
- `crates/locomotion_core/src/runtime_constants.rs:38` describes the hold of a disabled
  output as "target held at last valid command", the code holds the measured joint
  positions (`policy_runtime.rs:273`), as the repository's README says.

Behaviour a maintainer may want to know of, none of it contradicted by a document:

- A fire hold longer than three frames would be cut short by one missed frame, which
  clears it: three is what being tracked again takes. The default is three.
- The frame that ends the neutral grace resets the counter of neutral frames, so of a
  long neutral run one frame in every `grace + 1` is filtered.
- Friendly boxes take part in the suppression and can remove an enemy's box under
  them; a robot of which three armors are solved in one frame has no center and is not
  seen in it; the armor configuration's `confidence_threshold` is not used.
- `fit_direction` looks at the first of the two slices of its ring buffer
  (`tracker.rs:401`), so once the ring wraps the direction is fitted to a part of the history.
- `run_sim` ends on any error and takes one datagram per turn; the number of
  observations is compared with the model at the first state only; an infinite answer
  of the policy becomes 0 and is not clipped to the limit; a gravity that overflows when
  normalised is not flagged; an error of the disk under the telemetry ends the step.
- An unknown team byte is read as red, and the extended identifier of a CAN frame is not
  told from a standard one.
- On a Jetson only registration falls back to the next provider; a model that does
  not load on the chosen one ends the program.
- Late steps of the CDC loop are made at once, each an inference; the age of a state
  counts from its parsing; a payload of the wrong size ends the program; a gate that closes
  for a tick clears the pulse of its window. These are choices, seen in the models
  and not judged.

## 5. Proofs

Every safety invariant and every action property that the runs check is a theorem,
with one exception named at the end of this section. All proofs are for every
value of the constants that meets the named assumptions of the modules, which TLC
evaluates in the runs. Most assumptions say that a constant is a number. Those that
say more, and why the code meets them:

- `FireAssumption`: a tick is shorter than a slot period, which the single step of the
  loop to the next slot needs, and a burst is not easier to enter than to hold.
- `SomeIsNearest`: among armors one is nearest, which `min_by` relies on and is true
  of finite sets.
- `YpdAssumption`: two frames' armors are no more than the rejections that restart an
  outpost's filter. `solve_enemy_center` gives up on three armors or more
  (`rbt_solver.rs:232`), and four rejections restart.
- `MatrixAssumption`: the sums of the costs stay below `Infinity`, as those of finite
  costs do.
- `AimAssumption`: the horizon has two steps or more, the tolerance is positive.
- `CanFramesAssumption` and `CanFramesNothing`: zero can be encoded, and what stands for
  a NaN is neither an angle nor a frame.
- `StreamAssumption`: bytes are numbers and a start is two of them, as `SOF` is; of the check
  sum nothing is assumed.
- `CdcAssumption`, `SimAssumption`, `CdcPortAssumption`: queues, buffers and frames are
  not empty, and the stand-ins for "nothing" are told from data.

The theorems, module by module:

- **LatestQueueProofs.** `TypeCorrect`, `WakeupsAreKept`, and `QueueIsAMailbox`:
  each step maps to a step of the mailbox or a stutter. The inductive invariant
  adds to the types that the queue holds consecutive numbers up to the last one
  published, and that a take in progress either has the newest item of its
  beginning in `latest`, still has it among its remaining pops, or has seen it
  evicted by something newer or wiped by a clear. Without the latter the pops
  counted before an eviction could not be shown to reach far enough.
- **AutoAimPipelineProofs.** `TypeCorrect`, `FlagsAreTrue` (a completion flag
  means that running is over, everything before it done and its queue drained), and
  `OnlyEscapedWorkIsStale`. The last needs to know, for each queue, whether the
  clear has passed it, and of each task whether what it holds was in passing
  when the clear began: a queue already cleared can be refilled with old work
  only from such a task.
- **FeedbackPathProofs.** `TypeCorrect`, `SamplesMixOnlyAcrossLosses`, `SilenceAlwaysRevokes`
  and `HeadsArePairedOnce`. The code can join a head to a later sample's tail: frames carry
  no number, and the pairing timeout (`FEEDBACK_PAIR_TIMEOUT_MS`) is all that keeps them
  apart. What is shown is when: only where every frame between the two was lost. The
  invariant speaks of every feedback anyone holds (`Held`): that of the mixed ones
  (`HeldIsUnmixed`), that only what was sent has arrived (`ArrivedWasSent`), and that the
  pending head and the one still to be sent are newer than all of them (`HeadsAreNew`). A step either makes one pair or holds
  nothing new, and so needs only two lemmas. For the permission, `StampFollowsHandoff`
  ties the stamp of control to the last hand-over: a tick that pops nothing sees no
  transition, so it stamps nothing.
- **LocomotionCdcProofs.** `TypeCorrect`, `MemoryMirrorsWire`,
  `TargetsAreNumbered`, `TargetsAreFresh` and `ConnectionsArePolicyLinks`, all from `CdcInvariant`. That the
  policy mirrors the wire holds between steps only, so the invariant says what is
  true during the two writes as well: the memory is one inference ahead of the
  wire, or already reset (`MemoryAhead`); the number being written follows the last
  one and precedes `action_seq` (`Numbering`); the state it was computed from is
  still in hand and at most the inference and one write older than the timeout
  (`FreshOutput`).
  `LostConnection` shows once, for the actions that lose it, that nothing of a
  connection survives. `ConnectionsArePolicyLinks` maps each step to a step of
  `PolicyLink` or a stutter: the mirror is the guard of `Act`, and `MemoryAhead` and
  `Numbering` are what `Announce` and `Deliver` ask. `PolicyMirrorsWire` and
  `FramesInOrder` say directly what the refinement says by its steps; no run repeats them.
- **FireControlProofs**, of three components.
  - **FireControl.** `FireInvariant` and from it `TypeCorrect`,
    `FiringIsAllowed`, `HoldStaysShort`, `SingleShotsAreSpaced` and
    `CooldownIsAlwaysKept`. None of the last three is inductive, since each speaks
    of time since an event while the code only keeps deadlines. The strengthening
    `Rhythm` relates the two: a ghost clock and the stored time that runs against
    it together never fall below (or, for the hold, rise above) what they were set
    to. `UpdateComesTo` reduces the ten branches of an update to three outcomes,
    so that the rhythm is shown three times and not ten. The assumptions used are
    that a tick is shorter than a slot period, which the loop's single step of the
    next slot needs, and that a burst is not easier to enter than to hold.
  - **AimControl.** `CountedSlotsHit`: wherever a slot is counted, the predicted yaw is
    within the tolerance of the true aim, on whichever turn of the circle. The lemmas are
    about angles: `SameDirection` is an equivalence that `Normalized` and `Equivalent`
    respect, and by induction along the horizon the unwrapped reference looks where the
    aim will be (`ReferenceIsTheAim`).
  - **CanFrames.** `WireKeepsTheMeaning`: what a receiver takes from a payload, unless it
    refuses it, is what was said: angles to half a unit or saturated, every enum of the
    packed byte, and the team where one was named; by arithmetic on that byte. This proof corrected `Near`, which had been
    stated for numbers only and is now a case of its own for NaN.
- **TargetTrackingProofs**, of four.
  - **EnemyEstimator.** `TypeCorrect`, `PermitsAreEarned`, `JumpsHoldFire` and
    `HandOverTakesAGap`. `SomeIsNearest` is assumed: among armors one is nearest, which is
    what `min_by` relies on and is true of finite sets. `Sighted` relates the
    states to frames in a row: all but the selected are away, and Track takes two.
    `Settling` says that hold and calm frames make up for each other, except for the two
    frames an enemy that was missed still needs; that exception is why
    `JumpsHoldFire` assumes `HoldFrames <= 3`, and it is false above.
    `HandOverTakesAGap` assumes the numbers are told apart (`~IgnoreSameNumber`), since
    with the switch on the code passes any number of the type.
  - **EnergyTracker.** `EnergyTypeCorrect`, `SamplesAreOfOneMechanism` and
    `SwitchesAreConfirmed`. Rate and direction may outlive a blade but not a mechanism
    (`Pure`). Every frame leaves the samples alone or adds one
    (`UpdateFacts`), and `HistoryFacts` says that a full history loses its oldest. The
    invariant adds that a count of odd frames on the large mechanism is about the sample
    before (`OfferedIsCounted`). `SwitchesAreConfirmed` assumes `Confirm >= 2`; the code's
    constant is 2.
  - **YpdTracker.** `OneBadFrameIsForgiven`: after a frame in which an outpost's filter
    accepted a measurement, one frame alone cannot restart it. The counts of rejections are
    followed through the batch of a frame (`RunUnfolds`, `RunRejects`), which is where
    `2 * MaxObs <= ReinitAfter` is needed.
  - **Detector.** `OverlapsLeaveOne`: of the candidates handed on none overlap, and each
    one that is gone overlaps a kept one that scores at least as well. In the middle of
    the suppression what is left overlaps nothing kept (`LeftApart`).
- **AssignmentProofs.** Both matchings end in an assignment that no other undercuts, for
  matrices of any shape.
  - **Matching.** `CheapestIsFound`, by weak duality. The potentials never exceed a cost
    (`Feasible`), matched columns are tight and unmatched ones have potential zero (`Matched`), and
    from this alone `PotentialsBound` concludes: the sum of the potentials is the cost
    of the assignment and a lower bound of any other. While a row is inserted the
    invariant also describes the tree of columns that were looked at: every column leads
    back to column zero along tight entries in finitely many steps (`WayBack`, with a depth
    that falls on the way), and `minCost` is the least reduced cost from a row of the tree
    (`Frontier`). The flip keeps the depths, so it ends, and it leaves every row but one
    matched (`PathFlips`). That a column is left to go to is a count: the rows of the tree
    are fewer than the columns (`ColumnIsLeft`).
  - **ArmorSearch.** `NothingCheaperIsCut`. `Passed` says which assignments lie behind the
    position of the search: those that turned to a smaller id somewhere along the
    stack. The invariant is that none of them is cheaper than the best found. A cut
    keeps it because costs are not negative (`TotalIsBound`), a return because the
    ids below the innermost call stay (`ReturnPasses`), and when the outermost call
    returns every assignment has been passed.
  - Sums are recursive functions. `SumUnfolds` shows that such a function exists and is what its
    equation says, by `Counting`, which states induction as a fact about a set of
    numbers: the library's induction theorems take a predicate, which the
    provers cannot instantiate, but its theorem on minimal elements does not.
- **LocomotionInputsProofs**, of six.
  - **GamepadCommand.** `TogglesOnce` and `StepsOnce`, for either selector. The
    invariant: a press that has counted, of the pad read last, is the one the edge memory
    holds (`EdgeRemembered`). `EventKeeps` covers all five events: each either resets the
    ghost of the press or leaves no new level. `IndexTogglesOnce` adds that with an index
    every press that has counted is one of the pad read last (`OnlySelected`).
  - **ExecutionProvider.** `BestIsKept` and `ChainNeverRunsOut`: on a Jetson the provider in
    use is the first of the preference that registers, and the chain always has the CPU
    left to try; elsewhere, or asked for by name, a provider is never replaced.
  - **PolicyIo.** `OnlyHoldsAreRefused`, `PoisonIsForgotten`, `FlagsTellTheTruth`: a step's
    frames are refused only for a hold of measured positions that are not finite, a hold leaves
    a clean memory, and the flag is set exactly if something shown was not finite. The
    invariant relates the ghost `poisoned` to the flag the code keeps (`PoisonIsMarked`).
  - **LocomotionSim.** `EveryRunIsAPolicyLink`, from an invariant (`RunInvariant`) that says
    of what a run has sent what `CdcInvariant` says of the wire, and `HandshakeNeverDrives`: the actuators follow no target but one
    made from a state the simulator has sent. Every datagram in flight is one the
    simulator may store (`SafeDatagrams`), however long the queues and however many the
    restarts.
  - **CdcPort.** `PortKeepsItsPromise`: each step maps to a step of `FramePort` or a stutter.
    The bytes accepted are whole frames in order and a part of the next (`InFrames`), and
    counting the whole ones is division with remainder (`Quotient`).

  - **StreamParser.** `EveryFrameComesOut`: what stands in the stream as `pack_message` makes
    it comes out, whatever the stream, the reads and the check sum. `FrameRead` shows that
    the tests of the loop hold at a place exactly when a packed frame is there, so the
    definition of a frame does not repeat the parser. The invariant is that every frame
    before `first` begins within one that was returned (`Scanned`), and that between calls
    a whole frame in the buffer is behind an earlier start (`Rests`): the place
    `find_sof` returns is the first start, and a start that is passed over is no frame.
    From it follow that frames which share no byte are all returned (`ApartNoneIsLost`),
    that how the bytes are divided into reads makes no difference (`ReadsDoNotMatter`,
    there is one scan of a stream), and that a call ends (`TurnsEnd`).

Only model-checked:

- Liveness (`NewestIsTaken`, `ShutdownUnlessStranded`, `SilenceEndsInHold`,
  `ReconnectsAfterReplug`, `PeerReturns`), since the provers handle neither fairness nor
  `ENABLED`.
- `NoFlutter` of the planner: how long a choice lasts depends on the jitter, the
  penalty and the number of armors together, on the instance given.

## 6. Not modelled

- Images, inference, pose solving (`rbt_ippe.rs`), Kalman filters (`rbt_ekf.rs`,
  `rbt_eskf.rs`), curve fits, ballistics and the optimiser of the MPC are
  floating-point algebra with little control, and out of TLC's reach. They appear as a
  choice of the outcomes their callers tell apart.
- Policy input and output beyond what is finite: kinematics, scaling, the delay line.
- Configuration files and error types (`rbt_cfg.rs`, `rbt_err.rs`), logging, viewers, the
  replay of telemetry and the debugging tools: input and output without state.
- In modelled components: the debug window, recordings and image replay of the
  auto-aim tasks; statistics of command stability; opening the CAN socket and the bus's
  own retries; the sticks, roll and jump of a pad; the physics of the simulator.

## 7. Plan

Done, in order of importance: the queue; the feedback path; the tasks, their transitions
and shutdown; the decision to fire; the walking loop over its port; the gamepad; the
estimators and the energy tracker; the simulator's side; the parser, the port and the
values of a step; detection, matching, planner, gimbal and frames; and the proofs of
section 5. Left, should the code change or more assurance be wanted:

1. `NoFlutter` as a theorem, with the relation between jitter and penalty it needs.
2. `YpdTracker` composed with `EnemyEstimator`, in place of the filter's open quality.
