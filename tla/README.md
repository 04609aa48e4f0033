# IoT-AtHome: a TLA+ model

This directory models IoT-AtHome: its concurrent daemons as state machines, its
translations and policies as operators. TLC checks the models on small instances,
TLAPS proves the main safety properties for every size. Paths are relative to the
repository; `crates/` is left out of them.

## 1. The system

A home hub of several Rust daemons that talk over NATS, gRPC and MQTT, and a web
panel.

| Component | State it keeps | Operations | Talks to |
|---|---|---|---|
| plugin supervisor (`iot-plugin-host/src/supervisor.rs`) | crash records in a sliding window, the back-off sleep, the `.dead-lettered` marker | load, wait for the task, clean up, back off, dead-letter, clear the marker | runtime, MQTT broker handle, operator |
| plugin runtime (`runtime.rs`, `lib.rs`) | one task with a Wasm store and a bounded mailbox per incarnation | load, init, deliver a message, shut down, trap | guest exports, host calls |
| plugin host MQTT (`mqtt.rs`, `component.rs`) | routing table, refcount per filter under an async mutex, request channel, event loop | subscribe, publish, unregister, unsubscribe, dispatch, prune | mosquitto, mailboxes |
| capabilities and ACL (`capabilities.rs`, `mqtt_acl.rs`, `manifest.rs`, `iot-cli/src/mosquitto.rs`) | the installed and the loaded manifests, the ACL file and what the broker read of it | check a host call, cover filters, regenerate, reload | host calls, mosquitto |
| bus, net and log host calls (`component.rs`) | a response that is being streamed | publish, http, log | NATS, the web, audit log |
| audit log (`iot-audit/src/lib.rs`) | the file, tail number and hash under an async mutex | open, append, verify | registry, engine, plugin host |
| registry (`iot-registry/src`) | SQLite tables | upsert, delete, get, list; the watcher's touch, look-up, auto-register | gateway, NATS, audit log, history |
| history (`iot-history/src`) | one table | record, range, prune | watcher, gateway, `iotctl` |
| automation engine (`iot-automation/src`) | rules, idempotency claims with a TTL | match, evaluate, claim, fire, dead-letter | NATS, audit log, `iotctl rule` |
| gateway (`iot-gateway/src`) | key cache, WebSocket streams | verify a token, REST, replay and then live messages | registry, NATS, OIDC issuer |
| bus (`iot-bus/src`) | none between calls | connect, publish, last-state replay, JWTs | NATS, JetStream |
| voice (`iot-voice/src`, `iot-voice-daemon/src`) | channel of frames, wake detector, capture window | audio callback, pipeline, parse, dispatch, speak | microphone, piper, NATS |
| `iotctl` (`iot-cli/src`) | plugin directories, trust root, rules | install, uninstall, list, bootstrap, mint-user, rules, prune | the host, the broker, through files |
| adapters (`plugins/`) | none | name a device, publish its entities | MQTT, NATS |
| panel (`panel/src`) | one live connection and its timers | connect, reconnect, display | gateway |

What is hard in it:

* **Plugin host.** Guests inside host calls, supervisors that clean up after them,
  the event loop and the dispatch it runs share the MQTT state. The routing table
  has a synchronous lock, the refcount an async mutex that is held over a broker
  call, mailboxes and request channel are bounded and both are awaited. A plugin
  may crash and come back under the same name while any of these is half done.
* **Supervisor.** A window that is pruned lazily and lost with the host, a marker
  that survives it.
* **Audit log.** One append is three awaits and then an update of memory; it can be
  left at each of them by an I/O error, a caller that goes away, or a crash.
* **Registry.** Handlers commit, then read without a transaction, then audit, then
  notify, and can be cancelled at each await, beside the bus watcher.
* **Engine.** Messages wait while one rule after the other acts; a firing may fail
  half-way, keeps its claim, and its publishes may come back as messages.
* **Gateway.** Subscription, count and batches of a replay are from different
  moments. Requests that meet an expired key cache fetch side by side.
* **Panel.** A failed connection raises an error and a close, and each schedules.
* **Provisioning.** Commands write file by file and undo nothing, while the host
  loads from the same directory; a bootstrap may be killed half-way.
* **Access.** Covering is decided on filters and never sees a topic; installed
  manifest, loaded manifest, ACL file and loaded ACL change at different times.
* **Voice.** Nobody pulls frames while the pipeline transcribes: what waits in the
  channel is stale, and what came after it was dropped.

What makes each one correct: a crash loop ends and stays ended until somebody
clears it; routes, refcount and session agree and no call hangs; a log that verifies is
complete; one row per device, no message lost without a reason, no answer torn the
wrong way, no deletion audited that did not happen; one firing per message and TTL,
each audited or dead-lettered for what it was; no state lost between replay and live
messages; a plugin hears what its manifest grants and the broker keeps nothing of it
back; a directory is the work of one install and credentials fit the broker; a command
was said in one go; an old key stops being trusted; the panel comes back unless it is
refused for good.

## 2. Modules

State machines:

| Module | Models | State and steps |
|---|---|---|
| `Supervisor`, `CrashTracker` | `supervise`, `on_crash`, `clear_dead_lettered`, host start; the window and `backoff` | one `pc` per directory; `Tick` ages records and sleeps |
| `MqttHost` | `MqttRouter`, `MqttBroker`, `spawn_eventloop`, the plugin task, the host calls, the clean-up of `supervise` | an action per await: `CountSubscriber` / `SendSubscribe` or `RefuseSubscribe`, `DispatchNext` / `DispatchDone`, ... |
| `FilterWire` | what the refcount promises: decisions one at a time, each on the wire before the next | `Join`, `Leave`, `Tell`, `Refuse`, `Lose`; `MqttHost` implements it |
| `AuditLog` | `open`, `append`, `verify` | the file as lines, garbled or unterminated perhaps; faults `Abandon`, `TornWrite`, `Crash` |
| `Registry` | `upsert_device`, `delete_device`, `BusWatcher::handle`, `DeviceRepo` | `pc` and `call` per task; a row and its child rows carry the number of the write that made them; `ReadRow`, then `ReadPart` once per query |
| `Engine` | `run`, `on_message`, `claim_idempotency`, `fire`, `record_firing`, `dead_letter` | two queues, the message in hand, the rule and action it is at, the claims with their times |
| `GatewayStream` | `handle_socket`, `last_state`, `last_state_wildcard` | `stage` of the handler, retained messages, subscription, cursor, what the client shows |
| `Gateway`, `Panel` | bearer middleware and key cache, the REST statuses, the handshake of `/stream`; `openStream` on top of it | `req` per request; `socket`, `timers`; the issuer turns its keys |
| `Access`, `Capabilities` | the checks of every host call, `net.http`, `regen-acl`, the broker's reload | installed, loaded, generated and reloaded grants; matchers in `Capabilities` |
| `Provision` | install, uninstall, bootstrap, mint-user, each killed anywhere, and the host that loads | a file's content is the number of the run that wrote it; `plan` is what is left to write |
| `Voice` | audio callback, energy wake detector, pipeline | a frame says whether dropped frames lie before it |
| `Readings`, `History`, `Adapters` | a reading from an adapter over the watcher to the history table; queries and prunes | `bus`, `devices`, `rows` |

Operators:

| Module | Models | Checked by |
|---|---|---|
| `Adapters` | names, entity catalogs, the constructors of subjects, `parse_device_subject` | `MCRegistry`, and in `Readings` |
| `RegistryReads` | rows and what is read of them, `get`, `list` and its stream | `MCRegistry` |
| `Rules` | rule files, compilation, triggers, payload decoding, CEL values, templates, dry run | `MCEngine` |
| `Bus` | configuration, connection, trace context, headers, a plugin's `bus.publish` | `MCGatewayStream` |
| `Tokens` | JWTs and what verification looks at, identities, credentials, `plugin list` | `MCProvision` |
| `VoiceDaemon` | intent grammar, sink subject, modes, WAV files, `say` | `MCVoice` |

`MC*` are the instances for TLC, `*Proofs` the proofs of section 6. Modules have
*mutated forms* of some definitions ("Mutation of ..."): what a plausible bug in
that code would be. Each checked property fails under one of them.

How they compose: `Panel` extends `Gateway`; `Readings` joins adapters, bus, watcher,
registry rows and history; `Provision` has `iotctl` and the host's loads on one
directory; `Access` has the host, `iotctl` and the broker. `Supervisor` and
`MqttHost` overlap on purpose: the first has the policy with time, the second what
exits and restarts do to shared MQTT state, where a restart is simply possible.
`AuditLog` is one log; `Registry` sees it as a best-effort set of entries.

Abstractions that matter:

* Hashes are the history they cover, signatures say who made them over what: both
  are free of collisions. Encodings are modelled where something reads them back.
* Ids have a case: `Ulid::to_string` is upper case, subjects admit lower case,
  SQLite compares ids exactly and `touch_last_seen` ignores case.
* Names, topics, subjects, paths and texts are sequences of what stands between the
  separators; a token of a subject pattern may be text that ends in `>`, since
  `matches_subject` compares bytes and not tokens. Message contents are left out of `MqttHost`; a plugin in `Talkers`
  publishes while it handles a message, as an adapter does. `Granted` is what
  `check_mqtt_subscribe` lets pass, `Malformed` the filters for which the client
  returns an error instead of sending: both are constants, so that a filter may be
  covered by a manifest and yet be refused (`a/#/b` under `a/#`).
* An SQLite transaction takes effect at once or fails. A failure ends the request.
* In `Engine` a rule's condition is the set of messages that satisfy it, any
  evaluation may fail or time out, any publish may fail. `MCEngine` computes that
  set from rule files and messages on the wire (`RulesOnTheWire`).
* A message of `GatewayStream` is its number in the order of publication. The stream
  stores it at the moment the subscription gets it, keeps one per subject, and a
  batch ends when nothing more is there.
* A word of a device name has capitals or not, other characters or not, or is empty;
  a field that is absent is no name at all, which is not the same as an empty one.
* Bytes of a message in `Rules` are what they are as JSON and as an `EntityState`, each
  of which may be nothing. Only placeholders have closing braces: those of a nested
  object that is inserted as JSON are left out.
* A frame of `Voice` may or may not be over the threshold, or quiet: the thresholds
  are moving averages of the room.
* A client may go away at any await of a gRPC handler: tonic drops the future.

## 3. Runs

| Run | Question | Bounds, and why they are enough |
|---|---|---|
| `supervisor` | is the policy kept at every interleaving of crashes, time, operator and host? | one directory (loops share nothing); window 7, threshold 4, back-off 1, 2, 3: two exponential steps, a capped one, the fatal crash, and a window four crashes with their sleeps just fit |
| `mqtt_host` | do routes, refcount and session agree, does a call hang? | two plugins, one filter and a malformed one, one subscribe call per incarnation, mailbox and request channel of one slot, three incarnations: the second plugin shares either filter, or its predecessor's count of it, a restart meets a half-done dispatch, both queues fill at once |
| `panel` | does the connection come back, and does trust in a key end? | one other client, two connections that fail as often as they like (the first error adds the second line, later ones none), two documents of the issuer, cache lifetime 1, fetch timeout 1, time to 3: fetches overlap and answers overtake each other, and the panel's own key is withdrawn |
| `audit_log` | what does a file say about acknowledged appends? | two payloads, four lines: a good entry, a fault, a restart and two appends on top |
| `registry` | do service and watcher keep one consistent table? | two requests, two native devices, two committed upserts, one message on the way and one in hand: a write between the row and any of the three queries for its parts |
| `engine` | does a claim hold its TTL, is each firing accounted for, does the engine move on? | two rules that trigger each other, three actions and one, two messages from outside out of three, TTL 2, time to 4: a claim at its boundary, a duplicate before it, a feedback loop, a failure at each action, a template that never renders |
| `stream` | does replay and then live lose or misorder anything, does it end? | three subjects, a cap of two, batches of one, two slots in the subscription, five messages, one purge: complete and truncated replays, states replaced while they are read, an overflow |
| `access` | does a plugin hear only what it was granted, and all of it? | two plugins, two manifests that overlap, eight filters with each wildcard in each place, topics of one to three levels, one route each, bodies up to twice the cap; the ACL is compared with the manifests in both directions, for reads and for writes |
| `provision` | is a directory always of one install, do credentials fit? | one directory, one trust root, two installs and two bootstraps, each killed at any write, while the host loads and crashes |
| `voice` | is a command in one go, does a cycle end? | the code's own numbers: 16, 100, 4, 50, 250, 12 |
| `mqtt_prune` | "so we don't try again next dispatch", refuted | as `mqtt_host` |
| `history_prune` | "Pass the device ULID exactly as it appears in the registry", refuted | three devices, two readings |

In the passing runs every action fires. `CHECK_DEADLOCK FALSE` is set where the
bounds let the model stop, or the system may (a voice pipeline whose source ended).

The refuting runs: **`LiveRouteKept`**: `dispatch` remembers dead senders by plugin
and filter. A plugin that restarts and subscribes again before `dispatch` gets to its
prune loses its new route. **`PrunedIsGone`**: the history is keyed by the token in
the subject, the name an adapter gave; the registry shows the ULID it minted. A prune
by that ULID deletes nothing.

The operators are compared with what they should be, as named assumptions that TLC
evaluates in the run of the module (of those of `access`, and most of those of
`registry`, theorems say the same for names of any length):

* `access`: `HostAgainstNatsHere`, the host's subject matching against that of NATS, and
  `JoinedIsWider`, where they differ though no wildcard of NATS is involved.
* `engine`: `RulesOnTheWire`, `DryRunAgrees` (with the engine, on every payload it
  takes for JSON), `NumbersKept`, `DecodesWhatItCan` (bytes that only look like JSON
  may still be an `EntityState`), `RenderingEnds` (when no value leads back to its own
  placeholder, and without placeholders that nothing closes only then),
  `RulesDirectory`. The integer bounds are scaled: -2 to 1
  for `i64`, 0 to 3 for `u64`, with a step beyond each.
* `stream`: `HeadersAreContexts` (a header is understood exactly if some context is
  written so), `TraceIsKept` (one trace from the gateway to the watcher),
  `PublisherIsTold`, `OwnCertificate`, `GrantedOrTold`.
* `provision`: `TokensHold`, `TypeNotLookedAt`, `ManifestIsGranted`,
  `NothingMoreGranted`, `InstalledIsListedSo`, `EachIsListed`.
* `registry`: `SafeNamesArrive` and `OddNames` (adapter to watcher),
  `BuiltIsReadBack`, `StoredIsRead`, `WholeOrNothing` (a list is everything or an
  error).
* `voice`: `LampsNamed`, `PolitenessIgnored`, `SubjectsAreSubjects`,
  `SpokenAsSynthesised` (samples survive both WAV codecs), `OtherFormatsRefused`,
  `SelectionMatrix` (the table at `build_wake`), `ModesWithoutBus`.

## 4. Fairness

* `MqttHost`: guests return or trap (fuel bounds them); tokio polls ready tasks. Its
  mutex and channels are first-in first-out, so who waits is served if they become
  free again and again (strong fairness); the rumqttc poll loop serves the socket and
  the request channel. Devices, crashes and lost connections are under no fairness.
* `Engine`: the task is polled; evaluations end (`EVAL_TIMEOUT`), publishes and
  appends return. No fairness for messages or the clock.
* `GatewayStream`: the handler is polled, NATS answers or the request fails, the
  client reads or goes away. No fairness for devices.
* `Panel`: requests are served, the issuer answers or the fetch times out, timers
  fire, and the browser reports what became of a connection. Nothing makes handshakes
  succeed: `PanelComesBack` says that the panel is connected again and again, or its
  page is gone, or handshakes fail without end. A refusal, however many there were,
  does not end the attempts.
* `Voice`: a device that is up keeps calling back, the task is polled, recogniser and
  publish return. No fairness for silence: `CycleEnds` needs the limit on an
  utterance.

## 5. Which property is about what

`PROJECT.json` lists the hazards of the code at their lines, with the properties that
would catch them. Nine have none. In four the code does what the hazard says, and the
models say so (section 7): a prune that leaks a count, the event loop and a plugin
waiting for each other (the properties on hanging except it, and `OneWayToHang` says
that it is the only case), a template that is rendered for ever, and reconnections that
multiply. Five are as the code leaves them: a lost MQTT session is not subscribed again
(the code does not claim it), a torn last line keeps the registry down, the claim's
window is measured at evaluation, a microphone that is lost is only logged, and a list
fails when a device vanishes in the middle of it.

## 6. Proofs

All theorems hold for every value of the constants that satisfies the modules' named
assumptions; those about behaviours are about the specification of their module
(`Spec`, `LogSpec`, `StreamSpec`) without its fairness. Every invariant and every
action property that a passing run checks is a theorem. The inductive invariants were
checked by TLC on the instance of the run before they were proved.

* **`MqttHostProofs`**: `HostTypeCorrect`, `NothingInherited`, `RoutesAreCounted`,
  `HostImplementsWire`, `WireIsCounted`, `OneWayToHang`. The invariant is `TypeOK`, `LockInv` (who
  holds the mutex is between its decision and its request, and the count is what it
  decided on), `FlushInv` (a clean-up drops routes of its own plugin only, and only
  while it runs), `Finite` and `NoInheritedRoute`. The refinement maps the
  request that the lock's holder still owes to `owed`, and the session with all
  requests on their way to `wire`; each action of the host is a step of `FilterWire`
  or a stutter, and the client's refusal is `Refuse`. `WireIsCounted` follows from
  `FilterWire` alone, and is about the filters that are not malformed.
  `OneWayToHang` is the part of `NobodyHangs` that needs no fairness: a state in which
  nothing in the host can go on, with a call or a clean-up still to be done, is that
  of the cycle of waits in section 7. What can go on is written out as guards, which
  TLC found to be what is ENABLED in each state of the instance.
* **`SupervisorProofs`**: `SupervisorTypes`, `DeadLetterHolds`, `ThresholdHolds`,
  `NoRestartStorm`, `ContractHolds`. `WindowKept`: the tracker, pruned, is the history
  of crashes in the window, though `record` prunes only when a crash happens.
  `EachStartCrashed`: every load attempt in the window except the one under way has a
  crash of its own in the window, later than itself (`Paired` matches them from the
  youngest back), so attempts outnumber crashes by one at most; a loop about to be
  entered has empty histories (`Fresh`). `ContractHolds` assumes `MaxInWindow <= 32`:
  `backoff` clamps its exponent at 30, and beyond that the delay is not what its
  comment says. That the powers of two are a function at all is proved with
  `EveryNatural`, induction over the naturals with a set in place of a predicate.
* **`RegistryProofs`**, first part: `RegistryTypes`, `NeverTwice`,
  `AnswersAreForward`, `GhostsAreOfTheDeleted`, `DeletionsAreReal`, `NoneTurnedAway`.
  `Shape` gives types without bounds; `Monotone` says that a row and its child rows
  come from one write and what a half-done `get` has yet to read, in each of
  its queries, is at least as new;
  `Remembered` that a ULID once given belongs to a row or to a delete. `Budget` counts
  the writes that tasks in progress may still make, which keeps `TypeOK` in its
  bounds. `Told`: audited deletions and requests about to audit one are no more than
  the deletes that removed a row. `Seen`: at which points of `handle` the watcher has
  seen the device of its message. `Callers` is assumed finite, to be counted.
* **`RegistryProofs`**, second part, on `AuditLog`: `LogTypes`, `ChainIsIntact`,
  `VerifiedIsComplete`. `HandleInv`: as long as no fault left text behind, the file
  ends where the handle's tail says. `Recorded`: as long as
  every line parses, what was acknowledged is in the file in its order.
* **`RegistryProofs`**, third part, on `Adapters`: `NamesArrive`, `SanitizedArrive`,
  `SubjectsReadBack`. A subject has five tokens, or six if a dot divides the name; a
  word keeps its text when a valid name is lowered, and any word that is not empty becomes
  valid when it is sanitised. An empty name stays empty, and is published and read as
  such.
* **`GatewayProofs`**, first part, on `GatewayStream`: `StreamTypes`,
  `NothingFallsBetween`, `RewindsAreRepaired`, `ReplayIsFinite`. `Followed`: what arrived of a subject
  is followed by what is retained of it. What only the replay can deliver is older
  than what is on the subscription (`Before`), so the replay delivers it first; it is
  not behind the cursor (`Covered`); and it was there when the messages were counted,
  so the replay does not stop before it (`Counted`). `ReplayIsFinite` counts the steps
  left (`StepsLeft`): a batch that brought a message may be followed by another, one
  that brought none may not, so the handler is live or closed after at most
  `4 * HardCap + 6` of its steps, whatever others do meanwhile.
* **`GatewayProofs`**, second part, on `Gateway` and `Panel`: `PanelTypes`,
  `ErrorsAddLines`, `TrustIsBounded`. An answer of the issuer that is on its way is a
  document published when it was asked or later (`Asked`), so what is stored is behind
  by one fetch timeout at most, and is trusted for one lifetime more (`Trusted`,
  `JustStored`). Sockets and timers together are one more than the errors, so
  `connect` always finds a free socket (`SocketLeft`).
* **`EngineProofs`**: `TypeCorrect`, `FiresOncePerWindow`, `SuppressesWithReason`,
  `FiringsAreAccounted`, `EachStepLeadsOn`. `Claimed`: a firing younger than the TTL
  still has its key in the map. `OpenOne`: how many actions of a firing are done at each
  stage. `EachStepLeadsOn` orders the stages of a message by `Phase`: no step goes back
  before the message ends.
* **`AccessProofs`**: `CoversIsSound` says that a filter covered by another matches no
  topic the other does not, for filters and topics of any length;
  `HostAgainstNats` where host and NATS differ on a publish under the same pattern: the
  host is wider only if the last token of the pattern has more before its `>`, a `>`
  stands earlier, or the subject has an empty token; NATS is wider only with a `*`.
  `OnlyGrantedIsHeard` follows from the first and `RoutesNarrow`
  (each route is covered by the loaded manifest); `AclServes` from `GrantsCurrent`,
  which says which of file and ACL is current given what the operator still has to do;
  it bounds reads and writes from both sides.
* **`ProvisionProofs`**: `ProvisionTypeCorrect`, `DirectoryIsOfOneInstall`,
  `PairsAreExplained`, `CredentialsStayValid`. `PlanInv` and `RootInv` say what a
  command still has to write at each of its phases, `DirInv` which install the
  directory is of; `AccountInv` that account, resolver and credentials agree pairwise
  unless somebody forced a new root, and will agree with the bootstrap in progress;
  `LoadInv` that the manifest read is of the directory's install or of one overtaken
  since.
* **`VoiceProofs`**: `VoiceTypeCorrect`, `SaidInOneGo`, `UtteranceIsShort`. `StallsAreCooled`: a gap in the
  channel lies no deeper than the cooldown that is left, so the detector never sees it;
  this needs `Capacity <= Cooldown`, which the code's numbers satisfy (16 and 50) and
  no line of it states. `AheadIsWhole`: while frames are being counted or captured,
  the channel has no gap. `UtteranceIsShort`: after a wake, `MaxUtterance` steps of the
  pipeline and two lead back to listening, or to its end.

`ThresholdHolds`, `SuppressesWithReason`, `WireIsCounted`, `OneWayToHang`,
`EachStepLeadsOn`, `UtteranceIsShort`, `ReplayIsFinite` and the theorems about operators
are proved and no run repeats them as they stand.

Only model-checked: liveness (`NobodyHangs`, `EngineMovesOn`, `GoesLive`, `CycleEnds`,
`PanelComesBack`), which needs fairness and ENABLED and is beyond the prover (for `EngineMovesOn`,
`CycleEnds` and `GoesLive` the variant is proved, and what remains to TLC is that the
steps it counts are taken); that no
state deadlocks in the runs that check for it, for the same reason; and the
assumptions of section 3 on the operators of `Rules`, `VoiceDaemon` (their recursion
is beyond the prover), `Tokens`, `Bus`, `RegistryReads` and `Readings`.

## 7. What the code does that a reader may not expect

Found while modelling; the modules follow the code.

* Plugin host: a filter that the client refuses (a manifest's `a/#` covers `a/#/b`) has a
  route and a count by then, and keeps both. The plugin gets an error "so the plugin can
  decide to retry" (`component.rs`); if it does, or another plugin subscribes the filter,
  the answer is Ok, "broker already subscribed" (`mqtt.rs`), and nothing was ever sent.
* Plugin host: `matches_subject` compares bytes. `device.z>` lets a plugin publish to
  `device.zigbee.x` as far as the host is concerned; NATS, which reads `>` only as a
  token of its own, refuses it to the plugin's credentials.
* Plugin host: when `dispatch` prunes a dead route before the supervisor unregisters
  it, `unregister` does not return its filter and the refcount is never lowered. The
  event loop waits for a mailbox whose plugin may wait for the request channel that
  only the event loop drains; `NobodyHangs` excepts this cycle. The shipped binary
  binds only MQTT (`lib.rs`): `bus.publish` is a dry run, `net.http` answers
  `net.not_configured`.
* Audit log: a cancelled append leaves a whole line, and the next one repeats its
  number. A torn last line makes `open` fail until somebody repairs the file.
* Registry: a minted id is upper case and the subject builder refuses it, so the
  notification of such a device is never sent. `upsert` always sets `last_seen` to
  now. `list` fails with NotFound when a device is deleted between its two reads.
* History: rows are keyed by token without the integration; deleting a device leaves
  them; `prune_older_than` is not scheduled by anything.
* Engine: a duplicate that waits behind others until its twin's claim expired fires
  again. A value that contains its own placeholder is rendered for ever. Triggers are
  compared for equality, though `rule.rs` speaks of patterns. JSON that begins with a
  blank or a `-` reaches a condition as null, while the dry run parses it. A missing
  field is an evaluation error. A placeholder that is not closed swallows all up to the
  end of the next one. The binary's `run` only waits for ctrl-c.
* Gateway: an older key document may be stored over a newer one, and counts as fresh
  from then; a request with a new key may be refused meanwhile.
* Panel: each error adds a line of reconnections that stays; `close` closes only the
  last socket; the token is the one of the first connect, so once its key is withdrawn
  every handshake is refused and the panel goes on trying.
* Adapters: an empty name is a name. `zigbee2mqtt/` is published as
  `device.zigbee2mqtt..contact.state`, an sdr433 envelope with an empty model and an id
  under `-<id>`. The subject builder would refuse the first, and the adapter does not use
  it. What a NATS server does with an empty token is outside the model.
* Tokens: `verify_account_jwt` does not look at the type of a token, only at its key and
  fields. An empty `IOT_NATS_CREDS` is a path that cannot be read.
* `iotctl`: an SBOM severity it does not know ranks above critical by derived order,
  though a comment puts it below low. `plugin list` panics if the trust key becomes
  unreadable in the middle. `install --force` removes the marker of a dead-lettered
  plugin with its directory, and a loop that is still at work may write it anew.
* Voice: a device that goes away is only logged. The comments rely on a supervisor,
  while the daemon's `main` ends. "could you please" is not understood in this order.
  `parse_wav` plays what there is of a cut data chunk, and a cut `fmt ` chunk panics
  (and becomes a join error); -32768 becomes -32767.

## 8. Not modelled

* Loss of power: `flush` of the audit log does not sync; the model has the death of
  the process only.
* A request channel whose receiver is gone (it never is), and `checked_sub` failing
  on platforms where `Instant` starts at boot.
* Two `iotctl` commands at once on one directory: no command takes a lock, and the
  model has one operator.
* Text formats (YAML, JSON field names, base64, TOML), cryptography, generated
  protobuf code, the plugin SDK, logging and tracing output.
* The CEL interpreter, speech and wake-word models, NATS, mosquitto, SQLite, the OIDC
  issuer: external, modelled by how the code uses them. An expression has the value
  the interpreter gives; recognition succeeds or not.
* The panel's pages other than the device row, commands of `iotctl` that call one gRPC
  method and print, `weather-poller`, `matter-bridge`, `demo-echo`, ML and
  deployment: requests, displays and configuration without shared state.

## 9. What is left

1. Theorems about the operators of `Bus` and `Tokens` without recursion.
2. `Provision` with two operators.
3. `MqttHost` with two filters that overlap: a message then has two routes to one
   mailbox.
