# LoRaMesh in TLA+

A verification project for the firmware in this repository: an ESP32 gateway
that polls three field nodes over LoRa and reports to a Firebase database, and
the nodes themselves. The TLA+ modules model the firmware's control flow, TLC
checks them on small instances, and TLAPS proves the central safety properties
for every value of the constants.

Paths below are relative to the repository. `main.cpp` and the headers without
a directory are those of `src/GATEWAY/GATEWAY/src/`; `NODE1 main.cpp` is
`src/NODE1/src/main.cpp`, and likewise for nodes 2 and 3.

## 1. The system

```
   phone application                               node 1  SHT3x, soil, CO2, pump relay
          |  writes /MODE/, led1                     ^  v
          v                                          |  |   "N1" "N1ON" "N1OFF" / "1/..." "@" "#"
   Firebase entries  <-- get/set -->  gateway  <-- LoRa -->  node 2  SHT3x, UV
   /MODE/ led1 /Device1               loop()         |  |   "N2" / "2/..."
   STT NODE ERROR/n                   3 LEDs         |  |   "N3" -> "N#"
                                      2 buttons      ^  v
                                                     node 3  SHT3x, soil
                                                            "N#" / "3/..."
```

| component | source | state | operations | what makes it correct | status |
|---|---|---|---|---|---|
| gateway polling loop | `main.cpp`, `lora_functions.h` | `flag_gui1s`, `expectedNode`, `currentRetry`, `node_count_send`, two timers, LEDs | receive, start a round, poll again, give up | turns in order, each settled once by the right answer; bounded tries; paced polls; every node comes around | modelled |
| mode, buttons, remote switch | `main.cpp`, `FIREBASE_MT.h`, `button_custom.h`, `WIFI_MT.h` | `mode`, `datacurrent` | `sw_mode`, `sendon1/off1`, `clear_wifi`, follow `led1`, refresh the mode | the mode and the switch follow what the cloud holds for good | modelled |
| LoRa driver | `lib/arduino-LoRa-master/src/LoRa.cpp` | one FIFO, operating mode | `beginPacket`, `endPacket`, `parsePacket`, `receive`, `idle`, the receive interrupt | a station hears only while it listens; one unread frame | partly: what the firmware can tell |
| cloud entries | `FIREBASE_MT.h`, `lib/FirebaseClient-main/.../Value.h` | four entries | blocking get and set, which may fail | status entries are those of the node judged | partly |
| node 1 | `NODE1 main.cpp` | `dataSensor`, `on_off`, `thuchien`, the SSR pin | answer a poll, accept a command, apply it, feed back, read the CO2 sensor | the relay obeys the last command; the loop gets back; the serial buffer stays bounded | modelled |
| node 2 | `NODE2 main.cpp`, `readsensor.h` | `dataSensor` | answer a poll, pass node 3's poll on | node 3's polls reach it | partly: UV arithmetic not modelled |
| node 3 | `NODE3 main.cpp` | `dataSensor` | answer node 2's call | it comes around like the others | modelled |
| button state machine | `lib/OneButton-master/src/OneButton.cpp` | state, start time, clicks | `tick`, `reset` | a press makes one callback, however it bounces; a long press was long; the machine comes to rest | partly: what the gateway uses |
| WiFi provisioning | `WIFI_MT.h`, `lib/WiFiManager-master/WiFiManager.cpp` | stored settings, link, portal time, loop flags | `init_wifi`, `autoConnect`, the portal and its pages, `clear_wifi` | comes online if it can; otherwise stays reachable; stored settings are those in use | partly: the blocking path the gateway takes |
| Firebase client | `lib/FirebaseClient-main/src/core/AsyncClient/AsyncClient.h` | connection, request in progress, read timer | send, await and read an answer, time out, fail | a failed call leaves nothing behind; success means carried out; a call ends | partly: one blocking call after the other |
| software serial port | `NODE1/lib/EspSoftwareSerial-8.0.3` | edge times, decoder, ring buffers | edge interrupt, `rxBits`, `push`, `push_n`, `pop`, `for_each`, `flush` | the bytes sent come out, once and in order | partly: the receiver |
| time stamps, JSON, EmonLib, superseded `codev1.txt` | | | | | not modelled: formatting, vendored libraries without a decision of the program, or not compiled |

How they interact. The gateway is a single loop; everything it does is a call
from there. The nodes do their work in two contexts: the loop samples the
sensors, and the radio's interrupt handler (`onReceive`) answers polls with the
last sample; in node 1 the handler also leaves commands in `on_off` and
`thuchien` for the loop. Stations share nothing but the radio channel. Node 3
does not know its own poll: node 2 hears `N3`, calls `N#`, and node 3 answers
the gateway directly. The phone application and the gateway share database
entries, with no handshake. Below the main programs lie four libraries whose
own interleavings matter to them: the button machine, which only sees the
contact when `loop()` gets around to it; WiFiManager, without which the gateway
does not reach `loop()`; the Firebase client, in which `loop()` blocks; and the
software serial port, whose interrupt races node 1's reading of its CO2 sensor.

What is hard. Two timers that can fire in the same iteration; answers that come
after their turn; a give-up that leaves the last poll no time for its answer; error answers that count
towards a round without ending a turn; transmissions that make a radio deaf and
overwrite an unread frame; calls to the cloud that fail; a button that stores a
value the gateway reads back differently; an interrupt between a test of a flag
and its reset; restarts in mid-turn; bytes whose last bits make no edge; a ring
buffer without a lock; an answer that comes after its call timed out; a portal
that keeps its time while pages are fetched. `PROJECT.json` lists each at its line under
`hazards`, with the properties that watch it or the reason why none does.

## 2. Modules

| module | what it models |
|---|---|
| `LoRaFrames` | the stations, the frames, what each station's receive code tells apart |
| `Air` | the channel and the four transceivers (`ether`, `radio`) |
| `Cloud` | the shared database entries and what get and set do with them |
| `Gateway` | `loop()`, one action per branch of each of its parts |
| `FieldNodes` | the receive handlers and the loops of the three nodes |
| `LoRaMesh` | everything composed with the clock, the application and a foreign device: `Init`, `Next`, `Spec`, `FairSpec` |
| `PollHistory` | `LoRaMesh` with a history of the polling, and the polling's safety properties |
| `SwitchHistory` | `LoRaMesh` with a history of node 1's commands, and the relay's properties |
| `RoundRobin` | the abstract specification of the polling |
| `MeshProperties` | the refinement `TakesTurns` and the liveness of the network |
| `CO2Sensor` | node 1's serial reading of its CO2 sensor; it meets the rest only in the text of a sample, which contains `ERROR` or not |
| `SoftSerial` | the serial port below that: the line, the edge interrupt, the decoder |
| `BoundedFifo`, `CircularQueue` | the abstract queue, and the lock-free ring buffer between that interrupt and the program, one action per load or store |
| `OneButton` | the push button machine and the contact it watches |
| `Provisioning` | `OneButton` composed with `init_wifi`, WiFiManager and `clear_wifi` |
| `DatabaseClient` | one blocking database call after the other on a kept connection |
| `MCPolling`, `MCMesh`, `MCRelay` | the instances of the network that TLC checks; the library modules are checked as they are |
| `LoRaMesh_proofs`, `PollHistory_proofs`, `SwitchHistory_proofs`, `CO2Sensor_proofs`, `SoftSerial_proofs`, `CircularQueue_proofs`, `Provisioning_proofs`, `DatabaseClient_proofs` | the theorems |

`Gateway` EXTENDS `Air` and `Cloud`, which extend `LoRaFrames`; `FieldNodes`
EXTENDS `Air`; `LoRaMesh` EXTENDS `Gateway` and `FieldNodes`, so the stations
share the variables `ether` and `radio` and nothing else. `Provisioning` EXTENDS
`OneButton`; `CircularQueue` instantiates `BoundedFifo` with the contents of the
ring as the queue. The library models are separate from the network model: what
they contribute to it is an outcome that the network model already leaves open
(a call succeeds, fails, or fails after it was carried out; a press or a long
press happens; the gateway restarts), so composing them would multiply the
states and add no behaviour.

A definition whose comment begins with "slip:" is not part of the model. It is
a plausible mistake in the definition that follows it, kept to show that a
property is sensitive to that mistake: with the slip in place, the property
named for it in `PROJECT.json` (`mutants`) is violated in the same run.

### How state and actions correspond to the code

**Program counter.** `pc` splits `loop()` into the parts between which
something else can matter: `button3`, `button0`, `receive`, `round`, `retry`,
`remote`, `refresh`. Each action is one part in one iteration, with every state
change and every call in it. The nodes, the application and the clock may act
between any two parts. A part that blocks (a transmission, a call to the cloud,
the blinking of an LED) is one step; what happens meanwhile happens before or
after it.

**Frames** are records of a kind and one argument. The text is abstracted to
what the receivers test: the nodes compare whole strings, the gateway looks for
`ERROR`, `^`, `~` and then for a number before a slash. A `SensorError` answer
is one whose text contains `ERROR` (from SHT3x or CO2). `Garbled` has neither a
mark nor a number. `String::toInt` gives 0 for it, the number of no node.

**Radio.** A transceiver holds one received frame until it is read. The instant
of a transmission is the one at which its frame is complete, more than half a
second after it began; so the receiver must have been on before. `radio` says
how long it has been: in `standby` it is off, `opened` is a receiver that was
just turned on, `receive` one that has been on for some time, and only the last
can complete a frame. On the gateway `beginPacket`, `endPacket` and a
`parsePacket` that found a packet leave standby (`Idles`); a `parsePacket` that
found none turns the receiver on (`Opens`); the `delay(10)` that ends each
iteration, and the blocking read of the switch in manual mode, let time pass
(`Waits`). Between `parsePacket` and the give-up of the same iteration nothing
blocks, so no frame is completed there unless the receiver was on before. Ten
milliseconds are less than a frame: what the model adds is an answer that
comes early in the following iterations, never one within the iteration. Node 1
is in standby from its feedback until the `LoRa.receive()` after its command.
Transmitting while an unread frame is in the FIFO writes over its first bytes
(`Overlaid`): only the rest of it is read afterwards, so a reading loses its
number, and a long command may or may not cover the word `ERROR`. Stations in
`Lossy` may miss any frame, which also stands for a transmission cut short by
the mode change after `endPacket(true)`, for CRC errors and for range.

**Time.** `millis()` is abstracted to the ages of the two time stamps that
the polling compares. They saturate at their interval: `millis() - last >=
interval` tells no more. `Tick` lets time pass; with a tick of 5 s the
firmware's 10 s, 60 s and 5 tries are 2, 12 and 5. The 1 s timer of the remote
switch and the 3 s timer of the mode are due or not due in any iteration, as is
`app.ready()`: `RemoteSkip` and `RefreshSkip` are always possible. `GatewayInit`
allows any age because booting takes any time and both stamps start at 0.

An exchange takes one or two seconds per frame at spreading factor 12, so
without an assumption a frame could sit in the air for rounds. `Tick` requires
that an exchange with the nodes straddles at most `AnswerTicks` ticks
(`underway` counts them). With `AnswerTicks = 1` and a 5 s tick an answer may be
sent in the tick after its poll; it may then wait in the gateway's radio for as
long as the gateway does not read it. A restart (`clear_wifi`) waits for a
person to enter a network, so it is longer than any such exchange.

**Node 1.** The handler is served before the loop goes on (an interrupt), which
is why the loop's actions require `ether[1] = NoFrame`. `on_off` is read once
per command: it is neither volatile nor written between the two comparisons at
`NODE1 main.cpp:253, 266` except by the interrupt, and the optimised build loads
it once. The current measurement (`calcIrms`) succeeds or does not, freely.

**Cloud.** Every get and set succeeds or fails, freely, within `CloudOutcomes`.
`get<bool>` compares the payload with the literal `true`; a failed call has an
empty payload and reads as false; `sw_mode` stores a *string*, whose payload is
`"1"` with its quotes, which `atoi` reads as 0: that too is false. The
application writes JSON booleans (external: it is not in this repository).
A set can also be stored and yet be reported as failed (`Outcome`): its answer
is lost after the server has carried it out, which `DatabaseClient` shows to
happen.

**Foreign device.** The gateway understands `^` and `~`, but node 1 sends `@` and
`#`. No station in the repository sends the former. `ForeignReport` lets a
device in the place of node 1 send them (constant `Reports`), so that the
gateway's branch is exercised; with `Reports = {}` only the firmware of the
repository is there. Node 1's own marks reach the gateway as frames with no
number (`ReceiveOther`).

**CO2 sensor.** A byte is its place in the nine-byte response. `Data_CO2` waits
500 ms and takes nine bytes or stops at an empty buffer; the serial library's
interrupt adds bytes at any time, between two iterations too. A response may be
late, missing, or short of one byte (`Faults`; one byte is the bound on loss).
The next request comes 7 s later, when nothing of a response is outstanding.
`hi` and `lo` are declared in the loop's body, so in an iteration that does not
assign them they hold what they held or anything: `kept` loses any subset.

**Serial port.** Time is counted in bits: the line changes at bit boundaries
and the program's steps fall between them. Each entry of `edges` is a change of
the line with its distance from the one before, as `m_isrBuffer` keeps it in
cycles, and, as history, the bit of the sent frame that begins there; the line
itself is a byte and the place reached in it. `rxBits` is taken apart where the
interrupt can come in: the look at the time, the look at the buffer, the made-up
stop bit, the edges handed out.
During node 1's LoRa handler interrupts are held back; the edges of that time
collapse into one, recorded late. The history `synced` is dropped when that
happens, or when the handler runs inside a check, and comes back after a silence
of a frame's length. `m_buffer`'s capacity is left out: the one reader never
leaves more than two responses, 18 of its 64 bytes (`CO2Sensor!BacklogBounded`).

**Ring buffer.** `m_inPos` and `m_outPos` are each stored by one side and loaded
by both; every load and store of them and of a slot is a step. `Available` and
`AvailableForPush` are computed as the code does, as a difference of positions
made signed and corrected by the size. The memory order is that of the code's
fences: a store of a position is seen after the slots it covers.

**Button and portal.** `tick` runs the machine once on the level of the contact;
the contact opens and closes at any time, and up to `MaxGap` passes between two
ticks, the time an iteration of `loop()` takes. `held`, `unseen` and `missed` are
histories of the contact's times. Four more tell presses from bounces. A contact
at rest that changes bounces for up to the debounce time and is then at rest
again (`calm`, `rest`); a press is a closing out of rest, every other closing a
bounce. `owed` counts the presses no callback has answered; a tick that finds
the machine and the contact at rest with nothing to answer clears it, so a press
that was missed altogether excuses no later callback. One pattern is set apart: a
held contact that opens and is closed again when it comes to rest (`glitch`)
looks to the machine like two presses, and makes two callbacks. Histories only
mean something in `loop()`, the one place where the button is looked at; a
restart forgets them, and a contact that is closed then counts as pressed anew,
as it does for the machine. The portal's time is given back by every page fetched
(`WiFiManager.cpp:597`); a save in a page stores what was entered before it is
tried; once in `loop()` there is no portal any more. The flash outlives
`PowerCut`. The driver (external) keeps a connection up once told to, drops it
with the access point, and may take any time to make it.

**Database client.** An answer is a status line, a header and perhaps a payload,
which arrive in parts, late, cut off, or never; `own` marks what belongs to the
present call. Silent puts are answered 204 without a body and error answers have
one. The histories are `applied` (the server carried out this call) and `kept`
(a call lost the network between request and answer and left its connection
open). The connection below is reliable and in order. A failed write leaves
nothing on it because the TLS client stops it before it reports the failure
(`WriteFailed`; `BSSL_SSL_Client.cpp:1606-1850`, at each write error, and 149-205,
where a lost socket is noticed): `AsyncClient` itself keeps the connection, and
with another client below, `CleanBetweenCalls` would not hold (its mutant). The one
failure that does not stop it, an empty buffer of an engine that says it is
ready (line 303), is an internal error of BearSSL and is left out.

### External assumptions

Outside the source, and modelled from how the source uses them: who hears whom
and which frames are lost (`Links`, `Lossy`), the clock and the length of an
exchange (`Tick`), the CO2 sensor's responses and their arrival, the database
and its initial contents, the application's writes, the foreign device, the
access point, the portal's visitors and the power, the database server and the
connection to it, the contact of a button, and the levels of the serial line.

## 3. What TLC checks

| run | instance | what it shows |
|---|---|---|
| `disturbed` | 2 tries, 2/4 ticks, all frames losable, node 3's sensor failing, calls failing (which also flips the mode), restarts; 2.5 million states | `TakesTurns`: the network implements `RoundRobin`; `AskedBeforeAccepted`: a reading ends a turn only if the node was polled in that turn; `RoundSettlesThree`; `GapsFollowTimers` and `PollRate`: both timers may fire at once but never do three polls fall within a retry interval; `RetryBounded`: one try more than allowed can happen, two cannot |
| `progress` | 3 tries, 1/2 ticks, all frames losable, button, application | `EveryNodePolled`, `RoundEnds`, `ModeFollowsCloud`, `ButtonFallsBack`; `LedMatchesStatus` |
| `remote` | manual mode, application and foreign device writing `led1` | `RemoteFollowsCloud` |
| `relay` | button 3 giving both commands at any time, 5 feedback marks (the firmware's) | `RelayObeys`, `BurstIsDeaf`, `CommandCarriedOut`, `LoopReturns` |
| `co2` | responses late, missing or short of a byte | `BacklogBounded`: never more than one response left over between readings, never more than two in the buffer; `NeverCatchesUp`: lateness is made up for only by what a response lacks |
| `serial` | 2 data bits, 2 recorded edges, checks interrupted for one bit; 1.9 million states | `BytesAreRight`, `NothingStaysPending` |
| `queue` | 4 slots, 2 values, batches of up to 4; 430 thousand states | `FirstInFirstOut`: the ring implements `BoundedFifo`; `PushTakesAll`; `DrainEnds` |
| `provisioning` | debounce 1, click 2, press 3 ticks, up to 4 between ticks, portal of 2; 1.1 million states | `KnownNetwork`, `ClearMeansHeld`, `OneCallbackPerPress`, `ComesOnline`, `SetupStaysPossible`, `ButtonComesToRest` |
| `client` | time-out of 2 ticks, 6 parts of answers and 2 requests on the connection; 480 thousand states | `CleanBetweenCalls`, `SuccessIsReal`, `WaitEnds`, `AnsweredCallReturns` |
| `no_data`, `co2_combined`, `call_hangs` | the firmware's constants (5 tries, 2/12 ticks); a faultless sensor; as `client` | three statements the code does not keep (below) |

Each module's type invariant is checked in its first run. Deadlock is checked in
every run: the gateway's loop, the reader and the libraries can always go on.

**Bounds.** There is no state constraint. In the network `currentRetry` and
`node_count_send` are bounded by the code itself, ages saturate, a radio holds
one frame. What is bounded is the constants. `disturbed` has fewer tries and a
shorter round than the firmware, to afford failures and restarts: two tries are
enough for a first and a last try with a wait between them, and a round of twice
the retry interval lets the give-up fall before, at and after the next round.
The invariants of the pace and the tries are proved for all constants (section
4). The refinement and the safety properties do not depend on which nodes fail
beyond having one that fails with the others before or after it. `progress` has
three tries, so that a turn that began with two polls at once still has one left
to wait for, and every round does not end in a give-up.

In the libraries: `queue` has four slots, so that a batch can fit, overflow, and
wrap in either of its two blocks. In `serial` two data bits give bytes that end
with an edge and without one, and an edge within a byte or not. The line waits
while two recorded edges are unread, which lets an edge come before, between and
after the steps of a check; `BytesAreRight` is proved for every size (section 4).
The code has room for ten edges per byte of 64, and two responses of nine bytes
are the most that ever wait, so its overflow is not modelled. `Pause` is 1: with 2
the run fails, because a bit may then begin and last between the look at the
buffer and the look at the time; a bit takes 104 microseconds. The thresholds in `provisioning` are the smallest that
differ, with `MaxGap` above all of them; times saturate above the largest. In `client` six parts are two whole
answers, one of which may be an earlier call's, and two requests are that call's
and this one's; guards stop the server and the sender at the bounds.

**Why the histories are faithful.** `PollHistory` and `SwitchHistory` add
variables that no guard reads; every step of `Next` is a step of one of their
disjuncts. The actions of `Next` are grouped there by their effect on the
history (`Polling`, `Settling`, `Passing`, ...). The histories in the library modules are
written by their own actions and read only by properties.

**Preconditions of some properties.** `LedMatchesStatus` is checked where the
polling alone drives the pins and the cloud stores what it is sent. With
failing writes, the remote switch or a reporting device, LED 1 has a second
meaning and the entry may be stale: the code does nothing about either, so it is
a hazard of the design and no property claims otherwise. The liveness runs have
calls that succeed; a cloud that fails over and over reads as manual mode.

**Fairness.** Network (`LoRaMesh!Fairness`, `SwitchHistory!SFairness`): `loop()` runs
again and again (WF of the gateway's step), an interrupt is served (WF of the
handlers), time passes (WF of `Tick`), node 1's loop goes on (WF; SF in
`SwitchHistory`, because interrupts suspend it and there is always time between
two of them: a frame takes far longer to arrive than the loop's statements).
`RefreshMode` and `RemoteChange` have SF: their timers are due in one iteration
out of many, and `app.ready()` with them, so the choice to skip cannot be taken
for ever. Nothing is assumed of the radio: every frame may be lost in
`progress`, and there is no fairness for the application, the buttons or
delivery.

Libraries. `Provisioning`: the program, the portal's clock and the ticks of the
button go on (WF); the driver connects if it can be done again and again (SF
of `LinkUp`: the access point may come and go, and an attempt is repeated by the
driver); nothing of the visitors, the contact or the power, so that `ComesOnline`
names what it supposes (`Undisturbed` and a lasting access point). `CircularQueue`: the
consumer goes on (WF); the producer, an interrupt, owes nothing. `SoftSerial`: the
LoRa handler returns (WF), the reader goes on although handlers suspend it and
the line goes on although the reader's steps come between (SF of both: neither
is stopped, only delayed). `DatabaseClient`: the program goes on and time passes
(WF); neither the server nor the network owes anything.

### Where code and comments disagree

- `no_data`. After the last try the gateway gives up in the next iteration, whose
  `parsePacket` has only just turned the receiver on: the last poll has no time
  for an answer. It prints `NO DATA FROM NODE` of a node that has the
  poll and is about to answer it; the answer comes in another node's turn and is
  thrown away.
- `co2_combined`. `hi` and `lo` have no defined value in the iteration that
  combines them (`NODE1 main.cpp:108, 121`). A build may well keep them, but the
  code does not make it.
- `call_hangs`. Once the first byte of an answer is there, the receive loop feeds
  its read timer on every turn (`AsyncClient.h:2109`), data or not. An answer
  that stops, or a connection that closes, after that keeps the gateway in this
  call for ever, where the library's `FAQ.md:109` describes a time-out that covers the
  processing of the answer.

Three more were met and are within the properties that hold: the retry block
polls at once after a round start, whereas `main.cpp:52` says tries are separated
by the interval (`PollRate` says what is kept); a sixth try is possible, where
`lora_functions.h:21` says five (`RetryBounded`); a late CO2 response shifts the
byte taken for the high byte (`NODE1 main.cpp:113`, `NeverCatchesUp`).

## 4. What is proved

For every topology, every set of lossy stations, every positive try limit and
every pair of intervals with `RetryInterval <= RoundInterval`; for every buffer
size and batch; for all button thresholds and distances of ticks; for every
time-out; for all numbers of data bits:

| theorem | statement | argument |
|---|---|---|
| `LoRaMesh_proofs!TypeCorrect` | `Spec => []TypeOK` | `TypeOK` is inductive; one lemma per group of actions and facts about frames, delivery and overlay |
| `PollHistory_proofs!GapsAreKept` | `HSpec => []GapsFollowTimers` | inductive together with the types: each poll resets one of the timers that bound it |
| `PollHistory_proofs!PaceIsKept` | `HSpec => PollRate` | a poll requires one timer to be due, and that timer bounds the age of the poll before the last |
| `PollHistory_proofs!TriesAreBounded` | `HSpec => []RetryBounded` | the invariant follows `currentRetry` through the parts of the loop: it passes the limit only from `round` to `retry`, where the turn is settled |
| `PollHistory_proofs!LedsAreTrue` | `LedMatchesStatus` is invariant where polling alone drives the pins and writes are stored | no report is ever in the air, so pins and entries are written together; one lemma each for gateway, nodes, delivery and overlay |
| `PollHistory_proofs!LateAnswersAreSeen` | `PromptAnswers /\ HSpec => AskedBeforeAccepted` | by `AskInv`: what a node owes the gateway is as old as the last poll, and, if that was another node's, as old as the one before; a poll overlays what the gateway holds |
| `PollHistory_proofs!RoundsAreShort` | `PromptAnswers /\ HSpec => []RoundSettlesThree` | by `RoundInv`: after its third turn no turn of the round is under way until the retry block ends it |
| `PollHistory_proofs!TurnsAreTaken` | `PromptAnswers /\ HSpec => TakesTurns` | each step maps to a step of `RoundRobin` or a stutter, by `AskInv` (`Hear`) and `RetryBounded` (`Ask`) |
| `PollHistory_proofs!PollHistoryIsOfTheNetwork`, `SwitchHistory_proofs!SwitchHistoryIsOfTheNetwork` | `HSpec => Spec`, `SSpec => Spec` | the histories invent no step |
| `SwitchHistory_proofs!RelayIsObedient` | `SSpec => []RelayObeys` | by `RelayInv`, which adds what holds while the loop is within a command |
| `SwitchHistory_proofs!BurstHearsNothing` | `SSpec => []BurstIsDeaf` | by `RelayInv` |
| `CO2Sensor_proofs!CO2TypeCorrect` | `Spec => []CO2TypeOK` | inductive with the backlog |
| `CO2Sensor_proofs!BacklogIsBounded` | `Spec => []BacklogBounded` | what is buffered and what is outstanding, plus the loop counter, is at most two responses while reading |
| `CO2Sensor_proofs!LatenessStays` | `Spec => []NeverCatchesUp` | while reading, that sum is exactly what was left before plus what the response brought |
| `SoftSerial_proofs!TypesAreKept` | `Spec => []TypeOK` | with `Counted`: the data bits held are as many as were counted, a made-up stop bit is followed by nothing, a check finds a byte pending |
| `SoftSerial_proofs!BytesAreTheSent` | `QuickCheck /\ Spec => []BytesAreRight` | `LineInv`, `DecoderInv`, `CheckInv` (below) |
| `CircularQueue_proofs!QueueTypeCorrect` | `Spec => []TypeOK` | with what each side knows of the other's position |
| `CircularQueue_proofs!RoomIsAlwaysUsed` | `Spec => []PushTakesAll` | the two blocks around the end of the buffer and the free slot, by cases of the positions |
| `CircularQueue_proofs!RingIsFifo` | `Spec => FirstInFirstOut` | the invariant says what each side has written or read so far and that the other cannot reach it; every step is then one of `BoundedFifo` or a stutter |
| `Provisioning_proofs!ProvisioningTypeCorrect` | `Spec => []TypeOK` | inductive |
| `Provisioning_proofs!OnlineIsKept` | `Spec => []KnownNetwork` | whatever writes the settings drops the link |
| `Provisioning_proofs!LongPressIsLong` | `Spec => ClearMeansHeld` | the machine's time is bounded by the contact's, state by state |
| `Provisioning_proofs!PressActsOnce` | `Spec => OneCallbackPerPress` | by `PressesOwed`: state by state, one press, or two where the contact was closed again since, is still to be answered, unless `glitch` |
| `DatabaseClient_proofs!ClientTypeCorrect` | `Spec => []TypeOK` | inductive |
| `DatabaseClient_proofs!NothingIsLeft` | `Spec => []CleanBetweenCalls` | what is on a connection belongs to the present call unless one gave up and kept it |
| `DatabaseClient_proofs!SuccessIsEarned` | `Spec => SuccessIsReal` | and an answer that reports success is of a request carried out |

The proofs use the assumptions named in the modules (`LinksAssumption`,
`IntervalAssumption`, `QueueAssumption` and so on), which TLC evaluates in every
run. The histories are needed because the properties speak of earlier polls,
commands, contacts and calls; each `HSpec`/`SSpec` invariant is proved on top of
`TypeCorrect`'s step lemma.

`PromptAnswers` is `AnswerTicks < RetryInterval`: an exchange with the nodes,
seconds long, straddles fewer ticks than there are in the firmware's ten seconds
between polls. Without it a node could answer in one turn a poll of its turn
before. The inductive invariants were checked by TLC on `disturbed` before they
were proved.

**The serial port.** `BytesAreRight` says nothing of the buffer or of the
decoder's state, so it is far from inductive. `BytesInv` (checked by TLC on
`serial`, then proved) adds what relates the three parts to the frame that was
sent. `LineInv`: two recorded edges that are not late are neighbours on the line,
in one frame with the time between them, or in two with at least the rest of
the first between them, and the bits between them are alike; the last one is
related to the line in the same way (`Follows`, `Lasts`). `DecoderInv`: a decoder
that is synchronised is between two frames, and the next edge begins one, or
it is at a bit of the awaited byte that began with an edge, has exactly the data
bits before it, and the next edge follows that bit. `CheckInv`: an undisturbed
check has seen an empty buffer, and the one edge that can have come since came just
now. Then `DecodeOn` and `DecodeEnd` show that an edge of the same frame adds the
right bits and that one of the next, or the stop bit made up, ends the awaited
byte; `DecodeSync` shows that a silence brings any decoder back. `QuickCheck` is
`Pause <= 1`, and is needed. The elapsed time is a fold over the recorded edges;
the proof needs its value for none and for one edge only, which is why no
induction is called for (`ElapsedNoEdge`, `ElapsedOneEdge`).

Only model-checked: the liveness properties, which are out of the prover's reach.
Every invariant and every safety property of steps that a passing run checks is
proved.

## 5. Not modelled, and why

Nearly all of the repository's lines are vendored: the BearSSL port, the JSON
library, the parts of WiFiManager, OneButton and the Firebase client that the
program does not call, examples and sensor libraries. What the program's own
behaviour rests on is modelled; cryptography, parsing and formatting are not,
since no property of the program tells their details apart.

Within the modelled parts: sensor values, time stamps and their formatting (no
decision depends on them); `endPacket` when the radio never finishes (the code
has no answer to it and any property of the loop would be void); the wrap of
`millis()` (the comparisons are differences in 32 bits, right as long as an age
is below seven weeks); the torn read of the `dataSensor` String between loop and
interrupt (below what a model of values can tell); asynchronous slots, event
streams, redirects, chunked answers and authentication of the Firebase client;
the portal's scans, parameters and non-blocking modes; the serial port's
transmitter, parity and high-rate receiver.

## 6. Plan

Done: the network with its polling, switch and CO2 reader, the four libraries
below, and the proofs of all their safety properties. What is left:

1. `LoRaMesh_proofs` for a transceiver with its modes as a module of its own that
   `Air` abstracts.
