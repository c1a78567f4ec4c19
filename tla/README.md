# BeerBot in TLA+

BeerBot is a vending machine on an Arduino Due. It is told to dispense a beer
over the internet (a value on a Cosm/Xively feed, received by MQTT through a
WiFi shield) or by a text message (a SM5100B GSM shield), shows its state on a
graphic display and on two LEDs, and remembers the last approved code on the SD
card of the WiFi shield. This directory holds a TLA+ model of the sketch
(`beerbot.ino`, `glcd.ino`, `wifi.ino`, `sms.ino`), of the MQTT client library,
in packets and in bytes, of the files of the SD library, and of the page loop of
the graphics library, TLC runs, and TLAPS proofs.

## Inventory

Everything runs in one thread: `loop()` calls `GLCDTask`, `BeerBotTask`,
`Blink`, `SM5100RxTask` and `SM5100StateMachine` in turn. The only things that
happen concurrently are outside of it: the network, the modem writing to the
UART, time, and the power supply.

| component | state | operations | what makes it correct |
|---|---|---|---|
| Display and dispenser (`glcd.ino`, `vendBeer`) | `DispState`, `DispStatePrev`, `updateDispStat`, the status lines, `vendside` | `GLCDTask`, `GLCDVendBeer`, `GLCDNotifyError`, `updateDispStatus` | a beer only against an approval, at most one each; the glass never misses a change |
| Approval store (`callback`, `SM5100ParseSms`, `writeToAuthSD`, `loadConfigFromSD`) | `LastApprovalId`, `IgnoreFeed`, `auth.txt` | compare, request, store, remember, load at power-on | an approved code is not approved again; the card never brings an older id back; set-up does not vend |
| Internet channel (`BeerBotTask`) | `WiFiState`, `CosmState`, LEDs | join, connect, subscribe, `client.loop()`, the checks at the end of the task | subscribed only on the connection it subscribed on; recovers after failures; the display tells the truth |
| MQTT client (`PubSubClient.cpp`, `WiFiClient.cpp`) | `pingOutstanding`, two time stamps, the socket, one buffer for what is read and what is written | `connect`, `subscribe`, `publish`, `loop`, `connected`, `readPacket`, `write` | notices a dead connection; stays in step with the stream of bytes; hands on whole values |
| SD library (`SdVolume.cpp`, `SdFile.cpp`, `SD.cpp`, `File.cpp`) | the one cache block, the mirror block, the search start, the fields of a handle | open, read, write, seek, truncate, close, exists, remove | the FAT, the directory and the data agree on the card at every moment; what is closed is kept |
| Graphics library (U8glib) | the page counter, the buffer of one page, a copy of the page's box | `firstPage`, `nextPage`, `drawBitmap`, `drawStr` | the glass shows the picture, whole and nothing else |
| Text message channel (`sms.ino`) | `SM5100State`, `BootUp`, `SMBuffer`, `BufferTail`, `CmdStart`, `CmdComplete`, `errorTimeStamp` | `SM5100RxTask`, `SM5100StateMachine` and what it calls | approves only what was texted, comes up, talks to a modem that is ready |
| LEDs (`beerbot.ino`) | two levels, the blink period | `setBlinkRate`, `Blink` | the truth table of `WifiShield_and_Cosm_Notes` |
| Main program | the order of the tasks | `setup`, `loop` | neither channel stops the other |

Interactions. Both channels call `GLCDVendBeer`, which only sets `DispState`;
the beer is dispensed by `GLCDTask` in the next pass. Both write the status
lines, `LastApprovalId` and `auth.txt`. The MQTT library calls `callback` from
inside `client.loop()`, and `callback` calls back into the library
(`client.publish`), which may close the connection. At power-on
`loadConfigFromSD` derives `LastApprovalId` and `IgnoreFeed` from the file.

The hard parts: requests that meet in one variable, a file rewritten in steps
with the power supply free to go away, two state machines that describe one
connection, a parser fed with whatever has arrived by now, an unreliable
network, and tasks that wait while the others stand still. `PROJECT.json` lists
these hazards with their lines and the properties that cover them.

## Modules

```
VendPromise                  what the dispenser promises (abstract)
Glcd                         display and dispenser         <- glcd.ino, beerbot.ino
  GlcdSpec                     under any calls of the other tasks
    PictureSpec (with U8glib)  the same, page by page         <- glcd.ino
      MCPicture, PictureProofs
  AuthStore                  the approval store            <- wifi.ino, sms.ino
    AuthStoreSpec, MCAuthStore, AuthStoreProofs
    ChannelLemmas              what the steps of both channels do to what they share
    Sms (with Leds)          text message channel, modem   <- sms.ino
      SmsSpec, MCSms
      SmsProofs (with ChannelLemmas)
    Cosm (with Leds, PubSubClient)   internet channel      <- wifi.ino
      CosmSpec, MCCosm
      CosmProofs (with ChannelLemmas)
    BeerBot, MCBeerBot       Cosm and Sms in one loop()    <- beerbot.ino
      BeerBotProofs (with ChannelLemmas)

U8glib                       pages, clipping, boxes        <- u8g_page.c, u8g_clip.c, ...

Files                        what the SD library promises of a file (abstract)
SdVolume                     card, cache, FAT              <- SdVolume.cpp
  SdFile                     files of the root directory   <- SdFile.cpp, SD.cpp, File.cpp
    SdSpec, MCSd               a program, power cuts
Mqtt                         the MQTT client in bytes      <- PubSubClient.cpp
  MqttSpec, MCMqtt             its caller, callback, the network
    MqttLemmas, MqttProofs
```

Two abstractions tie the parts together. The steps of `AuthStore` that touch
`auth.txt` (`sdRemove`, `sdOpen`, `sdClose`) are, by construction, steps that
`Files` has for a file; what is checked is that the SD library
provides such files (`FilesSpec`). `AuthStore` asks for more than `Files` says:
that removing and reading a file do not fail. The steps of `Mqtt`, seen in
packets, are steps of `PubSubClient` (`WholePackets`), from which `Cosm` is built.

A component module has the variables, the operations and the initial and
power-on states. A `...Spec` module closes it with an environment, bounds and
history variables, and states the properties; an `MC...` module gives the codes
and status numbers used by the runs. Definitions bear the names of the functions
they model. The operators named as mutants (a comment `Mutant:` before each) are
variants of the definition that follows them, with one plausible mistake each;
no specification uses them.

**The program counter.** `pc` names the task, or the step inside a task, that
comes next. A task is one step unless something can happen inside it: the power
may be cut between two writes to the card (`sdRemove`, `sdOpen`, `sdClose`,
`remember`), the answer to CONNECT must arrive (`WaitConnack`), the network may
be out of reach (`WiFiWait`), and loop() may find data that came after it looked
at the keepalive (`LoopRead`).

**Glcd.** The globals of `glcd.ino` are one record, `disp`, so that a handler
that makes several display calls applies them in its own order. `lcd` is what
the glass shows. `approvals` and `vends` count calls of `GLCDVendBeer` and motor
pulses. `GLCDTask` is `ShowSplash`, `Redraw`, `vendBeer` and `NothingToDraw`.

**U8glib and PictureSpec.** U8glib has memory for eight rows of the screen only:
`do draw() while nextPage()` draws the whole picture for each page, and clips it.
`u8g` is the page and its buffer, `glass` the memory of the controller. A picture
is a set of boxes (a bitmap, the glyphs of a string) with pixels in them;
positions wrap around at `Limit` as the eight-bit `u8g_uint_t` does.
`PictureSpec` puts this loop around the drawing steps of `GlcdSpec`: `firstPage`,
one `nextPage` for each page but the last, and `lastPage`, in which `GLCDTask`
goes on; a power cut may come between any two of them. Which pixels an icon or a
glyph has is a parameter.

**AuthStore.** Codes are sequences of characters and ids are arrays of `IdLen`
of them, because `compareArrays` and `memcpy` work over the length of the new
code: a prefix of the last id is "the same", and an older tail stays behind. `wr`
is the store in progress. SD operations named in `SdFaults` may fail.

**Sms.** The UART line is a sequence of tokens (`SIND:`, `AC:`, `CMT`, digits,
marks); the parser, its buffer with the bytes that earlier commands left in it,
and the uninitialized variable `stat` (any value, `Stats`) are modelled. The
modem announces its way to readiness after a reset and delivers text messages
only after it has been set up while ready. When the bot comes up the modem may be
up, or still on its way (it has power before the bot): its lines are read by the
first `SM5100RxTask`, and `SM5100StateMachine` resets it only then (`BootUpReset`).
In `SmsSpec` the history variable `clipped` says that a reset, or the set-up, has
emptied the receive buffer while a line was being logged (`ThrowsAway`): `CmdStart`
stays set and the next line is added to what is left. `OneMessageAtATime`,
`ChannelComesUp` and `TextsAreRecorded` hold up to such a moment, and say so. `Spaced` is about what the modem does after a line
and not before: a line starts when the one before it is dealt with, whatever the bot
is about to do.

**PubSubClient and Cosm.** A socket, packets in it (`inbox`) and under way
(`wire`), and what the server believes (`session`). Time is two flags, "more
than `MQTT_KEEPALIVE` since the last packet in, out". `BeerBotTask` is the task
when nothing outside fails it, `BeerBotTaskFailing` the steps it takes when
something does. Whether joining a network again leaves the shield's sockets as
they are depends on firmware that is not in the repository. `SocketSurvives`
allows it (TRUE in `cosm`: a socket may survive or not) or excludes it (FALSE in
`beerbot`). If one survives, `connect()` refuses to replace it
(`PubSubClient.cpp:42`), and the bot may stay `Refused` for ever, which no comment
of the code denies: the liveness properties of `cosm` name this as the only way
not to recover. A subscription whose packet was lost is never confirmed by
anybody (`SubscribeUnconfirmed`): `CosmState` says what `subscribe()` returned.

**Mqtt.** The one buffer, and `readPacket` a byte at a time: `read` holds its
local variables and the place in it where the program waits. A byte has two
digits to the base `Base`, so that lengths of one and of two bytes occur with
short packets. `pending` and `begun` record which packets the server has sent and
how many have begun to arrive; they give the refinement mapping, in which a
packet is in the inbox from its first byte on. The callback's payload is a part
of the buffer, as in the code, and the reply is put together over it.

**SdVolume and SdFile.** An operation is an operator on a record: the card as a
function from blocks to contents, the cache, the handle, and the block writes
sent so far. `SdSpec` runs a call in RAM at once and then lets its block writes
reach the card one at a time; the power may be cut between two of them. `kept` is
what a program would find after a restart (`OnCard`).

**BeerBot.** The order of `loop()`, with network events while `BeerBotTask` runs
and modem events around `SM5100RxTask`; at other times nobody looks, so an
earlier event is the same to the program as one at that moment. A line of the
modem comes in whole; pieces are the business of `SmsSpec`. Nothing keeps the lines
apart: several may come in during one pass.

## Runs

| run | question | result |
|---|---|---|
| `display` | Does the display task, drawing page by page, keep its promise whatever the others call and wherever the power is cut? | `NoFreeBeer`, `LcdAgrees`, `StatusReachesGlass`, and refinement of `VendPromise` hold, and the glass shows the picture (`GlassShowsLcd`) |
| `store` | Power cuts, a missing card and failing `SD.begin`, `SD.open`, `write` around an approval, over both channels | `CardNeverStale`, `PassAfterStore`, `NoReplay` and `OldValueIgnored` hold |
| `store_setup` | Can set-up vend? | yes: a cut between `SD.open` and `close` leaves an empty `auth.txt` (violation of `SetupNeverVends`) |
| `sms_spaced` | With room between the modem's lines, which the bot's own resets and power cuts may cut off, does the channel work? | it approves only what was texted (`ApprovedWasTexted`), SMBuffer holds one message (`OneMessageAtATime`), card, RAM and display agree (`CardNeverStale`, `GsmOkWhileWaiting`); every code that reaches a waiting bot is recorded (`TextsAreRecorded`), and the channel comes up if the set-up commands meet a modem that is ready and no line is cut in two (`ChannelComesUp`) |
| `sms_early` | Does the set-up always meet a modem that is ready? | no: a `SIND 4` that was logged before the bot resets the modem is taken for the one after (violation of `SetUpWhenReady`), and the bot waits for ever for messages that the modem does not pass on |
| `sms_coalesced` | Two messages in one pass | one code is approved that nobody texted (violation of `ApprovedWasTexted`) |
| `cosm` | Two failures of any kind on the network | `SubscribedHere`, `PassMeansApproved`, `DisplayTellsCosm` hold; unless `connect()` refuses, it recovers (`RecoversUnlessRefused`) and gets the last value of the feed (`FeedValueArrives`) |
| `beerbot` | Both channels, two events out of four, a card on which writes fail | `DisplayTellsBoth`, `CardNeverStale`, the refinement of `VendPromise`, and, with a modem in step (`ModemInStep`), `BothChannelsComeUp` |
| `sd` | Two files on a card that fills up, with a power cut between any two block writes but those of a remove or truncate | the FAT stays well formed (`WellFormed`) and mirrored (`MirrorAgrees`), no cluster is lost (`NothingLost`), closed files are kept (`ClosedIsKept`), an open one reads back (`ReadsBack`), every file can be removed (`RemoveFailsAsDocumented`), and refinement of `Files` holds |
| `sd_cut` | And a cut in the middle of a remove? | an entry that points to a freed cluster, which can never be removed (violation of `RemoveFailsAsDocumented`) |
| `mqtt` | Packets in pieces that fit the buffer, fill it and exceed it, and a connection that fails | the client stays `InStep` with the stream, `HandsOn` every value that fits, writes packets (`WrittenWell`), finishes what it began to read (`ReadEnds`), and implements `PubSubClient` (`WholePackets`) |
| `mqtt_long` | Is a packet that is too long ignored? | no: its last bytes are taken for a packet (violation of `TooLongIsIgnored`) |

The five violations are disagreements of the code with its own comments and
notes; each is quoted in `PROJECT.json` under `findings`. A defect that no run
shows because reading settles it: `Sm5100stat` (`sms.ino:52`) is never assigned,
so that the branch "No SIM" at `sms.ino:256` is dead.

The premises of `ChannelComesUp` are the two ways in which the text message channel
fails to come up. `SetUpWhenReady`: the set-up meets a modem that is rebooting, its
commands are lost, and the bot, in `SM5100WForSms`, ignores the `SIND 4` that
follows; this can happen at the start (`sms_early`) and after every error
(`sms.ino:246-251` resets the modem and goes to `SM5100Ready` at once). `~clipped`: the
first line after a reset is added to the rest of an older one, and when it is the
`SIND 4`, it is not recognised and the bot stays in `SM5100Init`. `BothChannelsComeUp`
has the same first premise, and excludes the error state: lines that run into one
another without a status number leave `stat` as it is, uninitialized, and the bot may
take it for an error, restart the modem, and do so again for ever.

Two codes approved in one pass, one by each channel, share one request and one
beer: `VendPromise` lets a request be forfeited, and neither a comment nor a note
promises more. While the network is out of reach `WiFiConnectToNetwork` does not
return (`wifi.ino:130`), and text messages wait with everything else:
`BothChannelsComeUp` therefore presupposes that joining succeeds in the end.

How far `NoReplay` goes: the bot remembers one id. A code that another code has
replaced is new again, also when the server merely repeats the feed's value at
the next connection. `NoReplay` and `OldValueIgnored` therefore speak of the code
recorded last, and of recordings that no power cut or missing card has lost
(`torn`).

### Bounds

- `display`: two approvals (`MaxApprovals`) are enough to merge, serve and
  forfeit requests in every order; calls and power cuts are unbounded. A screen of
  6 columns and 20 rows has a first, a middle and a shorter last page; icons are a
  row higher than it, as those of the sketch are, and lines of text begin above
  it, cross its pages and leave it to the right. `Limit` is 32.
- `store`: codes of length 0 to 2 with a prefix pair and an unrelated pair,
  `IdLen` 2; three approvals let a code come back after another one, and one
  power cut (`MaxCuts`) may fall between any two steps. Feed updates are
  unbounded.
- `sms_spaced`: a modem that announces 11 and 4 after each reset, so that a number of
  two digits comes before one of a single digit; two lines of its own (error reports,
  texts of the codes 1 and 12, texts that are none) and one power cut, at any
  step: enough for a line that is cut off and a text after it. `BufLen` 5 is two slots
  more than the longest text needs; `RxCap` 12 holds one line, and one line is all there is when lines
  are spaced. `sms_early`: a modem that announces 4, and nothing else. `sms_coalesced`:
  two texts.
- `cosm`: one update and two failures (`MaxFailures`), so that the second may hit
  the recovery from the first; keepalives, reconnections and repeated deliveries
  are unbounded. The packet queues need no bound of their own.
- `beerbot`: any two of four kinds of events (`MaxEvents`), once each; a write to the
  card may fail without being noticed (`SdFaults`).
- `sd`: three clusters of one block of two units, so that a file of three units
  has a chain, two files compete for clusters, and the card fills up; two root
  entries in two blocks and two FATs, so that cache and mirror block change often.
  A writes two units at a time, B three; a file is written to below `MaxSize` 2,
  sought and cut off at 1 (`Positions`) and at its end; one power cut (`MaxCuts`), not inside a
  remove or truncate (`CutsInRemove`). `sd_cut` allows it there, with one file.
- `mqtt`: `Base` 16 instead of 128 and a buffer of 11 bytes instead of 128, so
  that a value of 2 bytes fits, one of 6 leaves no byte of the buffer free and
  one of 18 neither fits nor has a length of one byte. One update and one failure
  (or one ping by the server), while values are delivered again at every
  connection, without bound. `mqtt_long`: one value, no failures.

Deadlock is checked in every run.

### Fairness

Weak fairness of the program's own steps: `loop()` is an endless loop of
straight-line calls. Fairness of `Arrival`, `Arrives` and `Start`: a connected
wire delivers and a modem that was reset comes up; it is strong where the model
lets them happen only in certain steps of a pass. Fairness of `TimePasses`, `Silence`
and `GivenUp` (`CosmSpec` only): time passes, for the 90 seconds after an error, for
the bot's keepalive and for the server's.
`Arrive` (`MqttSpec`): a byte under way arrives as long as the connection lasts.
Failures, power cuts, updates and text messages are never fair; they are bounded,
so that the liveness properties speak of what happens after the last of them.
That the loop of `WiFiConnectToNetwork` ends is an assumption on the network.

## Proofs

The proof modules fall in two kinds. `ChannelLemmas` says what the steps of the
store and of the two channels do to the state they share, whatever surrounds
them, and `MqttLemmas` what the packets of MQTT are in bytes; `PictureProofs`,
`AuthStoreProofs`, `CosmProofs`, `SmsProofs`, `BeerBotProofs` and `MqttProofs` hold
the theorems about specifications. None of them uses the bounds of the runs:
events, failures, power cuts, codes and sizes are unlimited.

**The display.** `PictureProofs` has two parts. For `GlcdSpec`, the display
between calls: `GlcdTyped`; `NoFreeBeerAlways`, whose inductive invariant adds
that a pending `DispVending` is an approval not yet served (`PendingIsApproved`);
`LcdAgreesAlways`, whose invariant `GlassInv` says that without the redraw flag
the glass shows the status lines under the screen of `DispStatePrev`, even when
the state has changed and changed back; and `ImplementsPromise`, the refinement
of `VendPromise`, step by step. It then adds the page loop, for every size of the
screen, every `Limit`, every icon, font and text. `ImplementsTask`: `PictureSpec`
implements `GlcdSpec`, so that all of the above holds for it too
(`PagedNoFreeBeer`). `GlassShowsLcdAlways` rests on three facts: a box with a pixel
on the page is not clipped, however it wraps around (`NothingVisibleClipped`); what
is drawn into a page is that page of the picture (`DrawBoxIsShare`,
`DrawIsPicture`); and, in the invariant `LoopInv`, all pages before the one that is
open are as they should be while nobody changes what is to be drawn. It assumes
that pages fit into `u8g_uint_t` (`SizeAssumption`), that the pixels of a box lie
in it (`PictureAssumption`) and that the controller's memory has the shape of the
screen (`ResidueAssumption`).

**The store.** `AuthStoreProofs` proves for every set of codes over any alphabet, every id
length and any number of cuts: `StoreTyped`, `CardNeverStaleAlways`,
`PassAfterStoreAlways`, `NoReplayAlways` and `OldValueIgnoredAlways`. The
inductive invariant `IInv` has two parts. `CardInv` says what the card holds at
each step of `writeToAuthSD`: empty from the removal to the closing, empty or
the new code before the RAM is updated; without it the agreement of card and RAM
would not survive the store. `HistoryInv` ties the code recorded last to the
store in progress, to the RAM between stores, and to the virgin flag while
nothing was recorded. `MemcpyCompares` (what was copied compares as the same) is
the fact about the helpers on which both rest.

Assumptions: those on the constants (`StoreAssumption`, `SpecAssumption`), among
them that a code fits into the id, and `CardAssumption`: removing an existing
file and reading it do not fail, while `SD.begin`, `SD.open` and `write` may.
Without it the properties are false: an append to a file that was not removed
brings back the older id. `sd` shows that removing a file of the card does not
fail for a reason of the file system (`RemoveFailsAsDocumented`), `sd_cut` that it
does for ever after a power cut in the middle of an earlier remove: `CardAssumption`
says that the card has not been through one.

**The internet channel.** `CosmProofs` proves `SubscribedHereAlways`,
`PassMeansApprovedAlways` and `DisplayTellsCosmAlways`. The invariant `CosmInv`
(types, and `CosmShown`: the COSM line is OK exactly in `CosmSubscribed`, but before
the splash screen, where the bot is disconnected, and while the network is out of
reach, where the task has yet to say so) comes from `ChannelLemmas`; `LedsShown` says the same of the LEDs, and `RepliesOwed`
counts: replies 2,PASS are at most the approvals, and one less while a code is
being stored whose reply is still to come. `SubscribedHere` rests on `TaskConnects`: a bot that is subscribed
after a step of the task was connected or subscribed before it, with the socket as
it was.

**The text message channel.** `SmsProofs` proves, for lines in any pieces, `SmsTyped`,
`GsmOkWhileWaitingAlways` (invariant `GsmShown`) and, under `CardAssumption`,
`CardNeverStaleAlways` (invariant `CardKept`): the card and the RAM agree on whatever
the parser makes of a garbled line, because the proof asks nothing of a code but
that it is a sequence.

`ApprovedWasTextedAlways` needs to know what is on the wire. `LineInv` says that
the elements that are unread or under way are the rest of one line, of which `k`
elements are read (`Unread`), and what the parser can be in the middle of at that
place (`Reading`): a buffer that begins with `AC:` was begun by the start mark of
a text, and holds that text from there to `k`. This is needed because a line may be
cut off anywhere (`ErrorRestart`, `SM500InitializeSMS`, a power cut) and leaves
`CmdStart` set: what follows is appended to the rest, and would be approved if the
rest could begin with `AC:`. `TextAssumption` states what it takes: a line comes
after the one before it is dealt with (`Spaced`; `sms_coalesced` shows what
happens otherwise), codes do not contain the marks, and lines fit into the two
buffers. Error reports of the modem, texts that are none, and lines before the bot's
first reset of the modem are allowed.

`OneMessageAtATimeAlways` follows from the same invariant, whose last part counts:
as long as nothing was thrown away (`~clipped`), what is being logged began with the
start mark, as many elements ago as `BufferTail` says, and the end mark has not been
read since (`Counted`). In every line the end mark then is still to come
(`EndComes`), within `BufLen` elements (`LinesFit`): so nothing is being logged when
a line is over (`NothingOpen`), and the count starts at zero with the next one.
`TextAssumption` says that what is between the marks fits; errors, restarts of the modem
and power cuts may come at any time. The premise is needed: a reset or the set-up can leave
the rest of a line in `SMBuffer` for the next one to be added to.

Not proved, because it is false: `SetUpWhenReady` (`sms_early`).

**The whole sketch.** `BeerBotProofs` puts the lemmas of both channels together. The
inductive invariant is `CosmInv /\ SmsTypeOK /\ GsmShown`: each channel leaves the
other's line of the display alone, and neither changes the state of the other.
`DisplayTellsBothAlways` follows; `CardNeverStaleAlways` adds `CardKept`
(under `CardAssumption`), because both channels store through the same `wr` and the
same file; and `ImplementsPromise` maps every step of the sketch to a step of
`VendPromise` or a stutter (`PromiseSteps`).

**The MQTT client in bytes.** `MqttProofs` proves every safety property of
`MqttSpec`, for every base, every size of the buffer, all topics and values, and any
number of failures, power cuts and packets. The inductive invariant
(`IInvAlways`) is `TypeInv /\ StreamInv /\ OrderInv /\ WriteInv`.

- `StreamInv` ties the bytes to the packets: the server's unfinished packets are the
  one that is being read, those that have begun to arrive behind it, and those to
  come; the bytes in the socket, with those to come of the packet in the middle of
  arriving, are what is left of the first and all of the second; and what is
  on its way is the rest. Of the packet being read it says how far the program is
  (`Progress`) and what the buffer holds of it (`Stored`): beyond the end of the
  buffer `len` starts again at 0, so these are its bytes behind some multiple of the
  buffer's size. Without `Stored` nothing would follow about what is done with the
  packet.
- `OrderInv`: the answer to CONNECT comes first, and is all that comes before
  SUBSCRIBE; while the program waits for it, it reads nothing else.
- `WriteInv`: what the library has written is a packet, and what CONNECT has left in
  the buffer stays there until SUBSCRIBE is put together over it, whose
  identifier is made of it.

`WrittenWellAlways` and `InStepAlways` follow from it. `InStep` is about whole packets
between two calls, so it needs to know that the bytes of a sequence of packets
determine where each begins: the lemmas on `Concat`, the bytes of any number of
packets put together. They are inductions over the sequence, for which the lemma
`Induction` of `MqttLemmas` stands in: it is stated for a set of numbers, not for an
operator, and proved by the least counterexample (`WFMin`). `MqttSpecAssumption` says that a packet's length has at most two
digits to the base: `readPacket` reads more of them, and values of more than 16
kilobytes do not occur.

`HandsOnAlways` adds `ToldInv`: when `callback` is called the value that is due lies
in the buffer where the payload begins, and when it replies, putting the reply
together over the value, it has stored it. It assumes `NoneTakenForAnother`: what is left in the buffer of a
value that does not fit must not begin with a byte that looks like the header of a
packet `loop()` acts on. This is the precise condition under which a packet that
is too long is ignored. Values that fit satisfy it (`FittingValues`), those of run
`mqtt` do, and the value of `mqtt_long` does not; its violation shows what happens then.

`WholePacketsAlways`, under the same assumption, is the refinement of
`PubSubClient`, step by step: for each step of the program or of the
world there is a lemma `...Whole` that names the step of `PubSubClient.tla` it is, or
shows that it is none (`ReadByte`, and `Callback`, which only stores). The mapping counts
a packet as arrived from its first byte on. So what is proved for the internet
channel about whole packets does not depend on how the stream is cut into pieces.

**Only model-checked.**

- All liveness (`StatusReachesGlass`, `ChannelComesUp`, `TextsAreRecorded`,
  `RecoversUnlessRefused`, `FeedValueArrives`, `BothChannelsComeUp`, `ReadEnds`),
  which the prover does not handle.
- The SD library (`SdSpec`): following a chain, searching the FAT, reading and
  writing in blocks are recursive operators, out of the prover's reach, on which all
  its properties rest (`WellFormed`, `MirrorAgrees`, `NothingLost`, `ClosedIsKept`,
  `ReadsBack`, `RemoveFailsAsDocumented`, `FilesSpec`).
- `BeerBot`'s `TypeOK`: without room between the lines a garbled text can be
  approved, which may hold the NULs that `SM500InitializeSMS` leaves in `SMBuffer`
  and is then no sequence of `Chars`. The theorems about `BeerBot` use the types that
  hold in general (`ChannelTypes`, `SmsTypeOK`).

## Not modelled

- Of U8glib: the primitives the sketch does not call, other directions, rotation,
  scaling, the decoding of fonts, the other devices, the commands of the
  controller; the bitmaps themselves; SPI. Serial logging; delays as durations.
- Of the SD library: subdirectories, FAT32, `createContiguous`, `O_EXCL`,
  `O_TRUNC`, `O_SYNC`, time stamps, listing a directory, overwriting inside a
  file (the sketch only appends), and `Sd2Card`, the driver of the card: a block is
  written whole or not at all.
- Of the WiFi library: the exchange with the shield's firmware, which is not in
  the repository. The start without a shield (`while(true)`), reading `ssid.txt`
  and `pwd.txt`, the choice of encryption.
- Codes longer than `LastApprovalId`, whose effect depends on the memory layout; a
  text message whose end mark lies inside its header.
- `SM5100LoopBack` (nobody calls it), `client.disconnect()` (compiled out).
- `archive_Leonardo`: earlier versions of the sketch.

## Plan

1. Subdirectories and `Sd2Card` below `SdVolume`: a block that the power cut
   leaves half written.
2. An abstract specification of a channel (offered, approved, recorded, served)
   that `BeerBot` implements.
