# Verification of the ns-3 Bundle Protocol module

TLA+ modules, TLC runs and TLAPS proofs for the `bp` module of this repository: a
Delay/Disruption Tolerant Networking (DTN) Bundle Protocol agent for the ns-3
simulator. This file says which parts the system has, what is modelled and how it
corresponds to the code, what the runs and the proofs show, and what is left.

## 1. The system

ns-3 is a single-threaded discrete-event simulator. Every handler (a call from an
application, a packet handed up by a socket, a timer) runs to its end before the
next event, so a handler with everything it calls is one atomic step. What makes the
code hard is the *order* of events: application calls, arriving bundles, expiring
lifetimes, retransmissions, CLAs that become ready and routes that change interleave
freely, and several bundles live on one shared store.

| Component | State | Operations | Interacts with |
|---|---|---|---|
| `BpAgent` (`bp-agent.cc/.h`) | registrations (`BpRegistration`), CLAs, sequence number, own endpoint | `Register`, `Unregister`, `Bind`, `Close`, `Receive`, `ProcessBundle`, `Dispatch`, `ClaReady`, start/stop | store, CLAs (`EnableReceive`, `DisableReceive`), routing agent |
| `BpAgent6` (`bp-agent-6.cc/.h`) | none of its own that is read | `Send`, `Forward`, `Deliver`, `EnqueueForDeliveryToApplication`, `SendCustodySignal` | all of the above, simulator (retransmission timer) |
| `BundleStore` (`bp-bundle-store.cc/.h`) | ordered set of bundles, counters | `Store`, `Expire`, `Remove`, `GetBundle(s)`, `GetAndRemoveBundle`, `GetForwardPendingBundles` | simulator (expiry timer) |
| `Bundle`, `Bundle6` | retention constraints, ADU, acknowledged intervals, two event handles, headers | `ClearEvents`, `DoDispose` | simulator |
| `BpCla`, `BpTcpCla`, `BpUdpCla` | ready flag, send and receive sockets by endpoint | `SendBundle`, `DataRecv`, `EnableSend`, `EnableReceive`, `DisableReceive`, `SetReady` | sockets; calls `ProcessBundle` back |
| `BpStaticRoutingAgent` | list of routes per destination | `AddRoute`, `UpRoute`, `DownRoute`, `NextHopEid`, `NextHopCla`, `GetRoute` | asked by `OutgoingCla`, `GetEidAddress` |
| `BpHeader(6)`, `BpBlockHeader(6)` | flags, offsets, EID dictionary | setters, `Serialize`, `Deserialize` | `Sdnv`, CLA |
| `BpHeader7`, `BpBlockHeader7`, CBOR codec | the same for version 7 | the same | `SerializeBundle`, tests |
| `CustodySignal`, `AdminRecord`, `ACS` | fields of an administrative record | `Encode`, `Deserialize` | agent |
| `BpFlowstats`, helpers, example, test suite | scenario code | | agent |

What makes each component correct:

* **agent and store**: a bundle in custody is never forgotten and never released
  before all of its bytes are acknowledged; every scheduled event belongs to a bundle
  that needs it and never runs on a disposed one; lifetimes end; transmission cuts an
  ADU without gaps; reassembly is exact; `ClaReady` drains what waits.
* **CLAs**: a bundle goes to the address its route says; what is received is what was
  sent; sockets follow registrations.
* **routing agent**: the three answers about a destination (next hop, CLA, address)
  come from routes that are up.
* **two agents together**: the custodian gives an ADU up only when all of it has arrived,
  and the application gets the whole or nothing, whatever the network loses or reorders.
* **headers and records**: what is decoded is what was encoded, setting one field changes
  no other, and a custody signal finds the bundle it answers.

Hazards, each at its line, are listed under `hazards` in `PROJECT.json` with the
properties that cover them or the reason why none does.

## 2. Modules and how they correspond to the code

| Module | Models | Extends / instantiates |
|---|---|---|
| `BpBundle` | a bundle object, retention constraints, the pieces of a transmission, acknowledged intervals | |
| `BundleStore` | store, expiry events, lookup and order, disposal of objects | `BpBundle` |
| `BpHandlers6` | the handlers of `BpAgent` and `BpAgent6`, as functions on agent states | `BundleStore` |
| `BpAgent6` | one agent with its application, timers, routes and whatever arrives | `BpHandlers6` |
| `BpHandlers6Proofs` | lemmas about the handlers, one for each | `BpHandlers6`, `NumberLemmas` |
| `BpAgent6Proofs` | theorems about `BpAgent6` | `BpAgent6`, `BpHandlers6Proofs` |
| `CustodyTransfer` | abstract specification: what custody transfer promises for one ADU | |
| `BpNetwork` | several agents and the bundles between them; implements `CustodyTransfer` | `BpHandlers6` |
| `BpNetworkProofs` | theorems about `BpNetwork`, the refinement among them | `BpNetwork`, `BpHandlers6Proofs` |
| `BpStaticRouting` | the route table and its lookups | |
| `BpClaSockets` | receive and send sockets of `BpCla`, `BpTcpCla`, `BpUdpCla` under registrations and route changes | `BpStaticRouting` |
| `BpClaSocketsProofs` | theorems about routes and sockets | `BpClaSockets`, `NumberLemmas` |
| `NumberQueue` | abstract specification: a queue of numbers | |
| `Sdnv`, `Cbor` | the number formats of version 6 and of version 7 | |
| `NumberFormats` | the two formats under their names | instances of `Sdnv`, `Cbor` |
| `NumberStream` | a buffer of numbers in either format; implements `NumberQueue` | `NumberFormats`, instance of `NumberQueue` |
| `NumberLemmas` | induction, loops and recursion, stated of sets and functions; theorems about both formats, lemmas about buffers and words of flags | `NumberFormats`, `BitSets` |
| `NumberStreamProofs` | theorems about `NumberStream`, the refinement among them | `NumberStream`, `NumberLemmas` |
| `BpEndpointId` | endpoint ids: a URI and its two parts | |
| `BitSets` | a word of flags as the set of its bits | |
| `BpHeader6` | flags, priority, dictionary and wire format of the primary header | `Sdnv`, `BpEndpointId`, `BitSets` |
| `BpPacket6` | the payload block's header, the packet of a bundle and the custody signal that answers it | `BpHeader6` |
| `BpPacket6Proofs` | theorems about setters, packets and signals of version 6 | `BpPacket6`, `NumberLemmas` |
| `BpBundle7` | a version 7 bundle, its setters and its packet | `Cbor`, `BitSets` |
| `BpBundle7Proofs` | theorems about setters, sizes and packets of version 7 | `BpBundle7`, `NumberLemmas` |
| `MCBpAgent6`, `MCBpNetwork`, `MCBpClaSockets`, `MCNumberStream`, `MCBpPacket6`, `MCBpBundle7` | small instances | the module they are named for |

`PROJECT.json` maps every definition to its lines.

### The agent

The state of an agent is one record, because the handlers call each other: a handler is
an operator from an agent state to the next (`Send`, `Forward`, `Deliver`,
`SendCustodySignal`, ...), composed as the C++ functions are, and an action applies one
to `agent`. The operators are in `BpHandlers6`, so that `BpNetwork` runs the same ones on
several agents. The record's fields are the bundle objects (`heap`, indexed by `Refs`, which
stand for addresses), the store, the expiry and retransmission events that are
scheduled, `lost` (objects whose event handle was overwritten, so that nobody can
cancel the event), registrations, CLA readiness, routes, the next sequence number, and
`sent`, what the step handed to a CLA.

| Action | Code |
|---|---|
| `AppSend`, `Receive` | `BpAgent6::Send`, `BpAgent::Receive` |
| `Arrive` | `BpCla::DataRecv` → `ProcessBundle` → `Dispatch` → `Deliver` / `Forward`, including coalescing, the custody signal and what an administrative record releases |
| `Expire`, `Retransmit` | the two events scheduled with the simulator |
| `ClaReady`, `SetReady`, `ChangeRoute` | what a scenario calls when links change |
| `Register`, `Unregister`, `Bind`, `Close` | the registrations |

What is abstracted, and what that means:

* *Time.* Creation timestamp and sequence number are one id. A bundle that `Store`
  finds expired (`bp-bundle-store.cc:37-44`) is the nondeterministic flag `late`. This
  can happen on `Send` too, since the creation time is cut to whole seconds.
* *Payloads* are a size and, for a custody signal, its fields. Byte and bundle counters
  of the store and the delivery statistics are left out.
* *Fragments* arrive only for an endpoint that is registered and is not the agent's
  own. The code reads a null `m_adu` for a fragmented administrative record
  (`bp-agent-6.cc:257`), which ends the simulator and is not a state. What a relay does
  to a fragment is in `BpNetwork`.
* *Ids* of different sources differ, so that the set's comparator has no ties. Source and
  id name one ADU, so what arrives has the length of what is stored of it (`IsOfOneAdu`).
  Nothing of an ADU is there before it is transmitted: `AppSend` gives out no number of which
  bundles are stored, and nothing arrives of a bundle that waits for its first CLA (`IsOfOneAdu`).
* *Coalescing* (`Coalesce`) is the loop of `EnqueueForDeliveryToApplication`, round by round:
  `Visit` is one round, `VisitAll` the loop over a listing of the ADU's bundles, in the order of the
  set. As in the code a round compares offsets and sizes and nothing else. It may meet a bundle in
  custody, which is whole and lies at the offset of its last piece, because `Forward` wrote that
  into its header: a fragment that ends there absorbs the whole bundle and removes it. It may
  also go on with a fragment that an earlier round has removed.
* *A custody signal* fits one bundle.
* *Routes* are any of the tables in `Routes`; the route agent's own module is
  `BpStaticRouting`.
* *Memory* that nothing can reach any more is reused at once (`Collect`). The code leaks
  it through `GetPointer`; no property is about that.

### The network

`BpNetwork` has an agent per node in `node` and the bundles between them in `net`. An
action runs a handler at one node, and puts what it handed to convergence layers into
`net`. Any bundle in `net` may arrive next, or never: messages are reordered and lost,
and they come again because custodians retransmit; an application sends one ADU in
custody, links go up (with `ClaReady`) and down, lifetimes end at each node on its own.
A bundle arrives once each time it is sent, as the transport protocols have it; two
equal ones on their way at once are one, because the second transmission could as well
have come after the first arrived. The registrations are made before the scenario
starts, and are those of `BpAgent6`. `expired`, `reached` and `taken` are histories.

`CustodyTransfer` has three variables: where custody of the ADU is, which of its bytes have
reached the destination's agent, and the sizes of what the application took. `custody` is
mapped to the state of the source's store (`Custody`), the others to the histories.

### Routes and sockets

`routes` is `m_routes`. `sockets` lists every listening socket ever opened, because the
transport protocol of the node keeps a socket alive whether a CLA recorded it or not;
`recv` and `send` are the two maps of a CLA. The actions are `Register`, `Unregister`,
`Bind`, `Close` with the loop over `m_clas`, `Forward` as far as it concerns sockets
(`GetL4Socket`, `EnableSend`, `SendPacket`), and `AddRoute`, `UpRoute`, `DownRoute`. A
socket whose `Bind` fails is left out, and so are the connections a listening socket
has accepted. CLAs are ready. The routes of local endpoints,
from which TCP takes the port it listens on, are set up before the first `Register` and
stay: `ActiveIsReachable` speaks of the port at the present time, and would be broken by
a scenario that moves an endpoint's own route while it is registered.

### Numbers, headers and packets

`Sdnv`, `Cbor`, `BpEndpointId`, `BpHeader6`, `BpPacket6` and `BpBundle7` are byte-exact,
except that flags are the set of the bits that are 1. `NumberStream` writes and reads numbers at
the two ends of a buffer; `pending` is the history of those written and not yet read, which
no step looks at, and is what the queue of `NumberQueue` is mapped to.
The actions of the headers are the setters, in any
order and repeatedly; the packet of the header that results is a function of it, and so is
what the receiver makes of the packet. A header begins as the constructor of `Bundle6`
or `Bundle7` leaves it. The six bytes that `BpBlockHeader` reserves are only written as far as
needed; the rest is `Unwritten`, a byte that a decoder would not stop at. A block length
that `BpHeader7` has not been given is any of `Garbage`. The code's
`std::string (" ", n)` (`bp-header-6.cc:200`) reads beyond its literal before every
character is overwritten; the model takes the string it ends up with.

`Forward` sets the block length of both headers together, so `BpPacket6` has one. In version
7 the numbers of an `ipn` endpoint are a pair, since `IpnSsp` and `sscanf` undo each other.

Left out: CBHE (only the receiver's header can have it, `bp-cla.cc:138` says that it is not
finished), and endpoint ids whose second part cannot be asked for (`HasSsp`: `substr`
throws). `Bundle7Assumption` limits names to the length `EncodeEID` can count, and numbers to
32 bits (`IsWord`). For all but the lifetime that is the width of the code's variables; a lifetime is
written in 64 bits and read into 32 (`bp-header-7.cc:131`), so that one of more than 49 days would not come back.

## 3. What the runs show

Passing runs:

| Run | Question | Properties | Bounds |
|---|---|---|---|
| `custodian` | Does a node that originates and relays bundles ever forget or wrongly release one? | `TypeOK`, `EventsAreOwned`, `CustodyIsRetried`, `RetentionIsJustified`, `TransmissionIsWhole`, `ClaReadyDrains`, `CustodyIsKept` | 3 objects, 2 sequence numbers, ADUs of 3 bytes in bundles of 2; 203 943 states |
| `timers` | Do lifetimes end, does custody go on, and does it end when signals come? | `FiniteLivesEnd`, `CustodyPersists`, `CustodyEnds` | 3 objects, one ADU of 3 pieces and the signals of each; with fairness; 17 211 states |
| `network` | Do two agents together transfer custody, and does the destination know when an ADU is whole? | `CustodyIsTransferred`, `ReassemblyIsExact` | 2 nodes, an ADU of 3 pieces, 3 objects to a node, 3 signals; 154 163 states up to symmetry |
| `sockets` | Do sockets follow registrations, and has what has an outgoing CLA an address? | `TypeOK`, `ActiveIsReachable`, `ForwardHasAddress` | 2 local endpoints, 4 sockets, 2 routes per destination; 159 850 states |
| `numbers` | Do the bytes of either format implement a queue of numbers? | `NumbersAreQueued` | numbers at each change of length up to 5 bytes, 7 bytes unread; 117 847 states |
| `wire` | Do the fields of a version 6 bundle keep out of each other's way, in memory and on the wire, and does its signal find it? | `FlagsAreAsSet`, `EidsAreAsSet`, `PriorityIsAsSet`, `DecodedIsEncoded`, `PacketIsWhole`, `SignalFindsItsBundle` | 2 flags, 2 priorities, 2 endpoint ids, one with two colons, numbers of 1 and 2 bytes; 116 736 states |
| `wire7` | The same for version 7 | `SizeIsExact`, `DecodedIsEncoded` | endpoint ids of both schemes, one with the longest name, payloads of 0 and 24 bytes; 27 648 states |

Why these bounds reach the interesting cases: three objects let a bundle in custody, a
relayed one and the signal in answer exist at once; bundles of 2 bytes cut an ADU of 3
into pieces of different size. Three pieces are the least that have a middle one, so that
signals and fragments may leave a gap; three objects at the destination hold two of them
apart and the signal, so that a gap can be filled and a piece repeated. In `custodian` the bundle in
custody is for an endpoint of its own node, sent through the CLA that its route names, so that its
pieces may come back and be joined with it. Two endpoints and four
sockets let each endpoint lose a socket and open another. `MaxSeq`, `MaxSignals`, `Refs`,
`MaxSockets`, `MaxRoutes`, `MaxBytes` and `MaxDictionary` are the only bounds in guards.
`BpNetwork_direct.cfg` asks for finite lifetimes alone, and the network of `released` and
`relayed` for endless ones, to keep them small; `custodian` and `timers` have both.

Deadlock is not checked for the agent, the network and the sockets: the bounds on numbers,
objects and sockets make runs stop, and a scenario that has ended is no fault.

Runs that end in a violation, each of one claim of the repository:

| Run | Claim | What the code does |
|---|---|---|
| `endless` | a bundle with a lifetime is destroyed when it expires (`bp-bundle-store.cc:36`) | one that is expired when it is sent is not stored, and is retransmitted for ever |
| `released` | received bundles are stored (`bp-agent.h:203`) | the fragment that fills a gap takes the tail with it out of the store, and is signalled as if it had not |
| `relayed` | the flag says whether a bundle is a fragment (`bp-header.h:52`) | a relay sends a fragment on as if it were the whole ADU |
| `shared` | an active registration listens (`bp-agent.h:106`) | unregistering one endpoint closes the socket that another on the same port depends on |
| `cached` | a bundle is sent to its destination's address (`bp-cla.h:73`) | the socket is found by source alone |

`CustodyIsKept` names a way out of custody that one would not expect: absorption, without any signal. The
comment at `bp-agent-6.cc:144` rejects "releasing custody based just on forwarding, not on any signal"; the
property says how far the code is from that. Only a fragment that reaches, with what is stored
of its ADU, to the offset of the bundle's last piece takes the bundle in.

`src/bp/README.txt` warns that custody transfer of fragmented bundles is buggy and that "fragment
offset and extent are not checked in custody signals", which the code has come to do since
(`bp-agent-6.cc:211`); `released` and `relayed` are what is left of it. The property
`ReleasedIsStored` needs an ADU of three pieces, since a gap does; `network` passes in spite of it
because custody transfer speaks of bytes that have reached the agent, whose loss afterwards
is the matter of `released`.

Each property of a passing run has a mutant (an operator defined right before the one
it replaces) under which the run fails.

### Fairness

`FairSpec` assumes weak fairness of `Expire(r)` and `Retransmit(r)` for each object, and
of nothing else: the simulator runs every event that is scheduled and not cancelled,
and both handlers do nothing but run. Nothing is assumed about applications, arriving
bundles, routes or CLAs, which a scenario may stop using. No function of the repository
calls `SetReady`, `ClaReady`, `UpRoute` or `DownRoute`, so no fairness of theirs would be
justified; `ClaReadyDrains` therefore says what one call does, not that it comes.

`CustodyEnds` has what it needs from the network as a premise, not as fairness of the
specification: *if* each piece's signal arrives again and again while the bundle is stored,
custody ends. Signals come again because the bundle is retransmitted and the destination
answers every copy. Its mutant shows that without the growth of the interval on both sides
the order of the signals could keep custody for ever.

## 4. What is proved

Every safety invariant and action property of the runs `custodian`, `network` and `sockets`
is proved, for all values of the constants, both refinements (`CustodyIsTransferred` and
`NumbersAreQueued`), and everything that `wire` and `wire7` check of packets. The theorems assume what the modules assume of their constants
(`AgentAssumption`, `NetworkAssumption`, ..., which TLC evaluates on the instances), and
where the code needs more of a scenario, a hypothesis that is part of the theorem:

| Hypothesis | Says | Needed by | Where it holds |
|---|---|---|---|
| `Direct` | a node routes an endpoint to where it is local: there is no relay | `BpNetworkProofs` | `network`, `released`; not in `relayed`, which shows why |
| `OwnPorts` | no two local endpoints ever listen on the same port of a transport | `ActiveReachable` | `sockets`; not in `shared`, which shows why |
| `Proper` | URIs have a scheme and a second part; a priority lies within its mask and clear of the report flag | `EidsAsSet`, `PriorityAsSet`, `FlagsAsSet`, `SignalFinds` | `wire` |
| `LengthFits` | the payload is shorter than 128^4 bytes | `PacketArrivesWhole`, `SignalFinds` | `wire` |

`Proper` is what a caller must keep to: the setter writes the two parts of a URI that
`BpEndpointId` found, so that a URI without them does not come back; a priority of 128 or
more sets the flag that asks for a report, and bit 4 of a priority is outside the mask.
`LengthFits` is what the payload block's header has room for: it reserves six bytes, of which two
are its type and its flags, and a longer number would be written into the payload.
The `MC` modules assume the hypotheses of their instances, so that TLC evaluates them.

### One agent (`BpHandlers6Proofs`, `BpAgent6Proofs`)

`AgentInv` is the inductive invariant behind `TypeCorrect`, `EventsOwned`, `CustodyRetried` and
`RetentionJustified`. These are not inductive alone:
`Retransmit` runs `Forward` on whatever object the event holds, so one has to know that
the object is a bundle in custody with `CUSTODY_ACCEPTED` alone; `Remove` cancels the
events of a bundle only if its handles are the current ones, so one has to know that an
expiry is scheduled exactly for stored bundles with a finite lifetime; and that `FORWARD_PENDING` and
the timer exclude each other needs that only the four sets of constraints occur.
`AgentInv` collects these facts per object (`Owned`), so that a lemma about a handler
need only look at the objects it changes. What holds of a loop of coalescing is shown by
`CoalesceLeads`: a set of agent states that every round stays in is not left by all of them, whatever
the listing. Inside a handler an object may break it for
the time being: `Forwardable` is the weaker fact `Forward` is called with, and
`ForwardInv` shows that it gives `Owned` back. There is one lemma per handler, cited by
the lemmas of its callers, and one step per action in `NextInv`.

`TransmissionsWhole` (what `Forward` hands to a CLA are the pieces of the ADU, without gaps or
overlaps) needs `WholeInv`: that `Forward` cuts each piece as if it began at offset 0 is right
only because whatever waits for a CLA or is in custody is a whole ADU, which `Unsplit` says.
A custody signal keeps it, since one that does not acknowledge all of a bundle releases
nothing. Coalescing keeps it although it may meet a bundle in custody: such a bundle may be
absorbed, and is gone, but takes in no fragment itself. It would have to end where a fragment begins, and
its end, counted from the offset that `Forward` left, is not before the end of the ADU (`CoalesceWhole`, `Joining`).
`WholeInv` does not say that what is stored fits into its ADU: offset and size of a bundle in custody that is sent
in pieces do not, and neither does a fragment that has absorbed it.
The arithmetic of the pieces rests on `DivBound` and `PiecesBound`.

`CustodyKeepsBundles` and `ClaReadyDrainsCla` are action properties. For the first, `NextKeepsCustody`
takes each action: what leaves the store in custody has expired, is received, is acknowledged
whole, or is absorbed. For the last, `CustodyKept` goes with the loop: as long as a bundle in custody is
stored, the bytes from the end of the arrived fragment, as it came, to the end it has grown to are bytes of
stored bundles of the ADU, so that when it is absorbed there is no gap before it (`Absorbs`). For the second, `ForwardEffect` says what `Forward` does to each of the bundles that
`ClaReady` gives it.

### Custody transfer (`BpNetworkProofs`)

`CustodyTransferred` is the refinement: every behaviour of `BpNetwork` is one of `CustodyTransfer`,
whatever is lost, reordered, repeated, expired or retransmitted. Its invariant
`NetInv` says where the bytes of the ADU are. The source holds the whole ADU, and nothing
is acknowledged on it that the destination has not got; a message is a piece of the ADU or
a signal whose interval lies within `reached`; what the destination stores covers bytes it has
got, and counts as a whole when it is one. There is one lemma per action (`AppSendStep`,
`PieceStep`, `SignalStep`, ...), which says that the action preserves `NetInv` and maps to a step
of `CustodyTransfer` or to none. That signals may come in any order is covered by
the invariant speaking of intervals, not of counts. `ReassemblyExact` is the conjunct about
what the destination stores.

### Routes and sockets (`BpClaSocketsProofs`)

`HasAddress` holds for every table: `FirstUp` takes
the least position of a route that is up, which exists because `<` is well-founded on
the naturals, and the table stays a table under every change.

`SocketTypes` and `ActiveReachable` speak of `EnableReceive` and `DisableReceive` in a loop over all
CLAs. A loop is a recursive function of the position; `Trace` of `NumberLemmas` says that what holds
before the loop and is passed on by each round holds behind it. It is proved by induction over
a set of positions (`UpTo`), which needs no operator as a parameter. `Recorded` says that a
record names a socket of the CLA's own transport that no other record names, so that closing one
cannot close another's; `HomeInv` adds that under `OwnPorts` a record is for the
endpoint's own port, so that the socket that `EnableReceive` finds in its way can only be its own.

### Numbers (`NumberLemmas`, `NumberStreamProofs`)

`SdnvDecodes` and `CborDecodes` say that a decoder gives back the number that was encoded and stops
right behind it, wherever its bytes stand in a buffer (`HasAt`): for every natural number
in version 6, for every tag and every value of up to 64 bits (`Fits`) in version 7. An encoder and a
decoder are each a recursive function that is *chosen*, so that two things have to
be known of it: that there is such a function, from `Recursion` (a definition by way of smaller
numbers) or `Trace` (a loop of known length), and what it is, by induction over a set of
numbers (`StrongInduction`, `UpTo`). Both kinds of induction follow from `LeastElement` and need
no operator as a parameter. `CarriedRead` and `CborRead` carry the argument: what a decoder holds
after each byte is the number without the bytes that are still to come.

`NumbersQueued` is the refinement: a buffer into which numbers are written at one end and read
from the other is a queue of numbers. Its invariant `StreamInv` says that the buffer consists
of the bytes of the pending numbers, one behind the other, and of nothing else (`Layout`
names the position of each). `Added` and `Taken` show that writing and reading keep it; they
speak of any code that gives each number a nonempty sequence of bytes (`IsCode`), and so serve
both formats. `NumbersAreQueued` alone is not inductive: it says nothing of what is in the
buffer behind the first number.

### Headers (`BpPacket6Proofs`, `BpBundle7Proofs`)

`FlagsAsSet`, `EidsAsSet` and `PriorityAsSet` rest on `SetterInv`. The dictionary only grows, so
a name is found as long as it stands at its offset and ends in the first zero behind it
(`IsNameAt`); `NameIsAppended` and `NameStays` say that `SetEid` makes one such name and leaves the others.
That the priority is read back needs to know which bits it shares a word with:
`PriorityHeld` says that those between the flags are the bits of all priorities ever set.

`HeaderDecodedIsEncoded` needs no hypothesis: the header is of its type (`HeaderTyped`) whatever a caller
sets, and of every header of that type what is decoded is what was encoded (`HeaderDecoded`). The
numbers are laid out one behind the other (`EncodedLaidOut`), so a decoder that goes from the end of one to
the beginning of the next meets each in its turn and ends behind the last (`SdnvWalk`), where the
dictionary begins whose length it has just read (`HeaderPositions`); flags are the bits of their number
(`BitsRead`). `PacketArrivesWhole` adds that the header of the payload block fits
into the bytes that it reserves (`PayloadHeaderParts`, from `SdnvShort`), so that the receiver, which goes on behind the
reserved bytes, begins with the first byte of the payload. `SignalFinds` puts these together: the
destination answers what has arrived, `SignalRead` says that the custodian reads the answer, and `EidsAsSet`
that the URI in it is the one the bundle was sent with.

`SizeExact` says that the eight bits in which `EncodeEID` counts are enough for names of up to
251 characters, so that `SerializeBundle` lays out the packet as it is written. How long
a concatenation is does not depend on what it is made of, so the lemmas know of a sequence
that it is one of something (`IsSeq`) and how long it is (`HasLen`, `AtMost`).

`Bundle7DecodedIsEncoded` has no hypothesis but `Bundle7Assumption`: a bundle keeps its type (`BundleTyped`), and
of every bundle of that type whose fragment lies within its ADU the packet is read as it was
written (`BundleRead`). In version 7 nothing but reading an item tells where it ends, so the proof goes through the
packet as the decoder does: `Passed` says that the items read so far are the bytes
written so far, `NextPassed` takes it one item further, and each part is found behind the one before it
(`BeforeRead`, `EidRead`, `BehindRead`, `PayloadRead`). `EidRead` has a case for each form of an endpoint id;
that a name is not taken for the null endpoint is `FirstByteOf`, since the first byte of a name is its
length, with its type. `BeforeRead` says that the array's size tells a fragment from a whole bundle, on which the
end of the header depends.

### Only model-checked

* liveness (`FiniteLivesEnd`, `CustodyPersists`, `CustodyEnds`): fairness and `ENABLED` are
  beyond the prover.

No module uses `RECURSIVE`.

## 5. Not modelled

* `BpAgent7`: its handlers are empty. The agent does not use version 7 bundles yet; only
  the test suite does.
* Aggregate custody signals: stubs in the code.
* CBHE, and the parts of the CBOR codec without a caller.
* Where a TCP stream cuts bundles: `DataRecv` takes what one `RecvFrom` returns for one
  bundle, as its comment says, and what it returns depends on segment sizes and timing in
  ns-3, which this repository does not set.
* Clocks: ns-3's time is a nondeterministic order of events here. A retransmission timeout
  of 0 and a bundle size of 0, with which the simulator does not advance, are hazards
  without a property.
* Ties in the store between bundles of different sources, byte counters, delivery counters.
* CLA callbacks that only log; attributes and trace sources; helpers, example, test
  suite and `BpFlowstats`, which are scenario code and change nothing in an agent.

## 6. Plan

No safety invariant, action property or refinement of the passing runs is left without a theorem.
Questions that the hazards without a property leave open, each of which needs more of the code
modelled before it can be stated:

1. the byte counters of `BundleStore`: what they count of bundles whose size changes while stored;
2. fragments that arrive for a passive registration: whether `Bind` leaves any of them waiting
   for a fragment that has already come;
3. endpoints that share a port: which of them the one socket answers to (`shared` shows that
   `ActiveReachable` is not it).
