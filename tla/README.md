# A TLA+ model of the OVS forwarder

This directory holds a specification of the forwarder in `sdk-ovs`: the chain
elements of Network Service Mesh that join the containers of a client and of an
endpoint through Open vSwitch. It models the state the elements share, checks
it with TLC, and proves the main results with TLAPS.

## 1. The system

A `Request` runs down a chain of server elements, then, through `connect`, down
a chain of client elements; results and errors come back up, and so does
`Close`. Each cross connect has two ends: the *server end*, towards the
client's container, and the *client end*, towards the endpoint's. Requests of
one connection are serialised (`begin`, in the sdk); different connections run
concurrently.

| Component | State | Operations | Module |
|---|---|---|---|
| Kernel mechanism (`mechanisms/kernel`): `kernelVethServer`, `kernelSmartVFServer`, `kernelClient` | `parentIfRefCountMap` and `parentIfmutex`, shared by all three; a `serviceToparentIfMap` each for the veth server and the client | `setupVeth`, `resetVeth`, `setupVF`, `resetVF`, called by Request, its error path and Close | `KernelMech`, `SharedPort` |
| VXLAN mechanism (`mechanisms/vxlan`): `vxlanServer`, `vxlanClient` | `vxlanInterfacesMap` and its mutex, shared by both | `add`, `remove` | `VxlanMech`, `TunnelNames`, `SharedPort` |
| VLAN breakout (`mechanisms/vlan`) | none of its own: moves the client's port between bridges | Request, Close, `addDelVlan` | `VlanMech`, and in `KernelMech` |
| VLAN MTU (`mechanisms/vlan/mtu`) | `mtus`, a cache of MTUs by uplink | Request, `getMTU` | `VlanMech` |
| Cross connect (`l2ovsconnect`) | none of its own: the flow table of `br-nsm` | create and delete a local or remote cross connect | `L2Connect`, `CrossConnect` |
| Port info (`tools/ifnames`) | one `OvsPortInfo` per connection end, in its metadata | Store, Load, Delete, LoadAndDelete | `ifname` in `KernelMech`, `client` and `endpoint` in `L2Connect` |
| OVS helpers (`tools/utils`) | bridges, ports, flows, addresses: all outside the process | `ConfigureOvS`, `configureL2Interface`, `ParseTunnelIP`, `GetInterfaceOfPort` | `Bootstrap`, `HandOver`; the last as a command that may fail |
| Forwarder chain (`chains/forwarder`) | creates the shared maps and mutexes, fixes the order of the elements | `newEndPoint` | `Bootstrap` (start), `Forwarder` (chain) |

How they interact:

* **Shared maps.** All kernel elements count the users of an interface in one
  map, all vxlan elements the users of a tunnel in another. The first user
  creates the port, the last removes it. A crash empties the maps and leaves
  the ports.
* **Order of the chain.** A server end sets its interface up *before* it calls
  next, a client end *after* next has returned. Both take it down after
  `next.Close`. The cross connect sits in the client chain around the mechanisms,
  and reads the port info that they, and the server elements, have stored.
* **Port info as the only link.** Whether a connection is established, which
  port it has, and whether that port was moved to an egress bridge, is known
  to the elements only through `ifnames`.
* **External commands.** `ovs-vsctl`, `ovs-ofctl` and netlink fail one by one;
  every error path undoes a part of what was done.
* **Refreshes.** A Request on an established connection runs through the whole
  chain again. An element that fails after its next has succeeded closes what is
  below it, on a refresh as on a first Request; what is above it keeps its entries.

What is hard here: ends that share an interface fail, close and crash in any
order; undoing a setup runs the code that ends a connection; the interface to
undo is looked up again rather than remembered; one mutex serves
all kernel connections; a cross connect is two commands with no lock; and the
state in the process may differ from the state in Open vSwitch.
`PROJECT.json` lists each hazard at its line.

What makes each component correct:

* kernel and vxlan: a count is never below the number of users (or a port is
  taken from under a connection), nor above it for ever (or it leaks); an
  established end keeps its port, its link, and a tunnel to its own remote; an
  idle forwarder has left nothing behind; every handler returns;
* cross connect: an established connection passes packets both ways and no
  other connection's work changes that; a closed one has left no rule;
* start: a forwarder that serves has moved every address of its uplinks to
  their bridges, once, and still has the address its tunnels leave from;
* vlan: a served connection is on the bridge of the egress point it asked for,
  with the uplink, and answers with an MTU that is right behind it;
* chain: a served connection has both its ports and both its rules; a rule
  outlives a port only while its connection is being closed, and none is left
  after a Close or an error; every Request and Close comes back.

## 2. The modules

### KernelMech

`End` is the set of connection ends. `Clients`, `VFs`, `Tagged` and `Breakout`
say which element serves an end and in which mode: the source's `isClient`, the
choice between veth and VF, `GetVLAN() > 0`, and the L2 egress. `Clients` is
served by `kernelClient`, the others by `kernelSmartVFServer` if in `VFs` and
by `kernelVethServer` if not.

| Variable | In the code |
|---|---|
| `pc` | where the handler of an end is |
| `mutex` | the holder of `parentIfmutex`, when it stays locked between steps |
| `refCount` | `parentIfRefCountMap`; `Absent` for no entry (0 is an entry) |
| `parentIf` | `serviceToparentIfMap`, one per element and service |
| `ifname` | the end's `ifnames` entry: none, a port, or one with `IsL2Connect` |
| `held` | the interface the end has counted: not in the code, it is what the end must give back |
| `bridge`, `links` | the bridge of each port, the veth links of the host |

A critical section under the mutex is one action, with one outcome per command
that may fail (`Setup(e, outcome)`, `Reset`). The calls to next are separate
steps: `NextOk`, `NextFails`, `NextClosed`. So are the rollback that runs with
the mutex still locked (`Rollback`), the undo after next has failed (`Undo`),
the two halves of a breakout (`VlanBreakout`, `VlanBreakoutFails`), the loss of
a container's link (`LinkGone`) and the restart of the process (`Restart`).
`kernelClient` calls its own `Close` with the mutex locked, and `Close` locks
it: that end is `"stuck"` and the mutex is its for ever.

A refresh of an established connection calls next and changes nothing of the end,
whatever next answers. With `"refresh"` in `Faults[e]` it may also fail in an
element above the client elements once they have succeeded, which closes them. For
a broken out server end that is the vlan client, which takes the port off its
egress bridge (`RefreshRecalls`). For a client end it is `kernelClient.Close`, which
resets the interface but, unlike a Close of the whole chain, is not followed by the
deletion of the entry in `l2ovsconnect`: the end is `"kept"` (`Keep`), a later
Request adds no port for it, and the next Close resets it again (`CloseAgain`,
`ResetAgain`). The two commands of a breakout are one step, as the port is of no
other end and the failure between them is `VlanBreakoutFails`. Ends are independent: an end's next may answer or fail at any
time, which covers whatever the rest of the chain does. What `add-port`,
`del-port` and `get interface` do to a port that is absent, or on another
bridge, is that of `ovs-vsctl`: `--may-exist add-port` and `del-port` fail for
a port of another bridge, `del-port` also for a port that is absent, and the
port number of a port that is absent is the empty string, which is no number.

### VxlanMech, TunnelNames

`Remote[e]` is the address of the forwarder at the other end, `Tunnel(e)` the
port name computed from it as `getTunnelPortName` does. `add` and `remove` hold
their mutex throughout and are one action each. Unlike in the kernel
mechanism, `remove` runs whether or not the end has counted anything: a client
end whose `add` failed calls its own `Close`. A refresh that fails between
`l2ovsconnect` and the client element closes the latter (`Recall`,
`RecallRemove`); its entry stays, so that the end is `"kept"`, adds nothing at the
next Request and removes once more when it is closed again.

### SharedPort

The abstract specification of what counting promises: users join and leave a
port, the first plugs it in and the last takes it out, and no other step of
anyone, failed ones included, does either. `KernelMech` implements it for the
parents that tagged ends share, and `VxlanMech` for tunnels, both as
`ImplementsSharedPort` and when nothing leaks (`NothingLeaks`): `users` is the
ends that hold the port, computed from `held`, and `plugged` the ports that are
on the bridge, which the code changes with commands of its own. A setup that
counts and then fails, and is rolled back, is a join and a leave.

### L2Connect, CrossConnect

A connection has two *points*: a port with the VLAN id or VNI a rule matches,
or with nothing else to match. A flow goes from one point to another.
`ClientPoint`, `EndpointPoint` and `FirstFlow` say which rules the local and
the remote code write, and in which order. Every `add-flow` and every
`del-flows` is a step of its own (`AddFirst`, `AddSecond`, `DeleteFirst`,
`DeleteSecond`), for nothing keeps other connections from acting in between;
`AddFails` and `DeleteFails` stop half way. `AddFlow` replaces the rule with the
same match; `DelFlows` deletes every rule its match *covers*, so that a match
without VLAN id deletes the rules of every VLAN of the port. `Restart` deletes
all rules, or none when the command fails, since `ConfigureOvS` then only warns.
`add-flow` may also report its failure on stderr and exit with 0: the code logs it
and marks both ports as cross connected all the same (fault `"quiet"`).

The entry of the client's port is the server element's, which stores it before it
calls and deletes it when a first Request has failed or the connection is closed
(`Release`). On a refresh it keeps it, whatever comes back (`Keep`): a refresh that
an element above fails closes `l2ovsconnect`, rules and endpoint entry go, and the
mark `IsCrossConnected` stays. The next Request then adds nothing (`Request`,
`NextOk`). The promise is therefore made for the connections that are `Assured`:
`l2ovsconnect` is told of every failure of theirs (`Told`), as their `add-flow`
fails with an error and no refresh of theirs is closed from above. What happens to
the others must not disturb these.

`CrossConnect` is the abstract specification: connections that are wired and
taken down one direction at a time, each alone, never while established.
`ImplementsCrossConnect` is the refinement: `established` is the connections
that are up, `reach` is computed from the flow table as the directions in which
what enters is matched by exactly one rule, the right one.

### Bootstrap

The state of a start (`boot`, `todo`, `point`, `saved`) and of the host
(`addrs`, `bridges`, `uplinkOn`). `ParseTunnelIP` chooses an address of the
first interface in the kernel's order that has one that matches, an interface
that cannot be read left out. `NextPoint` takes the egress points in any order,
as the iteration of a Go map does. In `configureL2Interface` each `AddrDel`
(`Flush`) and each `AddrAdd` (`Restore`) is a step, and so are the reading of
the IPv6 addresses, `add-port` and the search of the bridge. `MoveFails` is an
error at any of them, which ends the start, and `BootRestart` a kill at any
point and a new start; both leave the host as it is. `lost` is history: the
addresses that were read and taken off a link when a start ended; the code
gives them up, and `AddressesMoved` speaks of the others.

### HandOver

The abstract specification of a start, seen from the addresses: an uplink hands
all of them to the bridge it is plugged into, one uplink at a time, and the
bridge gets none before the uplink has given up the last. Only an address the
process holds when it dies is lost. `Bootstrap` implements it
(`ImplementsHandOver`): `PlaceOf` computes where an address is from the links,
from `saved` and from the bridge its uplink is on. The reading of the IPv6
addresses, `add-port` and the search of the bridge are stutters.

### VlanMech

Extends `Bootstrap` with connections of the vlan mechanism. Of `mtuClient` the
load of the cache, `getMTU` and the store are separate steps (`LoadHit`,
`LoadMiss`, `GetMTU`, `GetMTUFails`, `Store`), as the cache is a concurrent map
and no lock spans them. `Unplug` and `Plug` are the two commands of
`addDelVlan`. An error of either element closes the elements below it (`Abort`:
`del-port` on the egress bridge), then the server end undoes its part (`Undo`:
`del-port` on the integration bridge), unless the connection was established.
The server end is reduced to the port of the client: what the kernel elements
count is in `KernelMech`. `Recall` is a refresh that succeeds here and is then
closed by an element above. `UplinkChanges` is the host: an uplink has another
MTU, disappears or appears. `had` is history: the MTUs an uplink has had, since the
process started, while some request had missed the cache and not yet read the
link. `MTUFits` says of each answer that it is the endpoint's MTU behind one of
these (`Behind`: lowered to it, filled in with it, or untouched for an uplink that
was missing): an MTU that the link had before or between, when nobody was reading,
is not good enough.

### Forwarder

The composition. `K`, `V` and `L` are instances of `KernelMech`, `VxlanMech`
and `L2Connect` (through their proof modules, so that their theorems can be
cited). Each connection `x` has a server end `S(x)` and a client end `C(x)`; an
end in `KernelEnds` is an end of `K`, any other of `V`. All connections share
the two maps, the ports and the flow table. An action of `Forwarder` is a step
of one component, or of two where one call of the code returns into another,
guarded by the phases that the order of the chain allows:

1. `Arrives`, `ServerSetup`: the server element sets its port up.
2. `CallsClientChain`, `ClientBegins`: `connect` calls the client chain,
   `l2ovsconnect` first; it calls on to the client element, which calls the
   endpoint before it does anything.
3. `ClientSetup`, then `CrossConnects`: on the way back the client element sets
   its port up, and `l2ovsconnect` adds its rules.
4. `Succeeds`, or `ClientFails`, `FailedUnloads` and `Fails`, `ServerUndo`: the
   answer or the error comes back to the server element, which undoes its part
   on an error. An element of the sdk between any two of these may fail too:
   then what succeeded below it is closed (`ChainCloses`, `ClientCloses`).
   `kernelClient` locks the mutex of the kernel elements on the first Request of a
   connection of any mechanism, once its next has answered, so that the answer of
   a vxlan client end waits for it too (`PastKernelClient`).
5. `Close`, `ChainCloses`, `ClientCloses`, `ClientReset`, `ClientClosed`,
   `Disconnects`, `ServerReset`: the client end first, then the rules, then the
   entry of the client end, the server end last.

A refresh goes down and comes up, and when nothing fails it changes nothing of a
client end. It may fail at two places once the chain below has succeeded. Above
`l2ovsconnect` (`"refresh"` in `FlowFaults`): `ChainCloses` closes the client chain
as a Close does, the server end stays up with its entry, and later refreshes find
the client end idle and set it up again (`CallsClientChain`), but not the rules.
Between `l2ovsconnect` and the client element (`"refresh"` in the faults of the end,
`MayRecall`): `ClientCloses` closes the client element alone, `RecallReturns`
returns the error, and the client end is `"kept"` until it is closed again
(`ClosesAgain`). The Close of a connection whose client chain such a refresh has
closed finds nothing there: the metadata of a client connection, and with it the
entry, is the sdk's and goes with the first Close. A process restart is a restart
of all components. The vlan mechanism has no cross connect and is composed with
`Bootstrap` instead. A port has one number for its life, and a number is not
used again while a rule names it, as in `L2Connect`.

## 3. The runs

| Run | What it shows | Distinct states |
|---|---|---|
| `kernel_rollback` | A server end with a breakout that fails at every command, two tagged client ends with one parent, a VF client end that failed refreshes close. `InUsePlugged`, `SharedParentKnown`, `CleanWhenIdle`, `SetupFailsOnlyOnFault`, `HolderCanRun`, `ImplementsSharedPort` and, with fairness, `HandlersReturn` | 14,560 |
| `kernel_faults` | Two tagged server ends sharing a parent, a VF server end with a breakout; every command fails, a refresh is closed, a link vanishes, the forwarder restarts. `VethCountExact`, `NeverUndercounted`, `InUsePlugged`, `InUseStays` | 86,592 |
| `vxlan_faults` | Two server ends and a client end of one tunnel, a client end with its own that failed refreshes close; setups and deletions that fail, restarts. `NeverUndercounted`, `TunnelLeadsToRemote`, `AddFailsOnlyOnFault` | 60,804 |
| `vxlan_clean` | The same ends when nothing leaks. `NoTunnelWhenIdle`, `ImplementsSharedPort` | 5,376 |
| `l2_faults` | A local connection, a remote one that enters by a tunnel and shares the endpoint's port with it, one that leaves by the same tunnel, and a vlan breakout; commands that fail with an error or silently, rules that leak, refreshes that are closed from above, restarts. `CrossConnected`, `ImplementsCrossConnect` | 636,480 |
| `vlan_egress` | A host with an IPv4 and an IPv6 address on its uplink, two selectors of one egress point and a third without uplink; every command of the start fails, the process is killed anywhere; two connections leave by the uplink while its MTU changes, is invalid or is gone. `AddressesMoved`, `NoAddressTwice`, `TunnelAddressPresent`, `BreakoutReachesUplink`, `MTUFits`, `ImplementsHandOver` | 370,864 |
| `forwarder` | A connection from a veth pair to a tunnel and one from the same tunnel to a smart VF; setups, rules and refreshes that fail, a container that dies, restarts. `EndToEnd`, `DanglingOnlyWhileClosing`, `NoRuleLeft`, `UnwoundFirst` and, with fairness, `ChainReturns` | 11,212 |
| `kernel_client_deadlock` | violation, below | |
| `kernel_stale_count` | violation, below | |
| `vxlan_failed_client` | violation, below | |
| `vxlan_name_clash` | violation, below | |
| `forwarder_failed_refresh` | violation, below | |

**Disagreements found.** Five runs end in a violation, which is what they show:

* `kernel_client_deadlock`: `kernelClient.Request` calls `Close` with
  `parentIfmutex` locked, and `Close` locks it again (`client.go:98`, `112`).
  One failed setup of a client end, and that Request and its Close hang, and so does
  every later setup and reset of the kernel elements. As `client.go:83` locks for
  every mechanism, so does every later first Request that gets past `kernelClient`,
  of any mechanism.
* `kernel_stale_count`: when the veth link has vanished with its container,
  `resetVeth` returns before it deletes its map entries (`common.go:160`). The
  port has been deleted; the next tagged setup of the service finds the entries,
  skips `add-port`, and fails though no command failed.
* `vxlan_failed_client`: a client end that fails to create the tunnel closes
  itself, and gives back a count it never took. Another end may have created
  the tunnel in between: it is deleted under it (`vxlan/client.go:86`).
* `vxlan_name_clash`: the tunnel's name is the address without its dots, so
  10.1.11.1 and 10.11.1.1 share a port, which leads to the first of them.
* `forwarder_failed_refresh`: an element between the server element and
  `l2ovsconnect` fails on a refresh after the client chain has succeeded, and closes
  it. The rules are deleted; the client's entry, which the server element keeps,
  still says `IsCrossConnected`. The next refresh sets the client end up again, adds
  no rules (`l2ovsconnect/client.go:58-65`), and succeeds.

The passing runs state the remaining behaviour around these: for instance
`kernel_rollback` has client ends without setup faults, since the first would
stop the forwarder, and `vxlan_faults` has client ends that fail only after
they have counted. `EndToEnd` asks for rules and for the endpoint's port of a
connection unless a failed refresh of its own may have taken them, and in the
instance of `forwarder` one connection has such refreshes and the other has not.

**Bounds.** Two ends that share an interface and one that does not are the
smallest set in which every way to interfere occurs: first and last user, a
setup that fails while another holds, a removal that races a setup. The proofs
of section 5 cover any number of them. `MaxCount` stops only counts that leak: a
failed VF or vxlan server setup counts without an end that gives it back, for
ever. It is 2 for the kernel (a count that leaked and one that is used on top)
and 4 for vxlan (above the three ends that share a tunnel); in `vxlan_clean`
nothing leaks and it is never met. The end that a failed refresh closes shares
nothing in any run, by the hypotheses `ResetOnce` and `RemovedOnce`: that a shared
parent or tunnel loses a count to it is read off the code, and no run shows it. In `vlan_egress` two selectors of one point
make a start meet an uplink it has configured, and every later start meets one
an earlier start has; two connections fill one entry of the cache from an uplink
that has two valid MTUs and an invalid one. In
`forwarder` one connection's client end and the other's server end share a
tunnel, so that either comes first and either goes last; the ends are of all
kinds but a veth client, whose setup must not fail (`kernel_client_deadlock`),
and a VF server, which `kernel_faults` has. Of the two client ends, that of the
VF locks the mutex of the kernel elements for its setup and the vxlan one waits for
it; the veth server end of the other connection, which rolls back with the mutex
locked, is what they may have to wait for. In `forwarder_failed_refresh` one
connection is enough. `Faults`, `Mortal` and
`CanRestart` choose what may go wrong, so that a run can state what holds when
something does not. `vlan_egress` has one uplink: that two do not mix their
addresses is proved (`BootHandsOver`) and not run. Restarts, faults and requests are not counted: they may
happen any number of times.

**Deadlock** is checked in every passing run. `kernel_client_deadlock` alone
switches it off: it reports the hang as a violation of `HandlersReturn`.

## 4. Fairness

Two properties need it. For `ChainReturns`, `Forwarder` states strong fairness
of `Progress(x)`, all that a handler of connection `x` does once it is called:
a goroutine that can run does, a call of the chain ends, and a mutex is handed
to a waiter; of the start of a Request, a refresh or a Close nothing is assumed.
For `HandlersReturn`, `FairSpec` of `KernelMech` states it for each end:

* weak fairness of what the call to next does (`NextReturns`, `RefreshReturns` or
  `RefreshRecalls`, `NextClosed`): a call ends with an answer or with its context;
* weak fairness of steps that run without waiting (`Unload` or `Keep`, `Rollback`):
  a goroutine that can run does;
* strong fairness of the steps that lock the mutex (`Locking`): the mutex may be
  taken and released any number of times while an end waits, but `sync.Mutex`
  hands itself to a goroutine that has waited for more than a millisecond.

Nothing makes a client send a Request, a Refresh or a Close, nor a restart or a
failure happen.

## 5. The proofs

`KernelMechProofs`, `KernelCleanProofs`, `VxlanMechProofs`, `L2ConnectProofs`,
`BootstrapProofs`, `VlanMechProofs` and `ForwarderProofs` prove, for every value
of the constants:

| Theorem | Under | Property |
|---|---|---|
| `TypeCorrect` (kernel, vxlan, L2, vlan) | `DistinctPoints` for L2 only | `TypeOK` |
| `VethCountCorrect`, `NeverUndercountedCorrect`, `SharedParentCorrect` | `DistinctNames`, `UniformTagging`, `ResetOnce` | `VethCountExact`, `NeverUndercounted`, `SharedParentKnown` |
| `InUsePluggedCorrect`, `InUseStaysCorrect` | the same and `SoleBreakout` | `InUsePlugged`, `InUseStays` |
| `CleanWhenIdleCorrect`, `SharedPortRefined` (kernel), `SetupFailsOnlyOnFaultCorrect` | `DistinctNames`, `UniformTagging`, `NothingLeaks` | `CleanWhenIdle`, `ImplementsSharedPort`, `SetupFailsOnlyOnFault`, and that a setup can succeed |
| `HolderCanRunCorrect` | the same and `ClientsSetUp` | `HolderCanRun`, and that no end is stuck |
| `NeverUndercountedCorrect` (vxlan), `AddFailsOnlyOnFaultCorrect` | `ClientsCountFirst`, `RemovedOnce` | `NeverUndercounted`, `AddFailsOnlyOnFault` |
| `TunnelsRightCorrect` | `DistinctNames` | a tunnel leads to its remote or is not there |
| `TunnelLeadsToRemoteCorrect` | `DistinctNames`, `ClientsCountFirst`, `RemovedOnce` | `TunnelLeadsToRemote` |
| `NoTunnelWhenIdleCorrect`, `SharedPortRefined` (vxlan) | `ClientsCountFirst`, `NothingLeaks` | `NoTunnelWhenIdle`, `ImplementsSharedPort` |
| `WidthsDistinguish` | `SameWidths` | `DistinctNames` (vxlan) |
| `CrossConnectedCorrect`, `ImplementsCorrect` | `DistinctPoints` | `CrossConnected`, `ImplementsCrossConnect` |
| `NoFlowLeftCorrect` | `DistinctPoints`, `DeletesAll` | `NoFlowLeft`, which no run checks: `NoRuleLeft` says it of the chain |
| `PortsApartSuffice` | `PortsApart` | `DistinctPoints` |
| `BootAddressesMoved`, `BootTunnelAddress`; `StartCorrect` (vlan) | | `AddressesMoved`, `TunnelAddressPresent` |
| `BootNoAddressTwice`, `BootHandsOver`; `HandOverKept` (vlan) | `DistinctAddrs` | `NoAddressTwice`, `ImplementsHandOver` |
| `ServesAsStarted` | | `BootSpec`, of `VlanMech` |
| `BreakoutReachesUplinkCorrect`, `MTUFitsCorrect` | | `BreakoutReachesUplink`, `MTUFits` |
| `ComponentRuns` | | the specifications of `K`, `V` and `L`, of `Forwarder` |
| `UnwoundFirstCorrect` | `DistinctPoints` | `UnwoundFirst` |
| `ChainCrossConnects` | `DistinctPoints` | `ImplementsCrossConnect` of the chain, and that what is served and `Assured` is established there |
| `NoRuleLeftCorrect` | `DistinctPoints`, `DeletesAll` | `NoRuleLeft` |
| `EndToEndCorrect` | `Apart`: the hypotheses of the three | `EndToEnd` |
| `DanglingCorrect` | `Apart`, `DeletesAll` | `DanglingOnlyWhileClosing` |
| `NothingLeftCorrect` | the same and `NothingLeaks` of both mechanisms | when all server ends are idle no port, link, tunnel, rule or entry of the kernel maps is left |
| `ChainSharesPorts` | `Apart`, `NothingLeaks` of both | `ImplementsSharedPort` of both, of the chain |
| `ChainLocks` | `Apart`, `NothingLeaks` and `ClientsSetUp` of the kernel | `HolderCanRun` in the chain |
| `PortsKeepApart` | kernel `DistinctNames`, `UniformTagging`, `ResetOnce`; `SameWidths`, `ClientsCountFirst`, `RemovedOnce`; `PortsApart` | `Apart` |

The hypotheses are the conditions the code relies on and does not enforce:

* `DistinctNames` (kernel): interface names, cut to 15 characters, differ;
  (vxlan): equal tunnel names mean equal addresses, which `vxlan_name_clash`
  shows is not always so. `SameWidths` is a condition on the network that
  suffices: the first parts of all addresses have as many digits, and so have
  the second and the third.
* `UniformTagging`: the veth ends of one service in one element are all tagged
  or none is. An untagged end that closes deletes the parent entry of its
  service, whatever is there.
* `ResetOnce` (kernel) and `RemovedOnce` (vxlan): a client end that a failed refresh
  may close has its parent or tunnel to itself. The Close that follows resets, or
  removes, once more what that refresh already has (`kernel/client.go:115`,
  `vxlan/client.go:97`), and another user would lose its count.
* `SoleBreakout`: a port that is moved to an egress bridge is not a shared parent.
* `NothingLeaks` (kernel): ports and links can be deleted, no container or
  forwarder dies, a VF server end does not fail after it has counted, nor a
  tagged server end between the creation of its link and its record as parent,
  no VF and no tagged end is broken out, and `ResetOnce`; (vxlan): ports can be deleted, the
  forwarder does not die, a server end does not fail after it has counted, and
  `RemovedOnce`. Each exclusion is a place where the error path leaves something behind for
  good. The last one for the kernel: a VF that was broken out is reset as if it
  were still on `br-nsm` when a later element fails, `del-port` fails, and
  `resetVF` returns with the count, now 0, still in the map
  (`smartvf_server.go:73`, `sriov.go:98`).
* `ClientsCountFirst`: a client end does not fail before it has counted;
  `vxlan_failed_client` shows what happens otherwise. `ClientsSetUp`: the setup
  of a kernel client end does not fail for a command; `kernel_client_deadlock`
  shows what happens otherwise.
* `DistinctPoints`: no two points of connections match the same packets.
  `PortsApart` says how the code has it: client ports are not shared, endpoint
  ports by VLAN ids that differ, tunnel ports by VNIs that differ, and no
  connection enters and leaves by tunnels. VLAN ids and VNIs are chosen outside
  this repository.
* `DeletesAll`: `del-flows` does not fail, of a connection or at a start.
* `DistinctAddrs`: no address is on two links of the host before the first
  start, nor on a bridge.

Three properties make an exception of the connection's own failures, by name and not
by a hypothesis on all: `BreakoutReachesUplink` of the connections that failed
refreshes close (`VlanMech`, `Recalled`), `InUsePlugged` of the broken out ends they
close (`KernelMech`, `Recalled`), and `EndToEnd`. The last says of every served
connection that its client's port is on the bridge; of one whose refreshes are not
closed above its client element, that its endpoint's port is; and of one that is
`Told` of its failures, that it has its rules. These are the ways in which the code
serves a connection without them.

What a theorem does not list it does not need: counts of tunnels cover their
users even where names clash, and the addresses of the uplinks move even if two
uplinks have the same one. `PortsKeepApart` puts the hypotheses of the chain in
terms of names, addresses, VLAN ids and VNIs alone, and the instance of
`forwarder` satisfies them (`InstanceApart`).

**Why the invariants are as they are.** That a count equals the number of users
is not inductive alone. `resetVeth` looks its interface up again, so one must
know that it finds the one the end has counted (`HeldIsTarget`), that a recorded
parent is a veth interface of a tagged end (`ParentIsVeth`), that an end holds
something in exactly the phases in which it will reset (`Phases`), and that a
setup that failed half way is rolled back before anyone else looks
(`RollsBackAlone`: the mutex stays locked). `IInv` is their conjunction. That an
end in use stays plugged needs the same of the ends that are not yet, or no
longer, in use but rely on the interface (`Plugged`), that a recorded parent has
its link (`ParentLinked`), and that only ends of `Breakout` are broken out
(`BrokenOut`). For vxlan, `HeldInPhase` ties what an
end holds to its phase and `CountedThere` every count to a tunnel; that a tunnel
leads to the remotes that share its name (`TunnelsRight`) is inductive alone.
`InUseStays` is a statement about steps: from the same invariant, one step at a
time, the port an established end holds is neither moved nor removed. For the cross connect, `Keeps` says which rules a
connection has in which phase, and `OnlyWired` that every rule in the table
belongs to some connection; the lemmas `AddFlowKeeps` and `DelFlowsKeeps` then
show, from `DistinctPoints`, that adding and deleting touch one rule only, and
`MatchingIs` that a point is matched by its own rule only. `NoFlowLeftCorrect`
adds `CleanInv`: what a connection may still have in the table. The
refinement is proved step by step: each step establishes, releases, wires or
unwires the connection that takes it, or stutters.

That nothing is left behind when ends are idle says little of the moments in
between, and `Tidy` says it of every state: a port nobody uses is neither
counted nor on a bridge (`UnusedUnplugged`), a link or a parent nobody uses
belongs to the setup that is being rolled back (`LinksUsed`, `ParentsUsed`), a
VF is counted once (`VFsOnce`), and a used port is on the bridge on which the
reset of its phase will look for it (`InPlace`, `Places`). A client end whose
setup fails keeps the mutex for ever, and what it set up stays; then
`CleanWhenIdle` holds since that end is never idle again, and `TInv` says
`Stuck` or `Tidy`. For vxlan, `Exact` says that counts are exact and
`UsedIsThere` that a tunnel is there exactly while it has users. The refinements of `SharedPort` follow from these:
under `Tidy` a parent, and under `Exact` a tunnel, is plugged in exactly while
it has users, so that a step that changes the users does to the port what
`SharedPort` says. Under `Tidy` a setup also finds what its guards ask for
(`SetupFinds`): the link of its parent, and a counted port on the bridge, so
that only its own commands can make it fail. Since no client end ever fails
then, none is stuck, and the mutex is only held by an end that will roll back
(`HolderHolds`).

For the start, the invariant says where each address of the host is: on its
link, in `saved` on the way to the bridge, on the bridge, or in `lost`; and
that an uplink is plugged into the bridge of its point or not at all. For the
hand-over it also says whose addresses are where (`OwnAddrs`): those on an
uplink are its own, those in `saved` are of the uplink under way, and a bridge has one only if it
has its uplink. Each netlink command then moves one address as `HandOver` does;
`add-port` moves none, as a bridge without the uplink has none of its addresses. For the
vlan mechanism it says which bridge the port is on in each phase, and that what
is cached, or about to be, is an MTU the uplink had when a request was reading it.

The chain is proved **from its components**: `ComponentRuns` shows that each
step of `Forwarder` is a step or a stutter of each of them, so their theorems
hold in it as they stand. What is left is the order: `Ordered` says in which
phases the two ends are for each phase of the cross connect. A connection that
is served, and whose refreshes nobody closes, then has two ends that are up, which
by the theorems of the mechanisms have their ports, and a cross connect that is up,
which by that of `L2Connect` has its rules. No invariant of a mechanism is proved again. For
`DanglingCorrect`, `Ordered` also says that the server end waits for the cross
connect, and `CleanInv` of `L2Connect` which rules are left while it closes; the
ports stay where they are as long as an end that is up holds them.
`UnwoundFirstCorrect` needs more of the order, `Unwound`: the client end is
idle when the cross connect is, at most unloading its port info while rules
are deleted, and the server end has not gone before the port info is released. From
it, server ends that are idle mean that all ends and cross connects are, and
`NothingLeftCorrect` is then the three components' theorems on what they leave.

**Only model-checked**: `HandlersReturn` and `ChainReturns`, as liveness under
fairness is out of the prover's reach, and the five violations. The safety half
of the first two is proved: `HolderCanRunCorrect` and `ChainLocks` say that who
has the mutex waits for nobody.

## 6. Not modelled

* Interface names of more than their identity, and `GetVethPeerName`: the ids
  in them are random, so what matters is the hypothesis `DistinctNames`.
* The second interface of a veth pair and `vfconfig`: used by other modules of
  the sdk, read by none here after setup.
* Port numbers: `L2Connect` identifies a port with its number and so assumes
  that Open vSwitch does not reuse the number of a deleted port while a rule
  names it; it avoids to. `GetInterfaceOfPort` returns 0 after five tries, and -1
  for a port that failed, both without error: nothing else in the code depends
  on the value of a number, and a model that identifies ports with numbers
  cannot tell; a test with a scripted `ovs-vsctl` can.
* A cross connect between two tunnels: the rules are modelled
  (`ClientPoint`), but `DistinctPoints` excludes that the tunnels are shared.
* The vlan mechanism inside the composed chain: it has no rules and no client
  port, and `VlanMech` and the breakout in `KernelMech` cover what it shares.
* The options of the forwarder (`options.go`), authorization and the registry
  clients: they hand values on and keep no state.
* The rest of the chain (begin, metadata, connect, discover, mechanism
  selection, recvfd, sendfd, resource pools) is the sdk's: what its calls may
  answer is what the models let next answer.

## 7. Plan

1. The hypotheses that remain: `NothingLeaks` of the kernel asks that no
   container dies, since the reset of a vanished link leaves its entries
   (`kernel_stale_count`). State and prove what is still true then, entry by entry.
2. The chain with port numbers that are assigned and used again, and with
   the vlan mechanism's client end.
3. An instance of `kernel_rollback` with tagged server ends that fail beside the
   client ends, which the proofs cover and one run does not for its size.
