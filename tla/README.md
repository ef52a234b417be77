# A TLA+ model of the pyagent service mesh

`pyagent` is a pair of sidecar agents for Dubbo. A *consumer agent* (CA) takes
HTTP POST requests, picks a provider with a weighted round robin, and forwards
the call over its own ACT protocol to a *provider agent* (PA), which turns it
into a Dubbo request for the provider on the same host and sends the result back
the same way. `start-agent.sh` runs the C++ agents (`src/uv`); a Java and two
Python implementations of the same protocol lie beside them.

This directory models the C++ agents, checks the models with TLC and proves the
central results with TLAPS.

## 1. Inventory

| Part | State | Operations | What is hard |
|---|---|---|---|
| Load balancer, `uv/lb.h` (also `EtcdLB.java`, `ca.py` `EndPoints`) | weights, prefix sums `rate`, pointer `rv`, position `prev` | `insert`, `init_rate`, `nextIdx` | pointer and position advance separately; wrap-around |
| ACT client of the CA, `uv/pa_client.cc` | per endpoint and key hash: connection, `connected`, `que`, `callbacks`/`contexts` by id, reader state | connect, header write, fetch, flush, read reply | requests arrive before the connection is up; replies in any order; ids from `rand()`; no error path recovers |
| HTTP side of the CA, `uv/ca.cc` | one `h_context` per connection with parser and buffer; `pa_client_maps` | accept, read, `_h_on_body`, `act_done_callback`, close | a client that leaves before its answer; bodies split over reads; two processes (`ca_startup.py`) |
| PA server, `uv/pa.cc` | per link a `stream_context`: header, key, reader state | accept, read header, read request, `_dubbo_callback`, close | header must come first, an unknown magic number loops for ever; answers for closed links |
| Dubbo client of the PA, `uv/dubbo_client.cc` | one connection, `queue`, `cbs`/`contexts` by id shared by all links | connect, fetch, flush, read response | ids of different processes meet in one map; connect error is final |
| Buffers, `uv/bytebuf.cc` and the four `alloc_cb` | current buffer per stream, pool shared by the connections of a server, `x_malloc` pool | allocate/copy/swap, pool take and return | no byte lost when the unread rest moves; no buffer used twice |
| HTTP parser, `uv/http-parser/http_parser.c` | per connection: state, header state, remaining length, flags, `nread` | `http_parser_init`, `http_parser_execute` | input cut anywhere; framing decided from several headers; overflow of lengths; when to refuse |
| Codecs, `uv/utils.cc`, encoders, `strn_urlcpy`, hashes | none | pure | sign extension of ids, equal hashes, field lengths |
| Java consumer agent | one socket per host, `FrameParser` state, request map | HTTP handler, socket handlers | header sent by the first request of a socket only |
| Python agents (`ca.py`, `pa_client.py`, `pa.py`, `dubbo_client.py`, `dubbo.py`, `act.py`) | as the C++ ones, clients by host | tornado handlers | as above |
| Start-up (`ca_startup.py`, `pa_register.py`, `start-agent.sh`, `main` of both agents) | etcd keys, processes, seeds | register, wait for 20880, read etcd once, fork, seed, listen | nobody orders the containers; endpoints registered before they listen; two processes with one source of ids |
| Logging, `log_analysis.py`, `mem_analysis.py` | - | - | output only |

The parts interact in one chain: `_ca_on_read` → http-parser → `_h_on_body` →
`lb.nextIdx` → `pa_client_fetch` ⇒ *ACT link* ⇒ `on_read` → `dubbo_fetch` ⇒
*Dubbo connection* ⇒ `_d_read_cb` → `_dubbo_callback` ⇒ *ACT link* ⇒
`_pa_read_cb` → `act_done_callback` ⇒ *HTTP*. Each process is one libuv event
loop, so a callback is atomic and everything between callbacks interleaves.

What makes each part right:

* balancer: each endpoint is chosen exactly as often as its weight per round;
* ACT client: a connection carries its header first and once; each reply goes to
  the connection that asked, once; no reply meets an empty callback slot;
* PA and Dubbo client: a request runs at the endpoint it was sent to, under its
  own key; the answer returns on the link it came from;
* buffers and read loops: the byte stream is cut into exactly the frames that
  were written, whatever the sizes of the reads;
* HTTP side: wherever a stream is cut into reads, each form becomes one call with
  the key the client meant and the parameter as it was written, and what cannot be
  framed is refused;
* start-up: an agent that runs has endpoints it can use, and an endpoint that can
  be found has its provider;
* all together: every request is answered unless something it depends on fails.

The hazards, each at its line, are listed in `PROJECT.json`.

## 2. Modules

| Module | Models | Kind |
|---|---|---|
| `WeightedRoundRobin` | what endpoint selection promises | abstract specification |
| `WeightedLB` | `uv/lb.h`; the choice of `ca.py` as a definition | component |
| `WeightedLBProofs` | - | proofs |
| `ActWire` | the ACT connections: frames, writes, resets | shared state |
| `ConsumerAgent` | `uv/ca.cc` request path, `uv/pa_client.cc` | component |
| `RpcService` | what HTTP clients are promised | abstract specification |
| `CaWithPeer` | `ConsumerAgent` with the least its peers must do | component with environment |
| `WireProofs`, `CaProofs` | - | proofs about frames in transit; about the consumer agent, with its refinement of `RpcService` |
| `ProviderAgent` | `uv/pa.cc`, `uv/dubbo_client.cc`, the provider (external) | component |
| `Mesh` | `ConsumerAgent` + `ProviderAgent` over `ActWire` | composition |
| `MeshProofs` | - | proofs, with the refinement of `CaWithPeer` |
| `FrameReader` | `uv/bytebuf.cc` buffers, the `alloc_cb`s, the three read loops | component |
| `Codec` | the encoders and decoders of a call, `uv/utils.cc` | pure algorithms in a chain of hops |
| `FrameProofs` | - | proofs about `FrameReader` and `Codec` |
| `HttpParser` | `http_parser_execute` of `uv/http-parser/http_parser.c` for requests | operators |
| `HttpMessage` | the requests clients send (external) | operators |
| `HttpStream` | the parser fed with a stream in reads of any size, and what the stream means | component with its reference |
| `HttpIntake` | `_ca_on_read`, `_h_on_body`, `_h_on_message_complete`, `strn_urlcpy` of `uv/ca.cc`, on `HttpParser` | component |
| `HttpProofs` | - | proofs about `HttpStream` and `HttpIntake` |
| `Startup` | `ca_startup.py`, `pa_register.py`, `start-agent.sh`, `main` of both agents; etcd (external) | component |
| `StartupProofs` | - | proofs |
| `XMem` | `x_malloc`, `x_free` of `uv/bytebuf.cc` over `malloc` (external) | component |
| `PaMemory`, `CaMemory` | who takes and releases which block in the two agents | compositions with `XMem` |
| `MemoryProofs` | - | proofs about the pool and both agents |
| `MC*` | constants for TLC | instances |

`RpcService` ⇐ `CaWithPeer` ⇐ `Mesh`: the mesh is a consumer agent with a peer of
the assumed kind (`ImplementsPeer`), and such a consumer agent is an RPC service
(`ImplementsRpc`). Both are model-checked and proved.

### State and actions against the code

*WeightedLB.* Variables have the names of `struct etcd_lb`; `served` is history.
`Insert`, `InitRateStart/Loop/End` (one step per iteration of `init_rate`) and
`NextIdx` are its three methods. `StepRv` and `StepPrev` are the two assignments
of `nextIdx`. The code has no check that there are at most `MAX_EDS` endpoints,
that there is one, or that weights are positive: the model covers the
registrations for which `lb.h` is meant (`start-agent.sh` registers 14, 25, 25).

*ConsumerAgent.* A link is a `pa_client` object. `stage` folds `connected` and
the connect in progress: `none` (absent from `pa_client_maps`), `connecting`,
`keying` (header write outstanding, `connected` = 0), `ready` (`connected` = 1),
`dead` (connect refused or header write failed: no code leaves this state).
`contexts` stands for the two maps `callbacks` and `contexts`, which are always
changed together; `NoConn` is an absent entry. `Fetch` is all of `_h_on_body`:
choice of endpoint, lookup or creation of the client, `rand()`, and
`pa_client_fetch` with its flush. `PaReadCb` is one reply of `_pa_read_cb`
including `act_done_callback` and the erasure. `crashed` records the call
through the null pointer that `callbacks[id]` makes up for an unknown id. The
n-th request's parameter is `n`, so every result can be traced.

*CaWithPeer.* The peer of a link reads the header, then requests, and answers
them in any order; at any time it may lose what it holds or ignore what it reads
(`PeerLose`, `PeerIgnore`), as a provider agent does that has crashed or lost its
provider. Where an id in use was drawn it may answer on another link of the same
endpoint (`PeerMisdirect`), since `dubbo_fetch` then overwrites the context of a
request. `Mesh` refines it with `atPa` as `Inside(l)`: every request of the link
that is anywhere inside the provider agent.

*ProviderAgent.* `pctx`, `hdr`, `hdrKey` are the `stream_context`; `dstage`
folds `connected` of the Dubbo client (`ready` and `reset` both have it 1:
`_d_read_cb` only logs an error); `cbs` stands for `cbs` and `contexts`.
`POnReadHeader`/`POnRead` are one frame of `on_read` each, `DReadCb` one
response of `_d_read_cb` with `_dubbo_callback`. `pa[p] = "spinning"` is the
endless loop on a wrong magic number.

*FrameReader.* Bytes are stream positions, buffers have identities, and the read
loops run field by field. `Alloc` is an `alloc_cb` with `pool_malloc`,
`buf_flip` and `pool_free`; `Read` is `alloc_cb`, `read()` and the entry of the
read callback; `LoopTest` and `Block` are the `while` test and one
`if(state == k)` block. `Format` gives each stream its frames as lengths of
fields; positions are sums of them (`Sums`). The assumptions: a buffer has room
for three bytes (`size / 3` is the least that is offered), and a frame has fields,
the first of them not empty, as the magic numbers and ids are not.

*Codec.* A call goes through the hops of the path, one action each: ACT request,
Dubbo request, the provider (external), Dubbo response, ACT reply. A byte has
`Base` values instead of 256, so that carries between bytes and the limits of an
integer come within reach; texts are sequences of characters. Each encoder is
the concatenation of what it writes, next to the length it reserves. The value
`NoValue` is that of a call that returns nothing, `Failed` that of one the provider
refuses (`_d_read_cb` skips the status in the header): the provider answers with one
line, and the Content-Length is computed from a newline that is not there. A value
may be empty; its Content-Length is 0, and one character follows.

*HttpParser.* One operator for each `case` of the `switch` in
`http_parser_execute` or a few that belong together; `Turn` is one turn of the
loop, with its re-executions, and the record of the parser has the fields of
`struct http_parser` that are used. Input units are ASCII characters, except that
a word the parser compares letter by letter (`HTTP/`, `content-length`, `chunked`)
is two units: enough to end a read in it, and the counters of header bytes run
over units. What is gone over of a header's name or value is counted in one piece
when its loop is left, as in the code (`CountRun`, `CountLast`): the parser that
gives up over a long head stands elsewhere, sometimes with another error, when the
head was cut elsewhere. `ULLONG_MAX` is small so that lengths overflow. The loops that run
over a header value or a chunk inside one `case` are modelled as such, since they
end with the read: that is why a control character may go unnoticed. What is left
out is listed under the component in `PROJECT.json`.

*HttpStream.* `Script` says of a stream, from the records of its requests and
without parsing, which units are body, where messages end, and in which span the
parser has to give up; `OnRead` feeds the parser. `seen` is what the callbacks
reported.

*HttpIntake.* One HTTP connection and the requests a client sends over it.
`CaOnRead` is `_ca_on_read` with its one call of `http_parser_execute`; the
callbacks it makes wait in `pending` and run one by one before anything else
(`HOnBody`, `HOnMessageComplete`), because a form can end the process. `buf` is
the buffer from `read_idx` on, and `past` is how far `read_idx` got beyond
`write_idx`: an end of input inside a message makes the parser return 1. The form
scan of `_h_on_body` and `strn_urlcpy` are recursive functions over the
characters. Where the code uses an offset no branch has set, the outcome is a
choice between fields of no meaning and a crash; `Unset` is the character made of
an escape that is none. `split`, `pipelined` and `hollow` are history; `Orderly`
is what the comment at `ca.cc:80` takes for granted. Forms have the four names
once each, in any order, and no `+`: `strn_urlcpy` has no
case for it (`ca.cc:160`), so that a `+` stays where `ca.py` would read a space. The parameter is
copied and not decoded (`ca.cc:272`), which `Fields` models as it is.

*Startup.* The variables are etcd, what each provider's container has got to
(`register`, `pa`, `dubbo`), the launcher, and for each process its seed, its
balancer's hosts and its clients. `uv_argv` is the flat list of arguments that
`ca_startup.py` makes (`Argv`) and `main` of `ca.cc` takes apart again (`Hosts`).
A seed is the set of the places of its ones: `Bits` of a number, `Shifted` in a word
of 32 bits, and the bitwise or of `time(0) << 4` and the pid is a union. `dubbo` and `client` keep only whether a connect was refused, `early`
is history.

*XMem, PaMemory, CaMemory.* Each callback is the list of its calls of `x_malloc`,
`x_free` and `free`, in the order of the source, run one call at a time to its
end before the next callback. Blocks are named by what they hold and for which
request. `XMem` keeps the pool by size and the size recorded for an address,
which outlives a `free`. `malloc` returns any address without a block. `Size`
gives each kind of block its size; in the runs they fall into five classes, as a
short call has them. TLC identifies states that differ only in addresses
(`VIEW MCView`). The two agents have each its own variables and specification
(`PaSpec`, `CaSpec`) over those of the pool, so that one module can be about both;
for the same reason the specifications of `Codec` and `HttpStream` are called
`CodecSpec` and `StreamSpec`, and the parser of the latter `reader`.

Reading one frame per callback (`ActWire`) is not a restriction: a read that
brings several frames behaves like several reads in a row, and `FrameReader`
shows that frames are cut out correctly whatever the reads bring. In the same way
`HttpStream` shows the parser right for streams that `HttpIntake` is too large to
enumerate, and `HttpIntake` what `ca.cc` makes of what the parser reports.

## 3. Runs

| Run | Question | Bounds |
|---|---|---|
| `weighted_lb` | exact shares, agreement with Python, refinement | ≤ 3 endpoints, weights 1–4: all 84 vectors, all positions of their rounds |
| `ca_with_peer` | routing of replies, header order, crashes, with repeated ids and faults; refinement of `RpcService` up to the first collision | 1 process, 2 endpoints, 3 links (two key hashes at one endpoint), 2 HTTP connections, 3 requests, 2 ids |
| `mesh` | id collisions inside and across processes, execution under the right key, header order | 2 processes, 2 PAs, 2 connections, 3 requests, 2 ids, 3 keys on 2 hashes |
| `mesh_faults` | `Mesh` implements `CaWithPeer`; every request is answered | 2 processes, 1 PA, 3 requests, faults, fair |
| `mesh_retry` | the announced retry of the Dubbo connect | *violated*, see findings |
| `frame_reader` | framing over any split of reads | buffers of 6 bytes; a header, requests and responses with data of 0, 5, 6 and 7 bytes |
| `codec` | a call is the same at both ends, buffers are filled exactly | `Base` 8, ids at every carry, texts of 0 to 2 characters; values the same, none at all, and an error |
| `http_stream` | what the parser reports of a stream, what it refuses, and that cuts do not matter until it refuses | 128 streams of two requests out of 30, reads of up to 8 units or all of it, `ULLONG_MAX` 255, heads of 54 units |
| `http_intake` | one call and one answer for each form, key decoded and parameter as written, the buffer's indices | 4 requests on a connection, 1 read that brings less than what has arrived (`MaxPartial`), 2 that bring nothing (`MaxEmpty`) |
| `startup` | usable balancers, registered endpoints with their provider, dead clients, equal seeds | 2 providers, 2 processes with numbers 1 or 16 apart (`Gaps`) from 30 on, times 0 to 3 |
| `pa_memory` | blocks are exclusive, large enough, returned | 2 requests on a link, 24 addresses |
| `ca_memory` | as `pa_memory`, for the consumer agent | 3 requests, 40 addresses |

Why the bounds are enough: a collision needs two requests with one id, and its
late effect (a second reply that finds the slot empty) a third event on the same
link; three requests over two connections give every order of these. Key mix-ups
need two keys on one hash and one on another; in `mesh` the first two are asked of
one process and the third of the other, which keeps the run small: to a PA
two links are alike whether one process opened them or two (two processes with
the same key are in `mesh_faults`). The two PAs are exchanged by symmetry:
`nextIdx` is left open there. A buffer of 6 bytes makes the `size / 3` rule, a field of exactly the buffer's size, one too long for it, and
an empty field at the end of a read all happen. One partial read is enough to
cut a head, a body or a chunk anywhere, or to join the end of a message with the
start of the next, with further requests to meet the consequences; two empty ones
to fail the parser and to come back with `read_idx` beyond `write_idx`. Every
fault comes after a good message, and all but the two that leave a message
unfinished or a matter of the cut (`Control`, `Short`) also before one. Process
numbers from 30 on lie on both sides of a multiple of 16, where the bits of the
seed overlap differently, and equal seeds do occur, at one time and at two. Among the
faulty requests are lengths that overflow and lengths just below, which the
conservative test refuses as well, and heads that are too long in their number of
headers, in one name, in one value and in the digits of a length.
In `ca_with_peer` two of the links lead to one endpoint, so
that an answer can be misdirected; the connections and these two links are
exchanged by symmetry. The addresses of the memory runs are never exhausted: two requests
are enough for a block of one to be reused by the other with a stale size, and
for a batch of two. Deadlock checking is off where the system may stop:
all requests answered, everything failed, or a process gone.

*Fairness* (`Mesh!Fairness`): weak fairness of the callbacks of each link at
either agent, of the Dubbo client of each PA, and of the provider. A libuv loop
runs every ready callback; the kernel eventually completes or refuses a connect;
the provider finishes the calls it accepted. HTTP clients and faults are under no
obligation. In `FrameReader`, weak fairness of the read callback itself and
strong fairness of reading a socket that has data: epoll reports every readable
socket again in each turn of the loop, between the turns of other streams. In
`HttpIntake`, weak fairness of reading all that has arrived (`ReadsAll`), of the
callbacks of the parser (`CallsNext`), and of the answer to a call that was
started, which is the subject of `Mesh`. Nothing is said of `Startup`'s
progress: the containers may never come up.

### Findings

`mesh_retry`: `_d_on_connect` prints `new connect error %s, lets retry`
(`dubbo_client.cc:250`), but nothing retries; from then on the PA accepts links,
reads requests and queues them for ever.

What the passing runs delimit rather than exclude:

* a body that comes in two reads starts two calls (`OneCallEach` and
  `CrashNeedsSplit` hold for orderly connections only);
* an id that `rand()` repeats while it is in use sends results to the wrong
  connection or ends the process (`AnswersMatch`, `CrashNeedsCollision`,
  `PaCrashNeedsCollision` hold where none was repeated), and two processes whose
  numbers are a multiple of 16 apart can have the same ids (`SameSeedNeedsGap`);
* a read of nothing inside a message ends the connection's parser, and leaves
  `read_idx` beyond `write_idx` (`NegativeLengthUnused`);
* a request without a body is never answered (`RequestAnswered` excepts it);
* whether a request with a control character in a header is refused depends on
  how it is cut into reads (`RefusedForControl` in `HttpStream`);
* where the parser stands when a head is too long, and over which error it gives
  up, depends on the cut: the part of a name or a value that a read brought is
  counted in one piece (`http_parser.c:1353`, `1649`). That it gives up does not
  (`SplitIndependent`);
* three kinds of answer put the connection out of step, since one character is
  written that the Content-Length does not announce (`ca.cc:193-200`): 0 for an
  empty value, a negative number for a call that returns nothing or is refused
  (`ValueAnswered` says so of each);
* the parameter of a form reaches the provider as it was written, escapes
  included (`ca.cc:272`), where the Python agent decodes it (`ca.py:93`):
  `FieldsRight` says that it is what the client meant exactly when it has none;
* a consumer agent that read etcd before an endpoint listened can keep a dead
  client for it for ever (`DeadNeedsEarlyRead`);
* `_pa_read_cb` tells its callback to release `result` (`pa_client.cc:67`), and
  nothing does: every reply keeps a block (`OnlyResultsLeak` says nothing else
  stays).

## 4. Proofs

All theorems hold for every value of the constants that satisfies the named
assumptions; the assumptions are evaluated by the runs. `PROJECT.json` lists the
theorems, each with the property of a run that it states, where there is one.

**Balancer** (`WeightedLBProofs`: any capacity, any set of positive weights):
type correctness, `SlotOwner`, `ExactShare`, `AgreesWithBisect`, `RoundIsExact`,
and the refinement of `WeightedRoundRobin`. The inductive invariant `LBInv` adds
that the prefix sums grow by at least the weight between *any* two indices, not
only neighbours: without it nothing excludes that `prev` wraps to 0 while `rv`
is in the middle. The fact is built by the loop of `init_rate`, which is why that
loop is modelled step by step. Its main lemma, `StepPrevValue`, says that the
remainder operation wraps exactly at the end of the last endpoint's block.

**Consumer agent** (`CaProofs`: any number of processes, endpoints, keys, links,
connections, ids and requests, any peer that `CaWithPeer` allows, with and without
faults): type correctness, `HeaderFirst`, `AnswersMatch`, `AnsweredOnce` and
`CrashNeedsCollision`. The assumptions are those of `ActWire` and `ConsumerAgent`
(`WireAssumption`, `AgentAssumption`): a link has one process, one endpoint and
some keys, and `NoConn` is no connection. The invariant has two layers. `Basic`
is about one link at a time: the types, that nothing is on a connection that is
not up, that a connection whose header was not read has something on it, and that
the header is the first frame and the only one of its kind (`LinkOK`,
`HeaderOK`). `Delivery` rests on it and follows a request over its link: each
frame in the queue, on the wire, at the peer or on its way back carries the number
and id of a request that was made (`Traced`); until it is answered it is in one of
these places only, once (`Once`); where no id in use was drawn, an id is in one
place and its slot holds the connection that asked (`Routed`, `Exclusive`); and an
answered request is in none of them (`Settled`). `AnswersMatch` and
`CrashNeedsCollision` need `Routed`: a second frame with the same id would meet an
empty slot, or one that another request has taken since. `AnsweredOnce` needs
`Settled`. `WireProofs` has the lemmas about a frame that moves through four places
one after the other, which are used for ACT links here and for the inside of a
provider agent below.

**Refinement of `RpcService`** (`CaProofs`: `CaImplementsRpc`). Until an id is
drawn while in use each callback of a consumer agent is a call, an answer, a
hang-up or invisible; from the first such id on the specification allows anything.
What the step of an answer needs beyond `Delivery` is that a connection waits for
one request at a time (`Waiting`): `ca.cc` does not count, so the connection is
free again only because the result just written belongs to the one request of it
that had none.

**The mesh** (`MeshProofs`: any number of processes, endpoints and links). The
provider agent is a peer of the assumed kind (`MeshImplementsPeer`), so the chain
is an RPC service until an id collides (`MeshImplementsRpc`), and the properties of
the consumer agent hold of the running system (`MeshAnswersMatch`,
`MeshAnsweredOnce`, `MeshCrashNeedsCollision`). Of the provider agent itself:
`PaNeverSpins`, `PaCrashOnlyAfterCollision` and `MeshKeyFidelity`. The argument is
circular at first sight: that `dubbo_fetch` overwrites no context follows from
where ids may be on the agents' side, and that the agents' side behaves as
`CaProofs` says follows from what provider agents do. So one invariant, `MeshInv`,
joins `Basic` and `Delivery`, with `Inside(l)` for what the peer holds, and
`Interior`: each frame inside a provider agent is that of a request sent to it,
once (`PaTraced`, `PaOnce`), without collision its context is the link it came on
(`PaRegistered`, `PaHome`), its key has the hash of the link (`KeyFits`,
`KeyTraced`). A step of the provider agent preserves the first part because it is
a step of the peer, the second by its own lemmas.

**Read loops** (`FrameProofs`: any number of streams, all frames and lengths of
fields, any buffer of at least three bytes): `BufferOwnedOnce`, `NothingMixedUp`,
`NoFrameLeft`, `StarvedNeedsLongField`. The invariant `FrameInv` says of each
stream what its buffer holds (`Holds`: exactly the bytes received and not parsed),
at which field of which frame it is (`Placed`) and what the loop still needs when
it ends (`Waits`). Positions are sums over fields, a recursive function; what it
computes is proved by the least counterexample (`Least`, from the library's
theorem that `<` is well founded), not by an induction rule.

**Codec** (`FrameProofs`: any even `Base`, any ids that `rand()` can draw, any
texts, the empty one included): `IdSurvives`, `ProviderSeesCall`, `BufferFilled`,
`ValueAnswered` with its three kinds of answer out of step. The
assumptions are `CodecAssumption` and `LengthAssumption`: the length of a Dubbo
request made of these texts fits an `int`, as the code takes it to
(`dubbo_client.cc:25`).
The invariant `CallOnTheWay` says at each hop what is on the wire and what was
read so far in terms of the call alone, and is carried from one hop to the next by
lemmas about what the next decoder finds: an integer comes back from its bytes
whatever its sign (`IntReadBack`, `LongReadBack`), a field from the place it was
written to (`KeyRead`, `FrameRead`), and the n-th line of a Dubbo body ends where
its newline was written, since a text has none of its own (`LineOrder`,
`BodyLines`, `FieldsSeen`, `BodyRead`).

**HTTP** (`HttpProofs`). `SplitIndependent`, for every set of streams of requests
(`StreamAssumption` gives them their form and nothing else: they may be
contradictory, too long or malformed), every cut into reads and all bounds on
lengths. `Chain` is a run of the parser that takes the units one at a time, each
in a call of its own; the invariant `StreamInv` says that the parser is where the
chain is, or has failed as the chain has. `ExecuteFollows`, which says that one call
comes to the same as the chain over its units, needs four things. Outside a body a turn of the loop depends
on the parser and the unit alone, not on the place or on what was read before in
the same call: one lemma for each handler (`StartReqAlike` and on), put together
in `OnUnitAlike`. In a body the loop jumps over as many units as it can, which
comes to the same as unit by unit (`EatenOnward`, `ChainInBody`). A header name or
value is gone over in a loop of its own inside one handler, which comes to the same
for the state, unless a value holds a control character (the property excepts
these), but not for the count, which is made in one piece when the loop is left. So
a run inside a name or a value is compared with what it is once its units are
counted (`Brought`); a run that has too many to count fails when it counts them, and
the chain has failed before (`Lost`). And `Loop`, which counts
its turns in blocks, takes enough of them (`LoopIs`, `BlockFollows`). Of a parser
between two calls it is enough to know `Good`: in a body something is left of it.
`NegativeLengthUnused`, for all forms and framings: `IntakeInv` says that
`read_idx` is beyond `write_idx` only when the parser has failed, no new one is due
*and no callback is left to run*, which could make one due. That a read leaves it
beyond only at an end of input is `ExecuteKeeps`: no other call parses more units
than it was given.

**Start-up** (`StartupProofs`: any finite set of providers, any order in which the
containers come up): `BalancerUsable`, `RegisteredServes`, `DeadNeedsEarlyRead`,
`SameSeedNeedsGap`. The invariant `StartInv` relates how far each host is, what
`ca_startup.py` found, and what each process has of it. `HostsOfArgv` says that
`main` takes out of the arguments what was put in, for any number of endpoints.
`SameSeedNeedsGap` holds for all times and process numbers: equal words have the
same ones in places 0 to 3, where the shifted time has none (`SeedFacts`), and
numbers with the same ones there are equal modulo 16 (`LowBits`).

**Memory** (`MemoryProofs`: any heap, all sizes, any number of requests):
`MemorySound` for both agents, `NothingLeaks`, `OnlyResultsLeak`. Three ideas:

* *Legal programs.* A callback's list of calls is `Legal` for the blocks held if it
  takes each block once under a name not in use and releases each once while it is
  held. `PoolStep`: one call of a legal program keeps the pool sound, whatever
  function it releases with. The invariant `PoolInv` says why the stale sizes do no
  harm: the size recorded for an address may be wrong only while no block of
  `x_malloc` is there, and `x_malloc` records it anew.
* *Stages.* A request's number is in one place of its way, once (`Staged`): in the
  queue, in a batch being written, at the other side, in an answer being written;
  what an error path left is apart.
* *Ledger.* What the running callback will hold when it ends (`Kept`) is what the
  requests need in their stages, plus what is left for good (`PaLedger`,
  `CaLedger`). Every program is legal because of the ledger, and at rest nothing
  but what is left can be held.

The ledger refers to the end of the callback, so that it is an invariant during
its calls as well. The programs of a batch have a length that depends on it;
`BatchMade` and `BatchEnds` say for every batch that they are legal and what stays.

Stated by a theorem and checked by no run, since the proof covers it:
`RoundIsExact`, the type invariants, `SlotOwner`, and that the whole mesh is an RPC
service.

What stays with TLC. Liveness under fairness is out of the prover's reach:
`EventuallyAnswered`, `EveryFrameDelivered`, `RequestAnswered`. Not proved either:
`FramedAsSent` and `RefusedExactly`, which compare what the parser reports with an
independent reading of the stream, and `FieldsRight`, `OneCallEach`,
`ParserKeepsPlace` and `CrashNeedsSplit`, which need to know what it reports of a
message. Both are about walking a whole message through some fifty states of the
parser, with every callback on the way; the proofs above relate runs of the parser
to one another, so that they need not say where a run is. With
`SplitIndependent` proved, that walk could be made unit by unit, whatever the cuts.

## 5. Not modelled, and the plan

The order of the remaining work:

1. Proofs: the walk of the parser through a regular message, and with it the
   properties of `HttpIntake` listed above.
2. `JavaAgent`: `HttpServerVerticle`, `FrameParser`, `EtcdLB`: one socket per
   host, the header of the first request only.
3. `PyAgents`: clients by host in `ca.py` and `pa_client.py`, `pa.py`.

The Java and Python agents are alternatives that `start-agent.sh` has commented
out, which is why they come last.

Left out of modelled parts: forms that lack a name or have one twice; the
polynomial of `bkdr_hash` (equal hashes are covered by `mesh`); of http-parser
everything for responses, the callbacks `ca.cc` does not set,
`http_parser_pause`, `http_parser_parse_url` and `http_parser_parse_host`, 30 of
the 34 methods (they are one comparison with a table), the lenient build and the
upgrade of a connection beyond the parser's own stop. In `ca.cc` the return of
`http_parser_execute` is not looked at after an upgrade either: clients of this
service have no reason to ask for one.

Left out for good: logging, the two analysis scripts, packaging, `bench.c`.
