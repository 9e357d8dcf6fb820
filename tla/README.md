# Verification of vncviaxmpp in TLA+

The repository carries a VNC session over an XMPP chat: the client program
accepts a VNC viewer's TCP connection and pumps its bytes into a chat; the
server program, logged in as another user, opens a TCP connection to a VNC
server for every new chat thread and pumps bytes both ways.  There are three
Java versions of it (`javavnc`, the current one; `vnc2xmpp` over Smack 2.2.1;
`vnc2xmpp3` over Smack 3) and the beginning of a C++ one (`vnc2gtalk`), whose
two programs are stubs, and which brings along the source of the XML parser
expat, to read XMPP with.

This directory models the tunnels of all three Java versions, the servers of
`javavnc` and `vnc2xmpp`, and the parser: it is most of the C code of the
repository, and the part of `vnc2gtalk` that does something.

| file | what it is |
|---|---|
| `SequenceNumbers.tla` | the `<sequence>:<text>` framing and the receiver's check |
| `Tunnel.tla` | one tunnel end to end: both pumps at both ends, Smack's callback threads, the connections, the faults |
| `Pipe.tla` | the abstract specification of one direction of a tunnel |
| `TunnelInv.tla`, `TunnelProofs.tla` | the inductive invariants of `Tunnel`, and its theorems with their TLAPS proofs |
| `Server.tla` | the server's session loop and its packet listeners, with several viewers |
| `ServerInv.tla`, `ServerProofs.tla` | the inductive invariant of `Server`, and its theorems |
| `LegacyTunnel.tla` | one tunnel of `vnc2xmpp` and `vnc2xmpp3`; implements `Pipe` |
| `LegacyInv.tla`, `LegacyProofs.tla` | the inductive invariant of `LegacyTunnel`, and its theorems |
| `Relaunch.tla` | the server of `vnc2xmpp`, which calls its own `main` again |
| `RelaunchInv.tla`, `RelaunchProofs.tla` | the inductive invariant of `Relaunch`, and its theorems |
| `XmlTok.tla` | expat: the tokenizers, as operators |
| `XmlChunks.tla` | expat: the loops that take tokens from a document that comes in pieces |
| `XmlRole.tla` | expat: the state machine of the prolog |
| `Declarations.tla` | the abstract specification of the order of its roles |
| `XmlRoleInv.tla` | the inductive invariant of the machine |
| `ContentModel.tla` | expat: element declarations and their content models |
| `XmlProlog.tla` | expat: entity, attribute and notation declarations, the DOCTYPE |
| `XmlDoctype.tla` | expat: the loop of `doProlog`, which composes the three |
| `XmlDoctypeInv.tla`, `XmlDoctypeProofs.tla` | the inductive invariant of `XmlDoctype`, and the theorems of `XmlRole` and of `XmlDoctype` |
| `XmlValues.tla` | expat: entity values and attribute values |
| `XmlAttributes.tla` | expat: attributes and namespaces of a start tag |
| `XmlAttributesInv.tla`, `XmlAttributesProofs.tla` | the inductive invariant of `XmlAttributes`, and its theorems |
| `XmlContent.tla` | expat: content, entities, stop and resume |
| `XmlReader.tla` | the abstract specification of what the application is told |
| `XmlContentInv.tla`, `XmlContentProofs.tla` | the inductive invariant of `XmlContent`, and its theorems |
| `XmlBuffer.tla`, `XmlBufferProofs.tla` | expat: the parse buffer, and its theorems |
| `MC*.tla`, `*.cfg` | small instances for TLC: `MCTunnel`, `MCTunnelFaults`, `MCTunnelEnds`, `MCServer`, `MCOldPrograms` (`LegacyTunnel` and `Relaunch`), `MCXmlTexts` (`XmlChunks` and `XmlValues`), `MCXmlDoctype`, `MCXmlContent` (`XmlContent` and `XmlBuffer`), `MCXmlAttributes` |
| `PROJECT.json` | components, runs, mutants, source map, findings, hazards, theorems |

Paths below are relative to
`src/javavnc/src/main/java/org/javavnc/` unless they start with `src/`, and of
the parser relative to `src/vnc2gtalk/vnclib/expat/Source/lib/`.

## 1. Inventory

### Components, their state and their operations

**Message framing** (`common/TCP2XMPPPumpThread.java:19`,
`common/XMPP2TCPPumpThread.java:23`).  State: the sender's `sequence`, the
receiver's `lastSequence`.  Operations: `addSequence`, `checkSequence`.
Correct when a receiver never accepts two messages with another one missing
between them, and never after it has refused one.

**TCP-to-XMPP pump** (`common/TCP2XMPPPumpThread.java`).  State: where it is,
`sequence`.  Operations: send `_start`; read a chunk and send it; at the end
of the stream send `_end`; any exception ends the thread.  Correct when
`_end` is said only at the real end of the stream, and last.

**XMPP-to-TCP pump** (`common/XMPP2TCPPumpThread.java`).  State: `stop`,
`lastSequence`, and a chat listener that runs on another thread.  Operations:
register the listener; poll `stop` each second; the callback checks the
number, writes, or shuts the output down.  Correct when the socket is given a
run of the peer's stream and nothing after the pump was told to stop.

**Tunnel threads** (`tcp2xmpp/TCPOverXMPPThread.java`,
`xmpp2tcp/XMPPOverTCPThread.java`).  State: the two pumps, the socket, at the
client also a connection of its own.  Operations: start both pumps, join
both, close the socket (and disconnect).  Correct when every tunnel that is
told its stream has ended closes.

**Server: packet listener and session loop** (`xmpp2tcp/MyPacketListener.java`,
`xmpp2tcp/MyConnectionListener.java`, `xmpp2tcp/XMPP2TCPMain.java`).  State:
the `threads` map from thread id to tunnel thread, the `errors` list, the
connection.  Operations: for a message of a thread with no live tunnel,
connect to the VNC server, create the chat and start a tunnel, or refuse it
with `0:_end`; an exception there, or the loss of the connection, is added to
`errors`; the loop polls `errors`, disconnects, and three seconds later starts a
new session.  Correct when a session without faults is never given up, each
tunnel gets its own messages only, and a lost connection is always noticed.

**Client main program** (`tcp2xmpp/TCP2XMPPMain.java`): accepts one viewer,
starts its tunnel thread.  Sequential.

**Connection set-up** (`common/XMPPConnectionManager.java`,
`src/javavnc/src/main/java/org/jivesoftware/smack/SSLXMPPConnection.java`):
tries port 5222, then SSL on 443.

**VNC installation and launch** (`common/VNCManager.java`): unpacks a
resource, edits the registry, starts processes.

**vnc2xmpp** (`src/vnc2xmpp/src/com/fcg/xmpptcp/`): the same tunnel with a
packet collector per chat in place of a listener; the end of a stream always
says `_end` and always shuts the output.  Its server relaunches its own
`main` when the connection is lost, with `threadIds` and the connection in
statics.

**vnc2xmpp3** (`src/vnc2xmpp3/src/com/fcg/xmpptcp/`): between the two; its
listener loops over one message.  Also a Jingle demonstration
(`jmf/Demo.java`).

**vnc2gtalk** (`src/vnc2gtalk/vncclient/vncclient.cpp`,
`src/vnc2gtalk/vncserver/vncserver.cpp`): two main programs that print and end.

**expat: tokenizers** (`xmltok_impl.c`).  No state: from a position in the
buffer to the first token there, where the next begins, an error and its
place, or that the buffer ends too early.  Correct when the pieces a document
comes in do not matter.

**expat: prolog roles** (`xmlrole.c`).  State: the handler that takes the next
token, the level of groups and of conditional sections, the role the end of
the declaration has.  Operations: one handler per place in a declaration.
Correct when a declaration's roles come in the order the parser acts on.

**expat: document type declarations** (`xmlparse.c`, `doProlog` and what it
calls).  State: the entity tables, the attribute and element types, the
scaffold of a content model, the variables and string pools that carry text
from one token to the next, `keepProcessing`.  Operations: one per role.
Correct when the application is told what the declaration says, the first
declaration counts, and nothing counts after a reference that was not read.

**expat: values** (`storeEntityValue`, `storeAttributeValue`,
`appendAttributeValue`).  Correct when each reference is expanded once and
each blank normalized once.

**expat: attributes and namespaces** (`storeAtts`, `addBinding`,
`defineAttribute`, the end tags in `doContent`).  State: the mark in front of
each attribute name, the bindings in scope and the ones they hide, the blocks
of expanded names, the hash table of names with its version.  Correct when
duplicates are found, defaults supplied, scopes undone.

**expat: content** (`doContent` and the processors).  State: the processor, the
C stack of `doContent`, the open entities, the open tags, `ps_parsing`.
Operations: `XML_Parse`, one token, a reference, the end of an entity,
`XML_StopParser`, `XML_ResumeParser`.  Correct when every token is told once
and in order.

**expat: parse buffer** (`XML_GetBuffer`, `XML_ParseBuffer`, `XML_Parse`).
State: the block, three offsets, the bytes given and consumed.  Correct when
the bytes not consumed are all there, with their context in front.

**expat: pools, hash tables, encodings, setters**, **xmlwf**, examples and
tests: see "Not modelled".

### How they interact

```
 viewer -TCP- [client: t1, t2, tunnel thread] -chat- [server: callback thread -> t1, t2, tunnel thread] -TCP- VNC server
                                                        |  threads, errors  |
                                                        [ session loop: connect, listen, poll errors, disconnect ]
```

The two pumps of a tunnel share nothing but the socket and the chat.  A
tunnel's incoming half runs on Smack's listener thread: one thread per
connection, which takes packets one by one and offers each to all listeners,
`MyPacketListener` and the library's `ChatManager` among them.  `ChatManager`
finds the `Chat` of the thread id and calls that chat's listeners, if any.
The listener thread shares `threads` with nobody, `errors` with the session
loop, `stop` and `lastSequence` with the pump.

```
 application --XML_Parse--> [ buffer ] -> processor: doProlog | doContent | ... --handlers--> application
                                            | tokenizers         | XmlPrologTok -> role machine
                                            | open entities, tags, bindings, tables of the DTD
```

The parser is one thread, and still its steps interleave: the application
cuts the document where it likes, and each handler may stop the parser, which
then returns through a stack of C calls and is later entered at another place.

### What is hard

* *Interleaving*: the chat listener is registered by the new pump thread while
  the callback thread delivers the very message that made the tunnel.
* *Unreliable delivery*: XMPP drops what is sent to an offline user; a
  connection that dies takes its last messages; Smack reconnects the client
  behind the program's back, so that a chat goes on with a gap in it.
* *Protocol sequences*: messages that arrive after their tunnel has ended;
  the refusal, numbered 0 outside the sequence; a listener that is never
  removed.
* *Partial failure*: one pump fails, the other goes on; the refusal fails.
* *Liveness*: a pump that waits for a message, a join that waits for both.
* *Stale state*: tunnels of a session that was given up still run in the next.
  In `vnc2xmpp` all launches of the server share two statics, and the listener
  of a lost connection may be in the middle of a message.
* *Re-entry* in the parser: suspended in a token, in an entity, in an entity of
  an entity, resumed by a different function than the one that stopped.
* *State carried between tokens*: one pool, a dozen variables, marks and
  bindings that must be back where they were at the end of a tag.

The list with lines and the properties that answer each is `hazards` in
`PROJECT.json`.

## 2. The models and the code

### `SequenceNumbers`

`Accepts` and `CheckSequence` are the two halves of `checkSequence`: whether
it throws, and what `lastSequence` is afterwards.  A message body is a record
with its number, its kind and, for data, the number of the chunk; base64 is
dropped, because `_` is not in its alphabet and the three kinds of body cannot
be confused.  The counters are Java `long`s and are unbounded here.

### `Tunnel`

One viewer's connection from end to end, during one session of the server.
`End` is `{"client", "server"}`, and every variable that both ends have is a
function of it.

| code | model |
|---|---|
| `TCP2XMPPPumpThread.run`, lines 28-47 | `SendStart`, `ReadChunk`, `ReadEof`, `ReadFails` on `t1[e]`, `sequence[e]`, `got[e]` |
| `chat.sendMessage` on a connection that is down | `Sends`: the number is used up, `t1` is `"failed"` |
| `XMPP2TCPPumpThread.run`, lines 44-53 | `Register`, `PollStop` on `t2[e]`, `stop[e]` |
| `MyMessageListener.processMessage`, lines 55-74 | `ProcessMessage` (`WriteChunk`, `ShutdownOutput`, `StopOnly`) on `last[e]`, `written[e]`, `outShut[e]` |
| `XMPPOverTCPThread.run`, `TCPOverXMPPThread.run` | `CloseServerTunnel`, `CloseClientTunnel` on `tun[e]` |
| `MyPacketListener.processPacket` | `DispatchKnown`, `DispatchNew`, `DispatchRefuse`, `DispatchFails` |
| Smack's reader, callback thread and `ChatManager` | `chan`, `Arrive`, `inbox`, `Take`, `cur`, `ClientReceives`, `ServerDelivers`, `DeliverToChat` |
| `errors.add`, `maintainXMPPConnection` giving up | `ChargeError`, `ServerGivesUp`, `ServerSkips` |
| the client's connection, Smack's `ReconnectionManager` | `ClientDrops`, `ClientReconnects`, `Lose` |
| the local application | `AppClose`, `AppReset` |

`Faults` names the faults a configuration allows: a reset of a TCP
connection, the loss of the client's or of the server's XMPP connection, a
VNC server that refuses, a garbage collection that frees the chat of a
refusal, a `disconnect` whose 150 ms are not enough to flush.

Abstractions, each one a choice: sends and writes do not block; testing and
setting `stop` is atomic (the field is not `volatile`); a chunk is what one
read returns; messages of one chat stay in order, as XMPP orders them; a
message goes to the program that owns the thread, although the service routes
a message for a bare user name among all that user's logins; the callback
thread visits `MyPacketListener` before `ChatManager` (`Server` has both
orders).

`lost[e]` is a history variable: a message for `e` never reached a listener,
because XMPP dropped it, because a dying connection took it, or because the
chat had no listener yet.  Nothing reads it but properties.

### `Pipe`

What one direction promises, with four variables: a run of consecutive
chunks, shut only at the end of the stream or before anything was given.
`Tunnel` implements it twice, as `Downstream` (VNC server to viewer) and
`Upstream`; the refinement maps `produced` to `got` at the sending end,
`finished` to `t1 = "done"`, `delivered` to `written` and `ended` to `outShut`
at the receiving end.

### `Server`

The loop of `maintainXMPPConnection` with one action per call that can fail
(`Connect`, `Login`, `Listen`, `Watch`, with `ConnectFails` and `SetUpFails`;
`GiveUp`; `StartOver`), and the callback thread of the session with one action
per listener visited.  The state follows the code: `threads` is the map of
`MyPacketListener`, `errors` whether the list has an element, `listener` and
`watcher` what has been registered.  `chat`, `userChat` and `manager` are the
library's `ChatManager`: its chats by thread, the latest chat the server made
for the user, and whether the manager exists, since the first
`getChatManager` makes it and registers its listener.

The order in which Smack visits two listeners is that of their identity
hashes, arbitrary and fixed for a session: `order` is chosen at `Connect`.
When `ChatManager` comes first, the first message of a new thread is taken to
the latest chat of the user, which is another viewer's tunnel: its `_start`,
numbered 0, resets that tunnel's `lastSequence`, and that viewer's next
message is then refused.  `OwnStream` therefore speaks of the other order.

`setup`, chosen at the start and never changed, holds what may happen in a
behaviour: the faults, the orders of the listeners, and the bounds.  So one run
has behaviours of several kinds and no two kinds in one behaviour; `XmlDoctype`,
`XmlContent` and `XmlAttributes` have one too.

Where the guards of a `CASE` overlap, in the tokenizers and the values of expat,
its alternatives are meant in the order of the tests in the code, which is the
order in which TLC takes them; in the modules that have proofs they exclude each
other, or are a chain of `IF` (but for `Reserved` of `XmlAttributes`, of which the
proofs use only whether it answers with an error).

A tunnel is here its incoming half.  The chat threads of a session that was
given up go on with objects of their own (the old connection, the old `errors`
list, the old map), which the next session does not see: `GiveUp` forgets
them.  In the code they also never end, because nothing sets their `stop`.

### `LegacyTunnel`

The tunnel of the older programs.  `program` says of which one, `src/vnc2xmpp/`
or `src/vnc2xmpp3/` (then `Listens`), and stays what it is, as does `viewer`:
one that `Waits` does not speak before the VNC server does, as the VNC protocol
has it.  A new thread id makes
`dispatch` "opening", and `Open` or `Refuse` is the rest of `processPacket`, when
the socket is open or cannot be opened: what the packet reader sees between
the two is in no collector, and `missed` remembers which kinds of message it
was.  `Receive` is one turn of the second pump, `ProcessMessage`
a whole call of the listener of `vnc2xmpp3`, whose loop over one message
writes the first chunk and then shuts the output.  `SendEnd` is the `_end`
after the loop, which a failed read reaches too.  Smack 2.2.1 does not connect again: after `drop` the
connection is down for good.  `vnc2xmpp3` is checked without lost connections,
since Smack 3 would connect again.

### `Relaunch`

`main` of `src/vnc2xmpp/src/com/fcg/xmpptcp/xmpp2tcp/XMPP2TCPMain.java` with one
action per call that can fail, for a sequence of `Launches`; `threadIds` and
`con` are the statics they share.  The packet listener of each launch has its own thread, which
looks at the table, opens a socket (as long as it takes), and then makes a
`Chat` on whatever `con` is by then.  `Lose` starts the connection
listener, which clears the table, closes the connection, and after a sleep
calls `main` again.  Packets queued for the listeners of a lost connection are
dropped, the one in hand goes on: `ProcessPacket` is the call of `processPacket`, and
`Take` its synchronized block, before which the connection may be lost.

### The parser

| module | code | abstraction |
|---|---|---|
| `XmlTok` | each `scan...`, `contentTok`, `cdataSectionTok`, `prologTok`, `ignoreSectionTok`, `getAtts`, `updatePosition` under its own name | a byte is its class; a character of two bytes is `lead`, `trail`; keywords are short; `MINBPC` is 1 |
| `XmlChunks` | the loops of `doProlog`, `doContent`, `doCdataSection`, `doIgnoreSection` | what a token does is left to the modules below |
| `XmlRole` | one operator per handler, named as in `xmlrole.c`, a set of rows | a token is its kind and the word it spells |
| `ContentModel` | the roles of `<!ELEMENT ...>`, `nextScaffoldPart`, `build_model`; a call of `build_node` within its own loop is a loop on a stack of loops | a name is the place of its token |
| `XmlProlog` | the roles of the other declarations in `doProlog`, in the step of `XmlRole` that returns the role | a text is the sequence of token numbers it was copied from; a pool is its unfinished text |
| `XmlValues` | `storeEntityValue`, `storeAttributeValue`, `appendAttributeValue` over `XmlTok`'s value tokenizers | character numbers and predefined entities are constants |
| `XmlAttributes` | `storeAtts`, `addBinding`, `defineAttribute`, `getAttributeId`, the end tag | a block of names moves whenever it likes; allocation succeeds |
| `XmlContent` | `doContent` with the calls it makes of itself as the sequence of active calls; the processors; `XML_Parse`, `XML_StopParser`, `XML_ResumeParser` | tokens come whole |
| `XmlBuffer` | `XML_GetBuffer`, `XML_ParseBuffer`, `XML_Parse`, stop and resume | a byte is its number; a processor consumes any number |

`XmlProlog` and `ContentModel` extend `XmlRole`, and `XmlDoctype` composes them:
`Round` is one turn of the loop of `doProlog`, in which the machine takes a
token and the case of its role changes the variables of both (`Declares`,
`Records`); `SetHandler` is the application between two tokens; `MachineAlone`
is the machine of `xmlrole.c` given any tokens at all.
`said` is a history variable: for each part of a declaration (`Texts`), what its
tokens have said of it since the declaration began.  Only properties read it.

The parser of an external parameter entity, and of the external subset, works on
the same DTD as the one that made it (`xmlparse.c:987`), while that one waits in
its handler.  `ReadElsewhere` is all it can have done when the handler returns
(`ParamEntityRef`, `DoctypeClose`): entities of `Shared` names have been declared,
`keepProcessing` may be lost, and then a declaration may have been left with its
name only.  A parser of an external entity is `XmlDoctype` too, with a DTD that
others have filled (`PrologInit`), and without a DOCTYPE.  What is left out: an entity that is read in part
only (the handler reads it to its end or not at all; when it fails all is over),
public identifiers and notations of the entities declared elsewhere, references
to external entities within an entity value (`storeEntityValue`, whose effect on
`keepProcessing` is in `EntityValue`), and an element declaration under way
survives an external reference only as far as `RecordedElsewhere` says.
`XmlValues` and `XmlChunks` use `XmlTok`.  `XmlContent` implements `XmlReader`, in which what is left
to read is one sequence and there are no pieces, processors or suspensions, but for
the steps in which a suspension makes it lose its place (`ForgetsDeclaration`,
`ForgetsSection`, `ForgetsEntity`);
`XmlRole` implements `Declarations`.

Details that a reader of the code may look for:

* In a document that comes in pieces, data right before an error may be told or not,
  by where the pieces end; `PiecesDoNotMatter` compares what comes before.
* `ignoreSectionTok` misses `]]>` after an additional `]`: the model does what
  the code does.
* `doIgnoreSection` has error codes of its own for a section that is not closed;
  error codes are one value where no property tells them apart.
* After an undeclared parameter entity in an entity value the rest of the text
  is lost and the entity stays declared (`ValuesAsSpelled` says so).
* CR LF in one entity text is one blank also when both were written by number.
* The hash version of `storeAtts` starts at 2 in the runs, in place of
  2^32 - 1: the second tag meets the entries of the first under an older
  version, and the third one finds that the versions have wrapped.
* After an error nothing more is done with a parser.

## 3. The runs

All state spaces are finite, and those of the passing runs are searched
completely.  Deadlock is not checked: a tunnel really ends, viewers really stop
sending, a document ends.  A run that has behaviours of several kinds names
them, separated by semicolons.

| run | bounds | question |
|---|---|---|
| `tunnel_all` | 3 chunks in either direction, 1 drop of the client; 1 chunk in either direction, 1 drop, every fault | `EndMeansAll`, `CompleteUnlessLost`, `StopIsFinal`, both refinements of `Pipe`, and the inductive invariant `IInv` of the proofs |
| `tunnel_ends` | 1 chunk up; resets, refusals, collection, 1 drop of the client, or the server's drop by itself | `EndPropagates`, `EndClosesTunnel`, `RefusalClosesViewer` under fairness |
| `tunnel_brand_new` | 2 chunks up, 1 down, no faults | violated: see the findings |
| `server_streams` | 2 viewers, 4 messages each, every fault but a lost connection and an unreachable service; 3 messages each, 1 drop, both orders | `OwnStream`, `SplitOnlyByRestart`, `HealthySessionKept`, and the inductive invariant `IInv` of the proofs |
| `server_noticed` | 1 viewer, 3 messages, 2 drops, every fault, both orders | `DropIsNoticed` under fairness |
| `server_wakes` | 1 viewer, 4 messages, resets | violated: see the findings |
| `old_programs` | a tunnel: 2 chunks up, 1 down, every fault, both programs, both kinds of viewer; or the server: 2 threads, 2 messages, 2 losses, exceptions | `StreamsArePipes` (two refinements of `Pipe`), `NoDataIsMissed`, `OneMessageOnly`, `ServedOnce`, and `EndClosesTunnel` and `ServesAgain` under fairness |
| `texts` | nine beginnings of content over 5 to 9 classes of bytes to a length of 5 to 10, six of start tags from within a value to a length of 11 to 16, and seven of a prolog over 4 to 16 classes to a length of 4 to 9, in every division into pieces; 4 pieces (references of each kind, blanks, a line end) spread over the texts of two entities and a value | `PiecesDoNotMatter`, `LinesAddUp`, `TokensAsSpelled`; `ValuesAsSpelled` |
| `doctype` | 15 tokens of element declarations with 3 levels; 12 tokens of every declaration in a document; 10 tokens in an external subset; 9 tokens of its element declarations with references; one name that other parsers declare too; any tokens at all for the machine, 3 levels of groups, 2 of sections | `TellsDeclarations` (refinement of `Declarations`), `ModelsFit`, `ReportsTheDeclaration`, `ConnectorsNotMixed`, `EventsAsSpelled`, `FirstDeclarationBinds`, `NothingAfterSkipped` |
| `doctype_shared` | the document of `doctype` | violated: see the findings |
| `content` | 7 tokens with two entities, one of them with a CDATA section, a stop in any handler; 5 tokens with eleven entities; 6 tokens of an external entity, with a stop in most handlers; and the buffer, 7 bytes, pieces of up to 3, context of 2, a first block of 1 | `ToldAsWritten` (refinement of `XmlReader` but for three steps), `FinishesComplete`, `ElementsWithinEntities`, `ErrorsAreReal`; `BufferSafe` |
| `attributes` | 1 declaration, 3 tags one within another, namespaces; 2 declarations, 2 tags without; colliding hashes, versions that wrap at the third tag | `RefusedRightly`, `AttributesAsDeclared`, `EndsAsItBegan`, `NothingLeftBehind` |

Why the bounds are enough.  A stream goes wrong in one of few ways: a message
is missed, a later one is refused, and yet a later one must not be taken;
with `_start` and `_end` around them three chunks are enough to have each of
these be data.  One chunk suffices to combine all faults, because with a
`_start`, a chunk, an `_end` and a refusal every kind of message meets every
fault; and the direction without chunks still has its `_start` and `_end`,
which is all that the other one can see of it.  What more chunks would bring is
proved for any number of them.  In the older programs two chunks up are the
first to be missed and the next to come through, and the two halves of
`old_programs` share no state: each begins where the other one is over, and the
other one never moves.  One
drop leaves a gap and a reconnection; a second one would do the same later.
Two viewers are needed, and enough, for a message taken to another's chat;
after a session is over a third one starts from the same state as the second.
Viewers are interchangeable in `Server`, and `server_streams` uses that
symmetry, which `server_noticed`, with liveness, does not.

For the parser: a token of each kind with each of the ones that can follow
it needs few tokens, and the lengths above are the longest declarations with
one part twice, or two short ones.  Bytes are chosen by class, and each
beginning is long enough to close what it opens.  The start tags from within a
value have blanks inside it and at both edges, TAB, CR and LF, references of both
kinds, first in the value too, a blank next to a reference, and a second attribute
after one that collapsing blanks would change and after one it would not.  Pieces are of any size in
`XmlChunks`; with pieces of two tokens a suspension, the end of a piece and the
end of the document can each fall on any token.  `StopDepth` says how deep in
entities a handler may stop.  The document with two entities takes one level; the
one with every entity and the external entity take none, since what goes wrong
from one level on is known (see below) and would hide everything else.
`doctype` has one name in `Shared`, which is enough for a declaration that is there
already, one that is new, and one that is half there.
Three tags see an outer element, an inner one and one after
it; the table of names has 8 places and its names meet in them.  The block of
the buffer starts at 1 and grows several times.

Fairness.  `Tunnel`: the program's threads are scheduled, Smack's threads
drain their queues, Smack's `ReconnectionManager` gets the client online in
the end, and an application that has read the end of its stream closes its
connection.  No application has to write or to close first, and no fault has
to happen.  `Server`: the loop runs, and the XMPP service is reachable again
and again until a connection and a login succeed (strong fairness on
`Connect` and `Login`: they can fail any number of times, not for ever).
`LegacyTunnel`: both programs' threads are scheduled, and an application whose
stream has ended closes its connection.  `Relaunch`: `main` and the connection
listener of each launch run, and the service answers or throws in the end;
connections do not have to be lost.  The parser has no liveness of its own: it
does what it is called for.

### What is shown

* **What a socket is given is a piece of the stream** (`DownstreamIsPipe`,
  `UpstreamIsPipe`, and `InOrder`, which is proved): nothing skipped, repeated or
  reordered, whatever is lost; the head of the stream can be missing, and only
  after a loss (`CompleteUnlessLost`).
* **The end means the end** (`EndMeansAll`): no fault makes a receiver that was
  given data see the end of a stream that has not all arrived.
* **Stopped is stopped** (`StopIsFinal`), although the listener is never
  removed.
* **Tunnels close** (`EndPropagates`, `EndClosesTunnel`,
  `RefusalClosesViewer`) unless a message was lost, or the server has given up
  its session before it took one (`Stranded`), and then they may wait for ever:
  both are in these properties because the code has no timeout.
* **Viewers do not disturb each other** (`OwnStream`, `HealthySessionKept`) in
  one of the two orders of the listeners, and a stream is not cut in two within
  a session (`SplitOnlyByRestart`).
* **A lost connection is always noticed** (`DropIsNoticed`), in the set-up too:
  the calls that register listeners throw on a connection that is down.
* **The older tunnel is a pipe too** (`StreamsArePipes`), and
  closes on every fault unless a message other than `_start` was lost, with a
  connection or while the server opened its socket (`EndClosesTunnel`).  What is
  lost there is no data, as long as the viewer waits for the VNC server to speak
  (`NoDataIsMissed`): `_start` as a rule, and the `_end` of a viewer that closes
  at once, whose tunnel then waits for ever.
* **The listener of `vnc2xmpp3` carries one chunk** (`OneMessageOnly`): the
  loop at `src/vnc2xmpp3/src/com/fcg/xmpptcp/tcp2xmpp/TCPOverXMPPThread.java:49`
  goes over the same message until the check refuses it and the output is shut.
* **A relaunched server serves** (`ServesAgain`) unless an exception ends the
  launch, which is the one way to stay away that the code leaves open; no thread
  id is left in the table without a tunnel or a refusal behind it, and none has
  two tunnels on one connection, but by the listener of a lost one
  (`ServedOnce`).
* **The pieces of a document do not matter** (`PiecesDoNotMatter`,
  `LinesAddUp`) to the tokens, the data, the line numbers and the place of an
  error, tokens are what they are called (`TokensAsSpelled`), and values are
  what rewriting makes of them (`ValuesAsSpelled`); `BufferSafe` says of the
  bytes that none is lost or doubled, and is proved for all sizes.
* **Suspended at most one entity deep, the parser tells the document as it is
  written** (`ToldAsWritten`), in pieces of any size, but for three steps in which
  it forgets where it was: a suspension in a CDATA section of an internal entity,
  the first time (`ForgetsSection`) and in an entity that was resumed before
  (`ForgetsEntity`), and one in the handler of a text declaration
  (`ForgetsDeclaration`).  It ends only when everything is closed that it has not
  forgotten (`FinishesComplete`).  Never suspended in an entity, it finds an error
  only where there is one (`ErrorsAreReal`) and never lets an element cross the end
  of an entity (`ElementsWithinEntities`; the run has that with suspensions one
  entity deep too, but for balanced entities only: it is false of others, see
  below).
* **A declaration is told as it is spelled** (`EventsAsSpelled`,
  `ReportsTheDeclaration`, `ConnectorsNotMixed`), its roles in order
  (`TellsDeclarations`), its content model in a block of exactly the size counted
  for it (`ModelsFit`), the first declaration binding (`FirstDeclarationBinds`),
  and after a reference that was not read no entity is recorded, and no entity and
  no attribute told (`NothingAfterSkipped`; notations and element declarations
  are).  All this with parsers of external entities at work on the same tables.
* **A start tag leaves nothing behind** (`NothingLeftBehind`): marks, bindings,
  names and hash entries of one tag do not show in what is told or refused of
  another (`RefusedRightly`, `AttributesAsDeclared`, `EndsAsItBegan`).

### Findings

* `tunnel_brand_new`: `xmpp2tcp/MyPacketListener.java:50` calls what it opens a
  VNC connection for "a message of a brand new thread".  A message that was on
  its way when its tunnel ended also gets there: the socket is opened and
  never closed, `createChat` throws, and throws again in the catch clause.
* `server_wakes`: `xmpp2tcp/XMPP2TCPMain.java:56` sleeps "until the XMPP
  connection has some problem".  The late message of a tunnel that has ended is
  an error of the session too, and a healthy connection is disconnected with
  all its tunnels.
* `doctype_shared`: `expat.h:405` says that the system identifier given to the
  handler of external references "will not be NULL".  The parser of an external
  parameter entity shares the tables (`xmlparse.c:987`); when its processing ends
  in the middle of a declaration (`%x` is declared, and instead of its identifiers
  comes a reference that is skipped), the entity has neither text nor identifiers.
  The document entity, in which nothing was wrong, then refers to `%x;`, and the
  handler is called with NULL (`xmlparse.c:4418`).  `EventsAsSpelled` says that
  this is the only way in the document entity: a reference that counts comes with a system
  identifier.  In an external subset the reference may also be that within the
  declaration of the entity itself.

Met while modelling, and without a run of their own: the properties above are
stated so that they hold beside these.

* `src/vnc2xmpp/src/com/fcg/xmpptcp/xmpp2tcp/XMPP2TCPMain.java:63` says "try
  again until we success"; a connection that fails after the port has answered
  throws, and the relaunch swallows the exception (`Ended` in `ServesAgain`).
* "A message of a brand new thread" (line 101 there) can be of a thread for
  which the listener of the lost connection makes its tunnel on the new
  connection at the same time (`stray` in `ServedOnce`).
* `expat.h:792` says that suspended parsing "can be resumed".
  In a CDATA section of an internal entity it is not resumed where it was:
  `doContent` has set `cdataSectionProcessor` (`xmlparse.c:2516`) and
  `processInternalEntity` sets `internalEntityProcessor` over it
  (`xmlparse.c:4724`), so the rest of the section is read as content and its end
  is an error (`ForgetsSection` in `ToldAsWritten`).
* Suspended in an entity within an entity, the rest of the outer one is never
  read (`xmlparse.c:4776`); so `StopDepth` is 1 at most.
* Suspended at the last token of an internal entity, the entity is left without
  a look at the elements that are open in it (`xmlparse.c:4724`): one whose text
  ends after a start tag, refused otherwise, is read.
* Suspended in a CDATA section of an internal entity that was resumed before,
  `internalEntityProcessor` leaves `cdataSectionProcessor` in charge
  (`xmlparse.c:4776`, where it returns): the rest of the entity is never read, the text around it is read
  as the rest of the section, and the document may even end well
  (`ForgetsEntity`).
* Suspended in the handler of the text declaration of an external entity, its
  processor stays `externalEntityInitProcessor3` (`xmlparse.c:2104`): a second
  text declaration is accepted after it (`ForgetsDeclaration`).
* An external entity that is resumed within an internal one goes on as if it
  were a document (`xmlparse.c:4793`, whose next line says how it should), and
  after that resumption `storeRawNames` is not called, so that a name stays in
  the buffer that is about to be written over (`xmlparse.c:1966`).
* A function that takes up where another ends, `epilogProcessor` after the root
  element, takes a token before it looks at `ps_parsing`, or overlooks an abort
  when there is no token left (`expat.h:765` and `:782` say otherwise;
  `XmlReader` does not say at which token a stop takes effect).
* In an external subset a comment or a notation can be told with the values of an
  enumeration that a skipped reference cut short (`xmlparse.c:5203`, `:4225`);
  `EventsAsSpelled` exempts these two, in an external entity whose processing has
  ended, and nothing else.

## 4. The proofs

`TunnelProofs.tla` proves, for any number of chunks and drops and any set of
faults (assumptions `MaxChunksAssumption`, `MaxDropsAssumption`,
`FaultsAssumption`, which only give the constants their types):

| theorem | says |
|---|---|
| `TypeCorrect` | `Spec => []TypeOK` |
| `InductiveInvariant` | `Spec => []IInv` |
| `OrderCorrect`, `EndCorrect` | `InOrder`, `EndMeansAll` are invariant |
| `StopCorrect` | `Spec => StopIsFinal` |
| `DownstreamImplementsPipe`, `UpstreamImplementsPipe` | `Tunnel` implements `Pipe` in both directions |
| `HeadCorrect` | `CompleteUnlessLost`: what a socket is given starts with the first chunk, unless a message for it never reached the pump's listener |

The argument.  `InOrder` is not inductive: that the next chunk accepted is the
successor of the last one written depends on what is still under way.  `IInv`
follows a message along its path, the sender's channel, the receiver's queue
and the packet at hand, and says:

* `PathOrder`: numbers rise along the path (0 may follow 0: a refusal and the
  `_start` of a tunnel made afterwards);
* `Fits`: each message is what the sender's counters say it is: a data message
  carries the chunk of its own number, `_end` is 0 or one more than the chunks
  read; and it is new to the receiver (`Before(last, seq)`);
* `Floor`: a receiver that has stopped while its socket still takes output has
  refused a number, and everything still to come is past the number it would
  need: this is what makes a stopped pump stay silent, and the reason
  `StopIsFinal` needs the invariant at all;
* `ReceiverInv`: `last` is the chunk last written for as long as the socket
  takes output, and an output that was shut after data was shut at the end.

Each action preserves each part; the proofs have one step per action and one
lemma per part it can disturb, with the sequence facts (`Append`, `Tail`,
`SubSeq` and `Head` against `Sorted`, `Crossed` and `AllFit`) stated once.
`HeadCorrect` adds `HeadInv`, inductive relative to `IInv`: while nothing was
lost and nothing accepted, the first message on the path is numbered 0, and a
socket that still takes output and was given none has accepted 0 at most.

`ServerProofs.tla` proves, for any viewers and setups (`ViewerAssumption`: the
value of `userChat` at the start is no viewer; `SetupsAssumption` gives the
constants of a behaviour their types; both orders of the listeners, any faults
and any `Last` are included):

| theorem | says |
|---|---|
| `ServerInvariant` | `Spec => []IInv` |
| `ServerTypes` | `TypeOK` |
| `OwnStreamHolds` | `OwnStream`: a tunnel is given its own viewer's messages without gaps |
| `SplitOnlyByRestartHolds` | `SplitOnlyByRestart` |
| `HealthySessionIsKept` | `HealthySessionKept` |

The properties speak of tunnels; what makes them true is where a viewer's
messages are.  `WireInOrder` and `QueueInOrder` number the messages along
`wire`, `queue` and the packet at work; `SessionInOrder`, `TunnelInOrder` and
`TaskInOrder` say what the session, a thread and the callback thread have done
by now; `FirstAccountedFor` and `TunnelsAccountedFor` follow the first message
(a split needs it to be missed, or its session over); `ChatIsOwn`, `LastIsPast`
and `LastIsGiven` are why a chat leads to its own pump when `MyPacketListener`
is shown a new thread first; `TunnelsHaveChats`, `NothingLost`, `ChatsAreLate`
and `ErrorsAreLosses` are about sessions in which nothing fails.

`RelaunchProofs.tla` proves, for any threads, messages and losses
(`LossesAssumption`: their number is one):

| theorem | says |
|---|---|
| `RelaunchInvariant` | `RelaunchSpec => []IInv` |
| `ServedOnceHolds` | `ServedOnce` |
| `OneConnectionHolds` | at most one connection is up, and it is that of the static `con` |

`ServedOnce` needs the whole history of the launches: a launch begins when the
one before has cleaned up (`LaunchesInTurn`), a relaunch is due to a loss
(`RestartsFollowLosses`), the static `con` is the connection that is up
(`OneConnection`), and between two connections the table of thread ids holds
only what a listener of the lost one put there (`TableBetween`).

`LegacyProofs.tla` proves, for both older programs and any constants, without
an assumption:

| theorem | says |
|---|---|
| `LegacyInvariant` | `Spec => []IInv` |
| `NoDataIsMissedHolds` | `NoDataIsMissed` |
| `OneMessageOnlyHolds` | `OneMessageOnly`: the listener of `vnc2xmpp3` writes in its first call or never |
| `LegacyStreamsArePipes` | `StreamsArePipes`: both directions of both programs implement `Pipe` |

Here `checkSequence` is not asked: that the chunks written are a run follows
from the path alone.  Numbers rise by one along it (`PathInOrder`) and the next
to come is the one after the last taken (`NextIsNext`), so `WrittenIsTaken` can
say that the last chunk written is the last one taken; `ListenerShuts` is why
`vnc2xmpp3` writes once.

`XmlBufferProofs.tla` proves, for every context size, first block, number of
doublings, size of pieces and number of bytes (`BufferAssumption` gives them
their types):

| theorem | says |
|---|---|
| `BufferTypeOK` | `BSpec => []TypeOK` |
| `BufferIsTheInput` | `BSpec => []BufferHolds` |
| `ContextIsKept` | `BSpec => []ContextKept` |
| `RoomIsGiven` | `BSpec => []RoomGiven` |
| `ResumedToTheEnd` | `BSpec => []ResumesToTheEnd`: `parseEndPtr`, up to which a suspended parser is resumed, is the end of what has come |
| `BufferIsSafe` | `BSpec => []BufferSafe`, all five, which the run `content` checks |

`XML_StopParser` is called as `expat.h:763` demands: to suspend only from a
handler, from elsewhere to abort.  The five invariants together are inductive
(`IInv`), and none is alone: bytes
are moved with as much context as `ContextKept` says is there, and the size
asked for counts that context (`NeededSize`), from which follow both the room
and that the copy stays within the block.  One lemma says what a copy to any
block that is large enough does, and serves both the shift and the new block.

`XmlDoctypeProofs.tla` begins with the machine by itself, and proves, for any
tokens and any depth of groups and of conditional sections (`BoundsAssumption`
gives the bounds their types):

| theorem | says |
|---|---|
| `RoleInvariant` | `RoleSpec => []RoleInv` |
| `RolesInOrder` | `TellsDeclarations`: the machine refines `Declarations`, step by step |

`RoleInv` says of each of the handlers what it has been told of the declaration
it is in, and keeps the handlers of the two kinds of subset apart.  The proof
goes by the rows of the handlers (`xmlrole.c` has one function each): a lemma
gives the rows of a group of handlers, and another what they keep.

Then it proves, for any tokens, names, handlers of the
application, settings and declarations of other parsers (`BoundsAssumption`,
`EntitiesAssumption`, `SetupsAssumption`, all three types):

| theorem | says |
|---|---|
| `DoctypeInvariant` | `DSpec => []DInv` |
| `DoctypeRolesInOrder` | `TellsDeclarations` for `doProlog` with its machine |
| `FirstDeclarationHolds` | `FirstDeclarationBinds`: once the text or the system identifier of an entity is read, nothing changes it |
| `NothingAfterSkippedHolds` | `NothingAfterSkipped`: after a reference that was not read on, no entity is recorded, and no entity and no attribute is told |
| `EventsAsSpelledHolds` | `EventsAsSpelled`: of a declaration the application is told what its tokens said, all of it and nothing else (of a comment and a notation: but in an external subset whose processing has ended), and a reference of the document entity that counts, and the request for the external subset, come with a system identifier |
| `RecordingFitsHolds` | while an element declaration is recorded, parser and machine count the same open groups |

`doProlog` keeps `declEntity`, `keepProcessing` and `in_eldecl` from one token
to the next and trusts the order of the roles; so `DInv` says what each of them
is at each place of a declaration (`declEntity` is the entity being declared,
and what was not told of it is not recorded; a reference is skipped in or
after the subset only).  For these the machine enters the proof only as steps of
`Declarations`, which `RolesInOrder` proves them to be.

`EventsAsSpelled` compares an event with `said`, a history of the text the roles
of the declaration have told.  `SpellInv` relates it to what the parser keeps at
each token: `PoolInv` (the string pool holds the list of an enumeration, and is
empty anywhere else), `DoctypeInv`, `NotationInv`, `AttlistInv` and `EntityInv`
(the variables of the declaration that is open are what it has said so far;
those a handler would have to be set for, only when it is), and `SaidInv` (what
has not been told yet is not said, so that a part left out is told as NULL and
not as that of the declaration before).  A parameter entity without a text is
taken for an external one (`xmlparse.c:4405`); `EntitiesInv`, that as long as
declarations of the document entity count only the one being declared can lack both
a text and a system identifier, is why the handler is given one there: another
parser that leaves one so has lost `keepProcessing` for all of them (`ReadElsewhere`).
After that the pool and the variables of a notation hold what they should in the
document entity only (`PoolInv`, `NotationInv`).  Two things had to be found for it: the parts of a
DOCTYPE are not in `told`, and here the handlers of `xmlrole.c` themselves enter
the proof (`InTurn`: they come one after the other); and `Declarations` did not
say that an unparsed entity names its notation once, which the machine does see
to and is now proved of it as well.  The invariant stands until `doProlog` returns an
error, after which nothing is told.

`XmlContentProofs.tla` proves, for any table of entities (recursive ones and
those with unbalanced tags included), tokens, pieces and stops
(`ContentAssumption` gives the constants their types and says that a reference
is to an entity of the table):

| theorem | says |
|---|---|
| `ContentInvariant` | `ContentSpec /\ []Shallow => []IInv` |
| `FinishesCompleteHolds` | `ContentSpec /\ []Shallow => FinishesComplete` |
| `ElementsWithinEntitiesHold` | `ContentSpec /\ []Flat => ElementsWithinEntities` |

`ContentSpec` is the parser by itself.  The two conditions are on the
application, and without them the code does not keep what is proved (see the
findings): `Shallow`, a document is suspended with one internal entity open at
most and not in a CDATA section of it, and an external entity with none; `Flat`, none is open when the parser is
suspended.  `Flat` is needed where `Shallow` is not enough: a handler that
suspends at the last token of an entity's text returns from the entity before
`doContent` has looked whether an element is still open in it.

That parsing ends at the end of the entity is decided by `startTagLevel` and
`haveMore` in the innermost call, and by the processor; so the invariant is about
how they go together.  `StackInv`, `Aligned` and `Unwinding` say that the calls of
`doContent` are those for `openInternalEntities` (all but the moment in which a
suspension unwinds them, or takes them up again); `ProcessorInv` and `KindInv`
which processor is in charge of which call, `LevelInv` that no call is left below
the level it began at, `RootInv` that only the epilog follows the root element,
and `DoneInv` what a call has read that returns without error.
`ElementsWithinEntities` adds `TagsWithin`: a tag was opened within the first k
open entities exactly when its level is above the one the k-th began at.

`XmlAttributesProofs.tla` proves, for any declarations, start tags (with lists of
attributes of any length), depth of elements and hash (`AttributesAssumption`
gives the constants their types, and says that names are pairs, that no prefix and
no text of a tag is the mark `None`, and that with namespaces no name ends in a
colon, which the tokenizer sees to; `TableAssumption`, that versions and hashes
are natural numbers):

| theorem | says |
|---|---|
| `AttributesInvariant` | `Spec => []AInv`, with `EndsAsItBegan` |
| `EndsAsItBeganHolds` | `EndsAsItBegan`: an element ends under the name it began with |
| `NothingLeftBehindHolds` | `NothingLeftBehind`: between two tags each prefix stands for the URI of the innermost open element that declares it, and no attribute is marked |
| `AttributesAsDeclaredHolds` | `AttributesAsDeclared`: a start tag is told with what is written and the defaults of the rest, under the names that are in scope, and `nSpecifiedAtts` and `idAttIndex` are where they should be |
| `RefusedRightlyHolds` | `RefusedRightly`: a start tag is refused just when something is wrong with it, whatever the hashes of names and the state of the table |

The code keeps no scopes: it has one binding per prefix, which hides another,
and lists of bindings that are taken and given back.  `AInv` says what they stand
for.  `OwnerInv`: a binding is free, or that of `xml`, or owned by one open tag,
and by no more than one; `TextInv`: what a tag owns is what it declares, written
or by default (`DeclaredInv`: the defaults are the first declarations); `ScopeInv`:
each prefix is bound to the binding of the innermost tag that declares it, and
the binding hides what the prefix stood for within the tags around, which is what
the release at the end tag needs; `NameInv`: the name of an open element is in
the block of a binding that its own tag or one around it owns, so that the block
is not used for anything but names until the element ends, and the URI and the
local name, which `EndTag` writes there again, are still those it began with.
`FlagInv` says that no attribute is marked.  For `AttributesAsDeclared` there are
`IdInv` (`idAtt` is the attribute of the first declaration of an ID) and `QuietInv`
(before the first tag nothing has been told, so that a declaration, which would
change the meaning of a tag told before, finds none).

`storeAtts` and the release go through lists, so here something is proved of
recursive functions, by induction on the length.  The induction theorems of the
library take an operator as a parameter, which the provers cannot instantiate; but
that the numbers are well founded, and that a non-empty set has then a minimal
element, are stated of sets, and give `Least` and `Induction`.  A list is gone through with an invariant of its own: `WorkInv` and
`DefaultInv` of what has been taken and bound, `ExpandInv` of the marks that
`storeAtts` still has to clear, `LeftInv` of what each prefix is bound to after
some bindings have been released.  `GivenInv`, `AddedInv` and `FullInv` say of what is
given to the application: what is written, each attribute at its `Place`; then the
defaults that are missing, each once; then all of it under full names
(`InScopeHere`: the prefixes stand for what they do within the tags around and the
tag itself).  That a function defined by recursion exists
(`Scanning` to `Releasing`) is proved by the same induction.

`RefusedRightly` rests on the table of expanded names.  `TableInv` is what one tag
leaves to the next: the table has no slots, or at least 8, and no slot has a
version below the current one, so that after the version is counted down (or all
slots are renewed) none is in use.  Three facts of arithmetic come first:
`PowerIs`, the table is made larger than the number of names; `ProbeStepIsOdd`
and `ProbesDiffer`, an odd step meets every slot before it meets one again (an
odd number and a power of two have no common factor, `OddDivides`, by induction on
the power).  So there is a free slot on the way of every name (`FreePlace`), the
search for it ends, and what is entered is found again on its own way
(`EnteredIs`, `TakenIs`).  `EnteredInv` then says of the names entered so far that
each is in the table, no slot in use has another, and no two are the same;
`Erred` and `Spoilt` what is wrong with the tag when it is refused while its names
are expanded, or before.  A power of two is written as a function, `Bit`, for
these inductions.

The invariants of `Tunnel` and `Server` are checked by the runs `tunnel_all` and
`server_streams`.  Those of `Relaunch`, `LegacyTunnel` and `XmlContent`, `HeadInv`,
`RoleInv`, `DInv`, `SpellInv`, `AInv`, `IdInv`, `QuietInv` and `TableInv` were checked by TLC on the instances of their runs (that of
`XmlContent` with the bound `Shallow` in place of `StopDepth`) before they were
proved; they are in no `.cfg`, where a run lists only what a user of the code
would ask of it.

Only model-checked:

* liveness: `EndPropagates`, `EndClosesTunnel`, `RefusalClosesViewer`,
  `DropIsNoticed`, `EndClosesTunnel` of the older tunnels, `ServesAgain`.
  Fairness needs `ENABLED`, which the prover does not handle;
* what the tokenizers and the normalization of values compute for every text:
  `XmlChunks` and `XmlValues` use recursive operators, which keep theorems out of
  their modules;
* the part of `ModelsFit` about the model that `build_model` makes,
  `ReportsTheDeclaration` and `ConnectorsNotMixed`: inductions over the tree of
  an element declaration;
* `ToldAsWritten` and `ErrorsAreReal` of the content, which compare the parser
  with a reader of the text that is left: that is the texts of all open entities
  one after the other (`FlattenSeq`), so a proof would be an induction over
  their number.

## 5. Not modelled

* `VNCManager`, `VNCUtils`, the command lines, logging: sequential file and process I/O.
* `SSLXMPPConnection`, `MySASLPlainMechanism`: library code with another socket
  or another string.
* `XMPPConnectionManager`, `ConnectionUtil`: a choice between two ports, which
  is `Connect` for `Server` and `Relaunch`.
* The client main programs: they accept viewers and start tunnel threads.
* Bytes inside a chunk, base64, widths of counters: see above.
* Back-pressure: a VNC application that does not read blocks the one callback
  thread and with it all tunnels of its connection.  No circular wait comes of
  it: the thread waits for a local application only.
* `vnc2xmpp3`: the relaunch, which is the code of `vnc2xmpp` without the `close`,
  so that Smack 3 connects the old connection again as well; its lost
  connections.
* `jmf/Demo.java`, the main programs of `vnc2gtalk`, the TightVNC binaries.
* expat: what the handler of an external entity referred to in an entity value
  declares; suspension within the prolog, a parameter entity resumed there
  (`internalEntityProcessor`'s other branch), `XML_UseForeignDTD`; a final
  `\r` or `]` at the end of the last piece; an unmatched end tag in an external
  entity with no tag open at all, which reads a null `tagStack`; attribute
  values inside an open entity; two colons in a name; name triplets
  (`Triplets` is FALSE in the runs); a stored expanded name that begins like the new one and has
  the same hash, which `xmlparse.c:2842` takes for a duplicate; failing
  allocation; int overflow (`xmlparse.c:1613` has a FIXME about it).
* expat: the UTF-16 tokenizers, conversion between encodings and the choice of
  one (`xmltok.c`, `processXmlDecl`); string pools, hash tables and the copy of
  a DTD; setters of single fields.
* `xmlwf`, expat's examples, tests, benchmark and build files.

## 6. Plan

Done: the models above, and the proofs of `Tunnel`, `Server`, `LegacyTunnel`,
`Relaunch`, the parse buffer, the role machine, `XmlDoctype`, `XmlContent` and
`XmlAttributes`.  Next, in this order:

1. Suspension within the prolog: `XmlProlog` with the stack of `XmlContent`.
2. The relaunch of `vnc2xmpp3`, with two connections that are both up.
3. The choice of an encoding (`initializeEncoding`, `processXmlDecl`) and the
   UTF-16 tokenizers with characters cut in two.
4. Back-pressure: bounded socket buffers and one callback thread.
5. String pools and hash tables, with a proof that `lookup` finds what was put in.
