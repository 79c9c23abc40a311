------------------------------ MODULE McpStdio -------------------------------
(***************************************************************************)
(* The stdio transport of the kawn MCP server: stdin arrives in chunks cut *)
(* anywhere, is collected in `buffer`, split at newlines, and every line   *)
(* is appended to one promise chain, so that handlers run one at a time    *)
(* however long a tools/call waits for git and for the file system.        *)
(*                                                                         *)
(* A message is its number and its kind; on the wire it is two bytes and a *)
(* newline, enough for a chunk to be cut inside it.                        *)
(***************************************************************************)
EXTENDS Naturals, Sequences

CONSTANTS
  MaxMessages,  \* bound on the messages one client sends
  NoMessage

\* tool:    tools/call, which awaits its result;
\* list:    initialize, ping or tools/list, answered on the spot;
\* unknown: a method the server does not have, with an id;
\* notice:  the same without an id, as notifications/initialized;
\* garbage: a line JSON.parse refuses;
\* blank:   a line of white space.
\* tools/call and the others answer also when the request has no id.
Kinds == {"tool", "list", "unknown", "notice", "garbage", "blank"}

Messages == [no : 1..MaxMessages, kind : Kinds]

ASSUME StdioAssumption == MaxMessages \in Nat /\ NoMessage \notin Messages

VARIABLES
  sent,     \* history: the messages the client has sent, with their bytes
  closed,   \* the client has closed its end
  wire,     \* bytes written by the client and not delivered yet
  buffer,   \* bytes delivered that no newline has ended
  chain,    \* lines waiting for their handler
  running,  \* the tools/call under way
  out,      \* the replies written to stdout
  ended,    \* stdin's "end" has been delivered
  exited    \* process.exit(0)

clientVars == <<sent, closed>>
stdioVars == <<sent, closed, wire, buffer, chain, running, out, ended, exited>>

-----------------------------------------------------------------------------
(* Bytes and lines                                                         *)

NL == [msg |-> NoMessage, half |-> 0]

Halves(m) == IF m.kind = "blank" THEN <<>>
             ELSE <<[msg |-> m, half |-> 1], [msg |-> m, half |-> 2]>>

Bytes(m) == Append(Halves(m), NL)

Newlines(s) == {i \in DOMAIN s : s[i] = NL}

NoLines == [lines |-> <<>>, rest |-> <<>>]

\* One byte more: a newline ends the line that has been begun.  `if (line)`
\* after trim(): blank lines start no handler.
Feed(c, byte) ==
  IF byte # NL THEN [c EXCEPT !.rest = Append(@, byte)]
  ELSE [lines |-> IF c.rest = <<>> THEN c.lines ELSE Append(c.lines, c.rest),
        rest  |-> <<>>]

\* The lines that end in s, in order, and what stands after the last newline.
Cut(s) ==
  LET upTo[i \in 0..Len(s)] == IF i = 0 THEN NoLines ELSE Feed(upTo[i - 1], s[i])
  IN upTo[Len(s)]

Handled(s) == Cut(s).lines

Rest(s) == Cut(s).rest

\* JSON.parse of a line: the message it is, or garbage.
Parse(line) == IF line = Halves(line[1].msg) THEN line[1].msg
               ELSE [line[1].msg EXCEPT !.kind = "garbage"]

-----------------------------------------------------------------------------
(* The client                                                              *)

\* The client writes a message, or stops inside it, and then it is gone.
ClientWrite(kind, cut) ==
  LET m == [no |-> Len(sent) + 1, kind |-> kind]
  IN /\ ~closed
     /\ Len(sent) < MaxMessages
     /\ cut \in 1..Len(Bytes(m))
     /\ sent' = Append(sent, [msg |-> m, bytes |-> cut])
     /\ wire' = wire \o SubSeq(Bytes(m), 1, cut)
     /\ closed' = (cut < Len(Bytes(m)))
     /\ UNCHANGED <<buffer, chain, running, out, ended, exited>>

ClientClose ==
  /\ ~closed
  /\ closed' = TRUE
  /\ UNCHANGED <<sent, wire, buffer, chain, running, out, ended, exited>>

-----------------------------------------------------------------------------
(* The server                                                              *)

\* A fault: `if` for `while`, one line for every chunk.
DataOneLine(n) ==
  LET text == buffer \o SubSeq(wire, 1, n)
  IN /\ ~exited
     /\ n \in 1..Len(wire)
     /\ wire' = SubSeq(wire, n + 1, Len(wire))
     /\ IF Newlines(text) = {}
          THEN buffer' = text /\ UNCHANGED chain
          ELSE LET first == CHOOSE i \in Newlines(text) : \A j \in Newlines(text) : i <= j
               IN /\ buffer' = SubSeq(text, first + 1, Len(text))
                  /\ chain' = chain \o Handled(SubSeq(text, 1, first))
     /\ UNCHANGED <<clientVars, running, out, ended, exited>>

\* stdin.on("data"): a chunk of any length, and all the lines it completes.
Data(n) ==
  LET text == buffer \o SubSeq(wire, 1, n)
  IN /\ ~exited
     /\ n \in 1..Len(wire)
     /\ wire' = SubSeq(wire, n + 1, Len(wire))
     /\ chain' = chain \o Handled(text)
     /\ buffer' = Rest(text)
     /\ UNCHANGED <<clientVars, running, out, ended, exited>>

\* handle: the reply a message gets, if it gets one.
ReplyTo(m) ==
  CASE m.kind \in {"tool", "list"}   -> <<[to |-> m.no, as |-> "result"]>>
    [] m.kind = "unknown"            -> <<[to |-> m.no, as |-> "notFound"]>>
    [] m.kind = "garbage"            -> <<[to |-> m.no, as |-> "parseError"]>>
    [] m.kind \in {"notice", "blank"} -> <<>>

\* A fault: handlers are not chained, so a line is taken up at once.
DispatchAtOnce ==
  /\ ~exited /\ chain # <<>>
  /\ LET m == Parse(Head(chain))
     IN IF m.kind = "tool" /\ running = NoMessage
          THEN running' = m /\ UNCHANGED out
          ELSE out' = out \o ReplyTo(m) /\ UNCHANGED running
  /\ chain' = Tail(chain)
  /\ UNCHANGED <<clientVars, wire, buffer, ended, exited>>

\* dispatchLine of the next line, once the handler before it has settled.
Dispatch ==
  /\ ~exited /\ running = NoMessage /\ chain # <<>>
  /\ LET m == Parse(Head(chain))
     IN IF m.kind = "tool"
          THEN running' = m /\ UNCHANGED out
          ELSE out' = out \o ReplyTo(m) /\ UNCHANGED running
  /\ chain' = Tail(chain)
  /\ UNCHANGED <<clientVars, wire, buffer, ended, exited>>

\* callTool catches whatever the gate or the tool throws, so a call always
\* ends in a reply.
CallReturns ==
  /\ ~exited /\ running # NoMessage
  /\ out' = out \o ReplyTo(running)
  /\ running' = NoMessage
  /\ UNCHANGED <<clientVars, wire, buffer, chain, ended, exited>>

\* stdin.on("end") comes after the last chunk.
End ==
  /\ ~exited /\ closed /\ wire = <<>> /\ ~ended
  /\ ended' = TRUE
  /\ UNCHANGED <<clientVars, wire, buffer, chain, running, out, exited>>

\* chain.finally(() => process.exit(0)).
ExitProcess ==
  /\ ~exited /\ ended /\ running = NoMessage /\ chain = <<>>
  /\ exited' = TRUE
  /\ UNCHANGED <<clientVars, wire, buffer, chain, running, out, ended>>

-----------------------------------------------------------------------------
StdioInit == /\ sent = <<>> /\ closed = FALSE
             /\ wire = <<>> /\ buffer = <<>> /\ chain = <<>>
             /\ running = NoMessage
             /\ out = <<>>
             /\ ended = FALSE /\ exited = FALSE

Receiving == \E n \in 1..Len(wire) : Data(n)

Client == ClientClose \/ \E kind \in Kinds, cut \in 1..3 : ClientWrite(kind, cut)

Server == \/ Receiving
          \/ Dispatch
          \/ CallReturns
          \/ End
          \/ ExitProcess

StdioNext == Client \/ Server

\* The event loop delivers what has been written, and a handler runs to its
\* end: what it waits for (files, git with its time limits) answers.  Nothing
\* makes a client write or close.
StdioFairness == WF_stdioVars(Receiving) /\ WF_stdioVars(Dispatch)
                   /\ WF_stdioVars(CallReturns)
                   /\ WF_stdioVars(End) /\ WF_stdioVars(ExitProcess)

StdioSpec == StdioInit /\ [][StdioNext]_stdioVars /\ StdioFairness

-----------------------------------------------------------------------------
\* The messages sent whole that are not answered, wherever they are: under
\* way, in the chain, in the buffer or on the wire.
Outstanding ==
  LET lines == chain \o Handled(buffer \o wire)
  IN (IF running = NoMessage THEN <<>> ELSE <<running>>)
       \o [k \in DOMAIN lines |-> Parse(lines[k])]

Promise == INSTANCE InOrderServer WITH
             asked <- Outstanding, answers <- out, gone <- exited

\* The transport implements InOrderServer: wherever the chunks are cut and
\* however long a call takes, no line is lost, repeated or overtaken, and the
\* process does not exit while it owes a reply (stdin handlers, dispatchLine).
KeepsItsPromise == Promise!Spec

\* Every message sent whole is answered in the end, and the process leaves
\* once its client has: neither waits for bytes that will not come.
AllSettled == []<>(Outstanding = <<>>) /\ (closed ~> exited)

-----------------------------------------------------------------------------
\* index.ts, on draining at "end": "so a closing client (or a piped batch of
\* messages) still gets every response".  A last message without its newline
\* stays in the buffer.
BatchGetsEveryResponse ==
  exited => \A k \in DOMAIN sent :
              LET m == sent[k].msg
              IN sent[k].bytes >= 2 /\ ReplyTo(m) # <<>>
                   => \E r \in DOMAIN out : out[r].to = m.no
=============================================================================
