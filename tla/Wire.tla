-------------------------------- MODULE Wire --------------------------------
(***************************************************************************)
(* One connection between the dispatcher and an agent, byte by byte: the   *)
(* text of the messages (common/protocol.cpp) and the way they are written *)
(* and read (common/tcpUtil.cpp).  NwDispatch takes a message for one      *)
(* element of a queue; here it is two writes of bytes, and TCP decides how *)
(* many of them a read returns.                                            *)
(*                                                                         *)
(* A byte is its ASCII code.  Names and numbers are one byte long and the  *)
(* size prefix, two bytes in base Base, is as much narrower than uint16_t. *)
(***************************************************************************)
EXTENDS Integers, Sequences, SequencesExt

CONSTANTS
  Workloads,    \* the tasks the agent may be given, one after the other
  msgSizeLimit, \* the longest message readFromSocket returns
  Base,         \* the values of a byte of the size prefix
  MaxCuts,      \* bound: how often TCP cuts the bytes of a write in two
  Mortal        \* TRUE: the agent may die

Sp == 32    \* ' '
Zero == 48  \* '0'
F == 70     \* termMsg
T == 84     \* taskMsg
Sort == 115    \* 's'
Merge == 109   \* 'm'
Block == 103   \* 'g'
Width == Base * Base
Char == Sp .. 255   \* names hold no control characters

\* The byte x and a byte of text, taken for a size, announce a message too
\* long.
Misread(x) == x * Base + Sp > msgSizeLimit

ASSUME WireAssumption ==
  \* lsort gives every task its arguments; a serial number is one digit
  /\ \A ts \in Workloads :
       /\ ts \in Seq([type : {Sort, Merge, Block}, args : Seq(Seq(Char)) \ {<<>>}])
       /\ Len(ts) < 10
  \* a result, of 2 or 4 bytes, fits
  /\ Base \in Nat \ {0} /\ msgSizeLimit \in Nat
  /\ 4 <= msgSizeLimit /\ msgSizeLimit < Width
  \* the bytes of a text, and the second one of a result's size, are misread
  /\ Sp * Base > msgSizeLimit /\ Misread(2 % Base) /\ Misread(4 % Base)
  /\ MaxCuts \in Nat /\ Mortal \in BOOLEAN

VARIABLES
  tasks,     \* the tasks the dispatcher has for the agent
  pc,        \* where each end is
  text,      \* the message an end writes, or has read
  left,      \* readFromSocket: bytes of a long message still to throw away
  wire,      \* writes on the way to an end
  buf,       \* bytes that have arrived at an end and were not read
  next,      \* the number of the next task
  handled,   \* what the agent's handlers were called with
  results,   \* what readResult has returned
  cuts       \* how often TCP has cut a write

vars == <<tasks, pc, text, left, wire, buf, next, handled, results, cuts>>

End == {"dispatcher", "agent"}
Peer(e) == CHOOSE p \in End : p # e
Byte == Nat

TypeOK ==
  /\ tasks \in Workloads
  /\ pc \in [End -> {"off", "ready", "writeSize", "writeBody", "size", "body",
                     "drain", "spin", "got", "closed", "dead", "out"}]
  /\ text \in [End -> Seq(Byte)] /\ left \in [End -> Nat]
  /\ wire \in [End -> Seq(Seq(Byte) \ {<<>>})] /\ buf \in [End -> Seq(Byte)]
  /\ next \in 1 .. Len(tasks) + 2
  /\ handled \in Seq([id : Seq(Byte), type : Byte, args : Seq(Seq(Byte)), rc : {0, 1}])
  /\ results \in Seq([id : Seq(Byte), rc : {0, 1}])
  /\ Len(handled) < next /\ Len(results) < next
  /\ cuts \in 0 .. MaxCuts

Init ==
  /\ tasks \in Workloads
  /\ pc = [e \in End |-> "off"] /\ text = [e \in End |-> <<>>]
  /\ left = [e \in End |-> 0]
  /\ wire = [e \in End |-> <<>>] /\ buf = [e \in End |-> <<>>]
  /\ next = 1 /\ handled = <<>> /\ results = <<>> /\ cuts = 0

-----------------------------------------------------------------------------
(* protocol.cpp: the text of a message *)

\* getTaskId: 'T' and the serial number, which counts from 0.
Id(n) == <<T, Zero + n - 1>>

Joined(words) ==
  LET upTo[k \in 1 .. Len(words)] ==
        IF k = 1 THEN words[1] ELSE upTo[k - 1] \o <<Sp>> \o words[k]
  IN  upTo[Len(words)]

\* encodeTask
TaskText(n) == Joined(<<Id(n), <<tasks[n].type>>>> \o tasks[n].args)

\* What the dispatcher writes: the tasks, then the end of the session.
Message(n) == IF n <= Len(tasks) THEN TaskText(n) ELSE <<F>>

\* encodeResult
ResultText_Raw(id, rc) == Joined(<<id, <<Zero + 2 * rc>>>>)  \* a mutation
ResultText(id, rc) == Joined(<<id, <<Zero + rc>>>>)

\* splitString: the pieces between the spaces, empty ones included.  The loop
\* reads one byte at a time.
Scanned(frags, byte) ==
  IF byte = Sp THEN Append(frags, <<>>)
  ELSE [frags EXCEPT ![Len(frags)] = Append(@, byte)]
Frags(str) ==
  LET upTo[i \in 0 .. Len(str)] ==
        IF i = 0 THEN <<<<>>>> ELSE Scanned(upTo[i - 1], str[i])
  IN  upTo[Len(str)]

\* frags[1][0]; of an empty string this is the terminating zero.
TypeOf(word) == IF word = <<>> THEN 0 ELSE Head(word)

\* decodeTask.  When it returns false, which main ignores, the id and the
\* arguments stay empty and the type is what was in memory.
Decoded(str) ==
  LET frags == Frags(str)
  IN  IF Len(frags) <= 2
      THEN [id : {<<>>}, type : {0, Sort, Merge, Block}, args : {<<>>}]
      ELSE {[id |-> frags[1], type |-> TypeOf(frags[2]),
             args |-> SubSeq(frags, 3, Len(frags))]}

\* msgHandlerBase::getHandler, and the test of the arguments every handler
\* begins with.
Handlers == {Sort, Merge, Block}
Accepts(type, args) == IF type = Merge THEN Len(args) >= 3 ELSE Len(args) = 4

-----------------------------------------------------------------------------
(* tcpUtil.cpp *)

\* getBoundServerSocket: the option that allows the port to be used again is
\* set from an uninitialised variable, so bind may fail after a restart.
Listen ==
  /\ pc["dispatcher"] = "off"
  /\ \E there \in {"ready", "closed"} : pc' = [pc EXCEPT !["dispatcher"] = there]
  /\ UNCHANGED <<tasks, text, left, wire, buf, next, handled, results, cuts>>

\* getConnectedClientSocket: an agent that finds nobody exits.
Connect ==
  /\ pc["agent"] = "off"
  /\ pc' = [pc EXCEPT !["agent"] =
              IF pc["dispatcher"] \in {"off", "closed"} THEN "out" ELSE "size"]
  /\ UNCHANGED <<tasks, text, left, wire, buf, next, handled, results, cuts>>

\* writeWithSizePrefix passes the size as a uint16_t ...
Announced_Less(str) == (Len(str) - 1) % Width            \* a mutation
Announced(str) == Len(str) % Width

Size(str) == <<Announced(str) \div Base, Announced(str) % Base>>
Body(str) == SubSeq(str, 1, Announced(str))

WriteSize(e) ==
  /\ pc[e] = "writeSize"
  /\ wire' = [wire EXCEPT ![Peer(e)] = Append(@, Size(text[e]))]
  /\ pc' = [pc EXCEPT ![e] = "writeBody"]
  /\ UNCHANGED <<tasks, text, left, buf, next, handled, results, cuts>>

\* ... and writes as many bytes of the message as that.
WriteBody(e) ==
  /\ pc[e] = "writeBody"
  /\ wire' = [wire EXCEPT ![Peer(e)] =
                IF Body(text[e]) = <<>> THEN @ ELSE Append(@, Body(text[e]))]
  /\ pc' = [pc EXCEPT ![e] = IF text[e] = <<F>> THEN "closed" ELSE "size"]
  /\ UNCHANGED <<tasks, text, left, buf, next, handled, results, cuts>>

\* TCP: the bytes of a write arrive, all of them or the first n.
Deliver(e) ==
  /\ wire[e] # <<>>
  /\ LET first == Head(wire[e])
     IN  \E n \in IF cuts < MaxCuts THEN 1 .. Len(first) ELSE {Len(first)} :
           /\ buf' = [buf EXCEPT ![e] = @ \o SubSeq(first, 1, n)]
           /\ wire' = [wire EXCEPT ![e] =
                         IF n = Len(first) THEN Tail(@)
                         ELSE <<SubSeq(first, n + 1, Len(first))>> \o Tail(@)]
           /\ cuts' = IF n < Len(first) THEN cuts + 1 ELSE cuts
  /\ UNCHANGED <<tasks, pc, text, left, next, handled, results>>

\* read returns what has arrived and at most n bytes of it; nothing, once the
\* peer has closed the connection and everything it wrote was read.
AtEnd(e) == buf[e] = <<>> /\ wire[e] = <<>> /\ pc[Peer(e)] \in {"closed", "dead"}
CanRead(e) == buf[e] # <<>> \/ AtEnd(e)
Count(e, n) == Min({n, Len(buf[e])})
Read(e, n) ==
  /\ CanRead(e)
  /\ buf' = [buf EXCEPT ![e] = SubSeq(@, Count(e, n) + 1, Len(@))]

Got(e, str) ==
  /\ pc' = [pc EXCEPT ![e] = "got"]
  /\ text' = [text EXCEPT ![e] = str]

\* readFromSocket: the size ...
TooLong_Equal(size) == size >= msgSizeLimit              \* a mutation
TooLong(size) == size > msgSizeLimit
ReadSize(e) ==
  /\ pc[e] = "size"
  /\ Read(e, 2)
  /\ LET size == IF Len(buf[e]) < 2 THEN 0 ELSE buf[e][1] * Base + buf[e][2]
     IN  \/ /\ Len(buf[e]) < 2
            /\ Got(e, <<>>)
            /\ UNCHANGED left
         \/ /\ Len(buf[e]) >= 2 /\ TooLong(size)
            /\ pc' = [pc EXCEPT ![e] = "drain"]
            /\ left' = [left EXCEPT ![e] = size]
            /\ UNCHANGED text
         \/ /\ Len(buf[e]) >= 2 /\ ~TooLong(size)
            /\ pc' = [pc EXCEPT ![e] = "body"]
            /\ UNCHANGED <<left, text>>
  /\ UNCHANGED <<tasks, wire, next, handled, results, cuts>>

\* ... the message, in one read that asks for a whole buffer ...
ReadBody(e) ==
  /\ pc[e] = "body"
  /\ Read(e, msgSizeLimit)
  /\ Got(e, SubSeq(buf[e], 1, Count(e, msgSizeLimit)))
  /\ UNCHANGED <<tasks, left, wire, next, handled, results, cuts>>

\* ... or the loop that throws a long one away, which never ends at the end
\* of the connection.
Drain(e) ==
  /\ pc[e] = "drain"
  /\ Read(e, msgSizeLimit)
  /\ left' = [left EXCEPT ![e] = Max({0, @ - Count(e, msgSizeLimit)})]
  /\ \/ AtEnd(e) /\ pc' = [pc EXCEPT ![e] = "spin"] /\ UNCHANGED text
     \/ ~AtEnd(e) /\ left'[e] > 0 /\ UNCHANGED <<pc, text>>
     \/ ~AtEnd(e) /\ left'[e] = 0 /\ Got(e, <<>>)
  /\ UNCHANGED <<tasks, wire, next, handled, results, cuts>>

-----------------------------------------------------------------------------
(* The dispatcher: handleWrites, handleReads, terminate *)

\* The client is idle: writeTask, or terminateClient when all is done.
Send ==
  /\ pc["dispatcher"] = "ready" /\ pc["agent"] \notin {"off", "out"}
  /\ next' = next + 1
  /\ text' = [text EXCEPT !["dispatcher"] = Message(next)]
  /\ pc' = [pc EXCEPT !["dispatcher"] = "writeSize"]
  /\ UNCHANGED <<tasks, left, wire, buf, handled, results, cuts>>

\* decodeResult: two words; stoi throws when the second is no number.
IsResult(str) == str # <<>> /\ Len(Frags(str)) = 2
Throws(str) == IsResult(str) /\ TypeOf(Last(Frags(str))) \notin Zero .. Zero + 9

\* readResult.  When it fails the client stays active and is polled again.
TakeResult ==
  /\ pc["dispatcher"] = "got"
  /\ LET str == text["dispatcher"]
     IN  \/ /\ ~IsResult(str)
            /\ pc' = [pc EXCEPT !["dispatcher"] = "size"]
            /\ UNCHANGED results
         \/ /\ Throws(str)
            /\ pc' = [pc EXCEPT !["dispatcher"] = "dead"]
            /\ UNCHANGED results
         \/ /\ IsResult(str) /\ ~Throws(str)
            /\ results' = Append(results, [id |-> Head(Frags(str)),
                                           rc |-> Head(Last(Frags(str))) - Zero])
            /\ pc' = [pc EXCEPT !["dispatcher"] = "ready"]
  /\ UNCHANGED <<tasks, text, left, wire, buf, next, handled, cuts>>

-----------------------------------------------------------------------------
(* The agent: main *)

Die(there) ==
  /\ pc' = [pc EXCEPT !["agent"] = there]
  /\ UNCHANGED <<text, handled>>

\* The handler succeeds or fails; its return code is inverted.
ReturnCode_Any(type, args) == {0, 1}                     \* a mutation
ReturnCode(type, args) == IF Accepts(type, args) THEN {0, 1} ELSE {1}

\* main: an empty message is a network error, "F..." the end of the session.
TakeTask ==
  /\ pc["agent"] = "got"
  /\ LET str == text["agent"]
     IN  IF str = <<>> \/ TypeOf(str) = F
         THEN Die("closed")
         ELSE \E task \in Decoded(str) :
                \/ task.type \notin Handlers /\ Die("closed")
                \/ /\ task.type \in Handlers
                   /\ \E rc \in ReturnCode(task.type, task.args) :
                        /\ handled' = Append(handled, [id |-> task.id,
                             type |-> task.type, args |-> task.args, rc |-> rc])
                        /\ text' = [text EXCEPT !["agent"] = ResultText(task.id, rc)]
                   /\ pc' = [pc EXCEPT !["agent"] = "writeSize"]
  /\ UNCHANGED <<tasks, left, wire, buf, next, results, cuts>>

AgentCrash ==
  /\ Mortal /\ pc["agent"] \notin {"off", "out", "closed", "dead"}
  /\ Die("dead")
  /\ UNCHANGED <<tasks, left, wire, buf, next, results, cuts>>

-----------------------------------------------------------------------------
Socket(e) ==
  WriteSize(e) \/ WriteBody(e) \/ ReadSize(e) \/ ReadBody(e) \/ Drain(e)
Next ==
  \/ Listen \/ Connect \/ Send \/ TakeResult \/ TakeTask \/ AgentCrash
  \/ \E e \in End : Socket(e) \/ Deliver(e)

Spec == Init /\ [][Next]_vars

\* Both programs run, handlers are taken to return (see Job for those that do
\* not), and TCP delivers what was written.
Fairness ==
  /\ \A e \in End : WF_vars(Socket(e)) /\ WF_vars(Deliver(e))
  /\ WF_vars(Send) /\ WF_vars(TakeResult) /\ WF_vars(TakeTask)
FairSpec == Spec /\ Fairness

-----------------------------------------------------------------------------
(* Properties *)

\* A message the agent's buffer holds.
Fits(n) == Len(TaskText(n)) <= msgSizeLimit
Plain(n) == \A i \in DOMAIN tasks[n].args : ~Contains(tasks[n].args[i], Sp)

\* As long as TCP hands over every write whole, a handler is called with
\* exactly the task that was dispatched, if the names in it hold no space and
\* its size fits in the prefix.
HandlerExact ==
  cuts = 0 =>
    \A n \in DOMAIN handled : Plain(n) /\ Len(TaskText(n)) < Width =>
      /\ handled[n].id = Id(n) /\ handled[n].type = tasks[n].type
      /\ handled[n].args = tasks[n].args

\* Whatever TCP and the size prefix do to the bytes: the dispatcher believes
\* in a success only if a handler returned one for the task it waits for.  A
\* task whose message cannot be decoded comes back as a failure without an id.
SuccessIsReal ==
  \A n \in DOMAIN results :
    /\ results[n].id \in {Id(n), <<>>}
    /\ results[n].rc = 0 => \E i \in DOMAIN handled :
                             handled[i].id = Id(n) /\ handled[i].rc = 0

\* stoi throws, and the loop that drains a message does not end, only after
\* TCP has cut a message: neither end of the dispatch thread comes about by
\* what an agent sends.
DispatcherSurvives == cuts = 0 => pc["dispatcher"] \notin {"dead", "drain", "spin"}

\* A task whose message fits is answered, if its handler returns, unless the
\* agent dies or a message is cut.
Answered ==
  /\ pc["dispatcher"] = "writeSize"
  /\ next <= Len(tasks) + 1 /\ Fits(next - 1)
  ~> cuts > 0 \/ pc["dispatcher"] = "ready" \/ pc["agent"] = "dead"

-----------------------------------------------------------------------------
(* The inductive invariant.  The message that was written last is next - 1, *)
(* the agent has handled it if Len(handled) = next - 1, and Reply is what    *)
(* it then answers.                                                          *)

Reply(n) == ResultText(handled[n].id, handled[n].rc)

\* An end has rest of the size, and of the body what was written, on the way
\* or in its buffer; of a message that was not cut, whole writes.
Stream(w, u, whole, rest, body) ==
  \/ w = <<>> /\ u = rest \o body
  \/ /\ Len(w) = 1 /\ w[1] # <<>> /\ u \o w[1] = rest \o body
     /\ whole => \/ u = rest
                 \/ u = <<>> /\ body = <<>>
  \/ /\ Len(w) = 2 /\ w[1] # <<>> /\ u \o w[1] = rest
     /\ body # <<>> /\ w[2] = body
     /\ whole => u = <<>>
Coming(e, rest, body) == Stream(wire[e], buf[e], cuts = 0, rest, body)
Quiet(e) == wire[e] = <<>> /\ buf[e] = <<>>

\* The agent will read a byte of text for the first of a size ...
Adrift(w, u) ==
  \/ u # <<>> /\ u[1] >= Sp
  \/ u = <<>> /\ w # <<>> /\ w[1] # <<>> /\ w[1][1] >= Sp
Drifting == cuts > 0 /\ Adrift(wire["agent"], buf["agent"])
\* ... or has, or reads nothing: it handles no task any more.
Lost ==
  \/ pc["agent"] \in {"drain", "spin", "closed", "dead", "out"}
  \/ pc["agent"] = "got" /\ text["agent"] = <<>>

\* A body that was read is a part of the task; the rest will be misread.
AgentInStep ==
  LET k == next - 1
      d == pc["dispatcher"]
      a == pc["agent"]
      h == Len(handled)
      sent == IF d = "writeBody" THEN <<>> ELSE Body(Message(k))
  IN  \/ Lost
      \/ a = "off" /\ Quiet("agent") /\ k = 0 /\ h = 0
      \/ a = "size" /\ Quiet("agent") /\ (h = k \/ d = "writeSize")
      \/ a = "size" /\ Drifting
      \/ /\ h = k - 1 /\ d \notin {"ready", "writeSize"}
         /\ \/ a = "size" /\ Coming("agent", Size(Message(k)), sent)
            \/ /\ a = "body" /\ Coming("agent", <<>>, sent)
               /\ ~TooLong(Announced(Message(k)))
            \/ /\ a = "got" /\ d # "writeBody"
               /\ \/ text["agent"] = sent /\ Quiet("agent")
                  \/ IsPrefix(text["agent"], sent) /\ Drifting
      \/ /\ h = k /\ k > 0 /\ a \in {"writeSize", "writeBody"}
         /\ text["agent"] = Reply(k) /\ (Quiet("agent") \/ Drifting)

\* What the dispatcher reads after a cut never is a result.
Garbled(w, u) ==
  /\ \A i \in DOMAIN u : Misread(u[i]) /\ (i > 1 => u[i] >= Sp)
  /\ \A j \in DOMAIN w : \A i \in DOMAIN w[j] :
       Misread(w[j][i]) /\ (u # <<>> \/ j > 1 \/ i > 1 => w[j][i] >= Sp)
Astray ==
  LET k == next - 1
      d == pc["dispatcher"]
      str == text["dispatcher"]
  IN  /\ d \in {"size", "got", "drain", "spin", "dead"}
      /\ d = "got" => \/ str = <<>>
                      \/ Len(handled) = k /\ IsStrictPrefix(str, Reply(k))
      /\ \/ pc["agent"] \in {"closed", "dead"}
         \/ Len(handled) = k /\ pc["agent"] # "writeSize"
      /\ Garbled(wire["dispatcher"], buf["dispatcher"])
      /\ cuts = 0 => /\ Quiet("dispatcher") /\ pc["agent"] \in {"closed", "dead"}
                     /\ d = "size" \/ (d = "got" /\ str = <<>>)

\* The dispatcher waits for the result of the task it has sent last.
Waiting ==
  LET k == next - 1
      d == pc["dispatcher"]
      a == pc["agent"]
  IN  \/ Astray
      \/ d = "size" /\ Quiet("dispatcher") /\ (Len(handled) < k \/ a \in {"writeSize", "dead"})
      \/ /\ Len(handled) = k /\ a # "writeSize"
         /\ \/ \E sent \in {<<>>, Reply(k)} :
                 /\ a = "writeBody" => sent = <<>>
                 /\ sent = <<>> => a \in {"writeBody", "dead"}
                 /\ \/ d = "size" /\ Coming("dispatcher", Size(Reply(k)), sent)
                    \/ d = "body" /\ Coming("dispatcher", <<>>, sent)
            \/ /\ d = "got" /\ a # "writeBody"
               /\ text["dispatcher"] = Reply(k) /\ Quiet("dispatcher")
DispatcherInStep ==
  LET k == next - 1
      d == pc["dispatcher"]
      answered == Len(results) = k /\ Len(handled) = k
      asked == k > 0 /\ Len(results) = k - 1 /\ Len(handled) \in {k - 1, k}
  IN  \/ d = "off" /\ k = 0 /\ answered /\ Quiet("dispatcher")
      \/ /\ d = "ready" /\ answered /\ k <= Len(tasks)
         /\ Quiet("dispatcher") /\ pc["agent"] \notin {"writeSize", "writeBody"}
      \/ d = "closed" /\ k = 0 /\ answered
      \/ d = "closed" /\ k = Len(tasks) + 1 /\ asked /\ Len(handled) = k - 1
      \/ /\ d \in {"writeSize", "writeBody"} /\ asked /\ Len(handled) = k - 1
         /\ Quiet("dispatcher") /\ text["dispatcher"] = Message(k)
      \/ asked /\ k <= Len(tasks) /\ Waiting

\* The agent handles the tasks in order, each at most once; one it could not
\* decode has no id and fails.  The dispatcher believes what it is told.
InOrder ==
  /\ \A n \in DOMAIN handled :
       /\ handled[n].id \in {Id(n), <<>>}
       /\ handled[n].rc = 0 => handled[n].id = Id(n)
  /\ \A n \in DOMAIN results :
       n \in DOMAIN handled /\ results[n].id = handled[n].id /\ results[n].rc = handled[n].rc

IInv == TypeOK /\ InOrder /\ AgentInStep /\ DispatcherInStep /\ HandlerExact
=============================================================================
