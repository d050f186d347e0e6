----------------------------- MODULE TcpServer ------------------------------
(***************************************************************************)
(* The stream server of src/client-server/TCP: a process that accepts      *)
(* connections and forks a child for each (server.c), the handler that     *)
(* waits for the children that exit, which interrupts it anywhere, and the *)
(* clients (client.c).  A child is named by the client it serves.          *)
(*                                                                         *)
(* A stream is reduced to whether the greeting was sent; what the kernel   *)
(* does of it, of signals and of descriptors is that of POSIX.  The client *)
(* has the whole greeting in one recv.                                     *)
(***************************************************************************)
EXTENDS Integers, FiniteSets, Sequences

CONSTANTS
  Clients,
  BACKLOG,       \* pending connections that listen() allows: 10
  ADDRESSES,     \* addresses that getaddrinfo returns
  MAX_FAILURES   \* bound on the calls of accept, fork and send that fail

ASSUME ServerAssumption ==
  /\ IsFiniteSet(Clients)
  /\ BACKLOG \in Nat \ {0} /\ ADDRESSES \in Nat /\ MAX_FAILURES \in Nat

VARIABLES
  s_pc,       \* where the parent is
  s_address,  \* addresses it has tried
  new_fd,     \* the client of the connection it accepted last
  s_fds,      \* connections it has a descriptor of
  errno,
  failure,    \* why accept failed
  handler,    \* where sigchld_handler is, "idle" if it is not running
  saved_errno,
  pending,    \* a SIGCHLD is to be delivered
  child,      \* where each child is, "none" before the fork
  c_fds,      \* connections each child has a descriptor of
  queue,      \* connections to be accepted
  sent,       \* the greeting is in the stream of a client
  client,     \* where each client is
  failures    \* how many calls have failed

serverVars == <<s_pc, s_address, new_fd, s_fds, errno, failure, handler, saved_errno,
                pending, child, c_fds, queue, sent, client, failures>>

parentVars == <<s_pc, s_address, new_fd, s_fds>>
signalVars == <<handler, saved_errno, pending>>
childVars  == <<child, c_fds, sent>>
clientVars == <<queue, client>>

NoClient == "none"

May == failures < MAX_FAILURES /\ failures' = failures + 1

\* A process runs unless the handler interrupts it.
Parent(from, to) == handler = "idle" /\ s_pc = from /\ s_pc' = to

-----------------------------------------------------------------------------
(***************************************************************************)
(* The parent: the first address a socket can be bound to, then the loop.  *)
(***************************************************************************)
\* Variant: the end of the list is passed.
BugHasAddress == s_address <= ADDRESSES

HasAddress == s_address < ADDRESSES

\* socket or bind fails: the next address.
TryNext ==
  /\ HasAddress
  /\ Parent("bind", "bind")
  /\ s_address' = s_address + 1
  /\ UNCHANGED <<new_fd, s_fds, errno, failure, failures, signalVars, childVars, clientVars>>

\* It is bound and listens, or there is no address left, or setsockopt, listen
\* or sigaction fails.
Listen ==
  /\ IF HasAddress THEN Parent("bind", "accept") \/ Parent("bind", "exit")
                   ELSE Parent("bind", "exit")
  /\ UNCHANGED <<s_address, new_fd, s_fds, errno, failure, failures, signalVars, childVars,
                 clientVars>>

Accept ==
  /\ Parent("accept", "fork")
  /\ queue # <<>>
  /\ new_fd' = Head(queue) /\ queue' = Tail(queue)
  /\ s_fds' = s_fds \cup {new_fd'}
  /\ UNCHANGED <<s_address, errno, failure, failures, signalVars, childVars, client>>

AcceptFails ==
  /\ Parent("accept", "perror")
  /\ May
  /\ errno' = "EMFILE" /\ failure' = errno'
  /\ UNCHANGED <<s_address, new_fd, s_fds, signalVars, childVars, clientVars>>

PrintError ==
  /\ Parent("perror", "accept")
  /\ UNCHANGED <<s_address, new_fd, s_fds, errno, failure, failures, signalVars, childVars,
                 clientVars>>

\* The child has a copy of every descriptor.
Fork ==
  /\ Parent("fork", "close")
  /\ child' = [child EXCEPT ![new_fd] = "forked"]
  /\ c_fds' = [c_fds EXCEPT ![new_fd] = s_fds]
  /\ UNCHANGED <<s_address, new_fd, s_fds, errno, failure, failures, signalVars, sent,
                 clientVars>>

\* fork returns -1, which is taken for the parent's side of it.
ForkFails ==
  /\ Parent("fork", "close")
  /\ May
  /\ errno' = "EAGAIN"
  /\ UNCHANGED <<s_address, new_fd, s_fds, failure, signalVars, childVars, clientVars>>

\* Variant: the parent keeps its descriptor.
BugClosed(fds, fd) == fds

Closed(fds, fd) == fds \ {fd}

CloseConnection ==
  /\ Parent("close", "accept")
  /\ s_fds' = Closed(s_fds, new_fd)
  /\ UNCHANGED <<s_address, new_fd, errno, failure, failures, signalVars, childVars, clientVars>>

ParentStep == TryNext \/ Listen \/ Accept \/ PrintError \/ Fork \/ CloseConnection

-----------------------------------------------------------------------------
(***************************************************************************)
(* The handler.  SIGCHLD is blocked while it runs, and two of them pending *)
(* are one.                                                                *)
(***************************************************************************)
HandlerStarts ==
  /\ pending /\ handler = "idle"
  /\ pending' = FALSE
  /\ handler' = "wait" /\ saved_errno' = errno
  /\ UNCHANGED <<parentVars, errno, failure, failures, childVars, clientVars>>

\* Variant: waitpid is called once.
BugAfterReaping == "return"

AfterReaping == "wait"

Reap(c) ==
  /\ handler = "wait" /\ child[c] = "zombie"
  /\ child' = [child EXCEPT ![c] = "reaped"]
  /\ handler' = AfterReaping
  /\ UNCHANGED <<parentVars, errno, failure, failures, saved_errno, pending, c_fds, sent,
                 clientVars>>

\* waitpid returns 0, or -1 if there is no child any more.
NoneToReap ==
  /\ handler = "wait" /\ \A c \in Clients : child[c] # "zombie"
  /\ handler' = "return"
  /\ errno' = IF \A c \in Clients : child[c] \in {"none", "reaped"} THEN "ECHILD" ELSE errno
  /\ UNCHANGED <<parentVars, failure, failures, saved_errno, pending, childVars, clientVars>>

\* Variant: errno is not restored.
BugRestored(errno_now) == errno_now

Restored(errno_now) == saved_errno

HandlerReturns ==
  /\ handler = "return"
  /\ handler' = "idle" /\ errno' = Restored(errno)
  /\ UNCHANGED <<parentVars, failure, failures, saved_errno, pending, childVars, clientVars>>

HandlerStep == HandlerStarts \/ (\E c \in Clients : Reap(c)) \/ NoneToReap \/ HandlerReturns

-----------------------------------------------------------------------------
(***************************************************************************)
(* The children.                                                           *)
(***************************************************************************)
Send(c) ==
  /\ child[c] = "forked"
  /\ child' = [child EXCEPT ![c] = "sent"]
  /\ \/ sent' = [sent EXCEPT ![c] = TRUE] /\ UNCHANGED failures
     \/ UNCHANGED sent /\ May
  /\ UNCHANGED <<parentVars, errno, failure, signalVars, c_fds, clientVars>>

CloseCopy(c) ==
  /\ child[c] = "sent"
  /\ child' = [child EXCEPT ![c] = "closed"]
  /\ c_fds' = [c_fds EXCEPT ![c] = @ \ {c}]
  /\ UNCHANGED <<parentVars, errno, failure, failures, signalVars, sent, clientVars>>

\* exit closes what is left, and signals the parent.
Exit(c) ==
  /\ child[c] = "closed"
  /\ child' = [child EXCEPT ![c] = "zombie"]
  /\ c_fds' = [c_fds EXCEPT ![c] = {}]
  /\ pending' = TRUE
  /\ UNCHANGED <<parentVars, errno, failure, failures, handler, saved_errno, sent, clientVars>>

ChildStep(c) == Send(c) \/ CloseCopy(c) \/ Exit(c)

-----------------------------------------------------------------------------
(***************************************************************************)
(* The clients.                                                            *)
(***************************************************************************)
Connect(c) ==
  /\ client[c] = "idle"
  /\ IF s_pc \in {"bind", "exit"} \/ Len(queue) >= BACKLOG
       THEN client' = [client EXCEPT ![c] = "refused"] /\ UNCHANGED queue
       ELSE client' = [client EXCEPT ![c] = "waiting"] /\ queue' = Append(queue, c)
  /\ UNCHANGED <<parentVars, errno, failure, failures, signalVars, childVars>>

\* The end of a stream is read when no process has a descriptor of it.
EndOfStream(c) ==
  /\ ~\E i \in DOMAIN queue : queue[i] = c
  /\ c \notin s_fds /\ \A d \in Clients : c \notin c_fds[d]

Receive(c) ==
  /\ client[c] = "waiting"
  /\ sent[c] \/ EndOfStream(c)
  /\ client' = [client EXCEPT ![c] = IF sent[c] THEN "greeted" ELSE "empty"]
  /\ UNCHANGED <<parentVars, errno, failure, failures, signalVars, childVars, queue>>

-----------------------------------------------------------------------------
ServerAt(pc) ==
  /\ s_pc = pc /\ s_address = 0 /\ new_fd = NoClient /\ s_fds = {}
  /\ errno = "none" /\ failure = "none"
  /\ handler = "idle" /\ saved_errno = "none" /\ pending = FALSE
  /\ child = [c \in Clients |-> "none"] /\ c_fds = [c \in Clients |-> {}]
  /\ sent = [c \in Clients |-> FALSE]
  /\ queue = <<>> /\ client = [c \in Clients |-> "idle"] /\ failures = 0

ServerInit == ServerAt("bind")

ServerNext ==
  \/ ParentStep \/ AcceptFails \/ ForkFails
  \/ HandlerStep
  \/ \E c \in Clients : ChildStep(c) \/ Connect(c) \/ Receive(c)

\* Every process runs if it can; clients connect when they like, and no call
\* has to fail.
ServerFairness ==
  /\ WF_serverVars(ParentStep)
  /\ WF_serverVars(HandlerStep)
  /\ \A c \in Clients : WF_serverVars(ChildStep(c)) /\ WF_serverVars(Receive(c))

ServerSpec == ServerInit /\ [][ServerNext]_serverVars /\ ServerFairness

-----------------------------------------------------------------------------
(***************************************************************************)
(* Properties.                                                             *)
(***************************************************************************)
ServerTypeOK ==
  /\ s_pc \in {"bind", "accept", "fork", "perror", "close", "exit"}
  /\ s_address \in 0 .. ADDRESSES /\ new_fd \in Clients \cup {NoClient}
  /\ s_fds \subseteq Clients
  /\ {errno, failure, saved_errno} \subseteq {"none", "EMFILE", "EAGAIN", "ECHILD"}
  /\ handler \in {"idle", "wait", "return"} /\ pending \in BOOLEAN
  /\ child \in [Clients -> {"none", "forked", "sent", "closed", "zombie", "reaped"}]
  /\ c_fds \in [Clients -> SUBSET Clients] /\ sent \in [Clients -> BOOLEAN]
  /\ queue \in Seq(Clients) /\ Len(queue) <= BACKLOG
  /\ client \in [Clients -> {"idle", "refused", "waiting", "greeted", "empty"}]
  /\ failures \in 0 .. MAX_FAILURES

\* The reason of a failed accept is what perror prints, though the handler,
\* whose last waitpid fails for want of children, may run in between
\* (server.c:24-29, 111-113).
ErrnoKept == s_pc = "perror" /\ handler = "idle" => errno = failure

\* The parent keeps no connection, whether fork succeeds or not, so that a child
\* has no descriptor but of its own (server.c:122-129).
OneDescriptor ==
  /\ s_fds \subseteq {new_fd} /\ (s_pc = "accept" => s_fds = {})
  /\ \A c \in Clients : c_fds[c] \subseteq {c}

\* No child that exited is forgotten, though several exits may be one signal,
\* and may come while the handler runs (server.c:27).
NoForgottenZombie ==
  (\E c \in Clients : child[c] = "zombie") => pending \/ handler = "wait"

\* Every child that exits is waited for in the end (server.c:22-30).
EveryChildReaped == \A c \in Clients : child[c] = "zombie" ~> child[c] = "reaped"

\* Every client that could connect has an answer or the end of the stream,
\* whatever fails (server.c:109-130, client.c:81 of TCP).
EveryClientAnswered ==
  \A c \in Clients : client[c] = "waiting" ~> client[c] \in {"greeted", "empty"}
=============================================================================
