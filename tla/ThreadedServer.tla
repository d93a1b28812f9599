--------------------------- MODULE ThreadedServer ----------------------------
(***************************************************************************)
(* A varlink server from its construction to its destruction: the owner    *)
(* that registers interfaces, stops and destroys it, the accept loop, and  *)
(* the sessions that look interfaces up while the owner does so.           *)
(*                                                                         *)
(* A session handles one request at a time (ServerSession), and its steps  *)
(* are those of message_call that read the registry.  interfaces is a      *)
(* vector: a reader holds positions in its storage, and add_interface may  *)
(* move the entries to new storage and free the old.  What an entry owns   *)
(* (its types, the nodes of its callback map) stays where it is.           *)
(*                                                                         *)
(* Without liberties this is also a varlink_server, whose handlers and     *)
(* owner share the one thread that runs its io_context.                    *)
(***************************************************************************)
EXTENDS Integers, SequencesExt

CONSTANTS
    Client,         \* the clients that may connect
    Interface,      \* the names of the interfaces that the owner adds, in order
    MaxReplies,     \* bound: replies with continues to one call
    OwnerMay        \* what the owner does at a bad time, see Liberties

\* org.varlink.service, which the service adds itself.
Std == "org.varlink.service"

\* A request has a mode, a call ("GetInfo", "GetInterfaceDescription", or
\* "Call" for a method of another interface), and of, the interface that is
\* described or called.
Name == {Std} \cup Range(Interface)

\* add_anytime: add_interface while requests are handled.
\* destroy_running: destruction without stop() and join().
Liberties == {"add_anytime", "destroy_running"}

VARIABLES
    up, down,       \* the frames of each connection, to the server and back
    gone            \* connections whose server end is closed

VARIABLES
    owner,          \* where the owner is
    members,        \* the members of threaded_server that are alive
    stopped,        \* the pool is stopped: no handler is started
    path,           \* the socket file: "free", "ours", or "foreign"
    accept,         \* the accept loop, or the client whose socket it got
    backlog,        \* connections that the acceptor has not accepted
    interfaces,     \* the names in varlink_service::interfaces
    capacity,       \* of its storage
    storage,        \* which storage it is; those before it are freed
    adding,         \* the interface for which entries have been moved
    session,        \* what each session does
    ref,            \* the positions it has read: storage and length
    handled,        \* requests it has taken
    sent,           \* replies to the one it handles
    dangling        \* what was used after it was destroyed

registryVars == <<interfaces, capacity, storage, adding>>
sessionVars == <<session, ref, handled, sent>>
acceptVars == <<accept, backlog>>
ownerVars == <<owner, members, stopped, path>>
serverVars == <<ownerVars, acceptVars, registryVars, sessionVars, dangling>>

\* The k-th request's n-th reply: the interfaces it says are there, or none
\* and an error InterfaceNotFound.
Reply == [req : Nat, n : Nat, continues : BOOLEAN, error : BOOLEAN,
          known : SUBSET Name]

NoRef == [storage |-> 0, len |-> 0]
Phases == {"none", "reading", "searching", "found", "missing", "streaming"}

TypeOK ==
    /\ owner \in {"new", "refused", "up", "adding", "stopping", "joined",
                  "destroying", "destroyed"}
    /\ members \subseteq {"ctx", "service", "server"}
    /\ path \in {"free", "foreign", "ours"}
    /\ accept \in {"none", "posted", "pending", "failed"} \cup Client
    /\ backlog \in Seq(Client)
    /\ interfaces \in Seq(Name) /\ IsInjective(interfaces)
    /\ Len(interfaces) <= capacity
    /\ adding \in Name
    /\ session \in [Client -> Phases]
    /\ \A c \in Client : /\ handled[c] \in 0 .. Len(up[c])
                         /\ down[c] \in Seq(Reply)
                         /\ sent[c] \in 0 .. MaxReplies

\* Sessions that are in message_call on some thread.
Dispatching == {c \in Client : session[c] \in {"searching", "found", "missing"}}

Init == /\ owner = "new" /\ members = {} /\ stopped = FALSE
        /\ path \in {"free", "foreign"}
        /\ accept = "none" /\ backlog = <<>>
        /\ interfaces = <<>> /\ capacity = 0 /\ storage = 0 /\ adding = Std
        /\ session = [c \in Client |-> "none"]
        /\ ref = [c \in Client |-> NoRef]
        /\ handled = [c \in Client |-> 0] /\ sent = [c \in Client |-> 0]
        /\ dangling = {}

\* A handler uses members, and storages of the vector, that may be gone.
Uses(parts, storages) ==
    dangling' = (parts \ members) \cup (IF storages \subseteq {storage} THEN {}
                                                                 ELSE {"storage"})
-----------------------------------------------------------------------------
(* The owner.                                                              *)

\* Faulty: the destructor removes the file whoever has the acceptor.
RemovedAlways(file, open) == "free"

\* ~async_server removes the socket file if its acceptor is open; the one that
\* was moved from is not.
Removed(file, open) == IF open THEN "free" ELSE file

\* The constructor: the service adds its own interface, the acceptor binds the
\* path and is moved into the member server, and the accept loop is posted.  A
\* path that exists makes bind() throw.
Construct ==
    /\ owner = "new"
    /\ \/ /\ path = "foreign"
          /\ owner' = "refused"
          /\ UNCHANGED <<members, path, accept, interfaces, capacity, storage>>
       \/ /\ path = "free"
          /\ owner' = "up"
          /\ members' = {"ctx", "service", "server"}
          /\ path' = Removed("ours", FALSE)
          /\ accept' = "posted"
          /\ interfaces' = <<Std>> /\ capacity' = 1 /\ storage' = 1
    /\ UNCHANGED <<up, down, gone, stopped, backlog, adding, sessionVars, dangling>>

\* A name that is there already makes add_interface throw.
MayAdd(i) == /\ owner = "up"
             /\ Len(interfaces) <= Len(Interface)
             /\ i = Interface[Len(interfaces)] /\ i \notin Range(interfaces)
             /\ Dispatching = {} \/ "add_anytime" \in OwnerMay

\* add_interface with room in the storage.
AddInterface(i) ==
    /\ MayAdd(i)
    /\ Len(interfaces) < capacity
    /\ interfaces' = Append(interfaces, i)
    /\ UNCHANGED <<up, down, gone, ownerVars, acceptVars, capacity, storage, adding,
                   sessionVars, dangling>>

\* add_interface without: the entries move and the old storage is freed, and
\* then the vector is made to refer to the new one.
AddMoves(i) ==
    /\ MayAdd(i)
    /\ Len(interfaces) = capacity
    /\ owner' = "adding" /\ adding' = i
    /\ storage' = storage + 1
    /\ UNCHANGED <<up, down, gone, members, stopped, path, acceptVars, interfaces,
                   capacity, sessionVars, dangling>>

AddPublishes ==
    /\ owner = "adding"
    /\ owner' = "up"
    /\ interfaces' = Append(interfaces, adding)
    /\ capacity' = 2 * capacity
    /\ adding' = Std
    /\ UNCHANGED <<up, down, gone, members, stopped, path, acceptVars, storage,
                   sessionVars, dangling>>

Stop == /\ owner = "up"
        /\ owner' = "stopping" /\ stopped' = TRUE
        /\ UNCHANGED <<up, down, gone, members, path, acceptVars, registryVars,
                       sessionVars, dangling>>

\* Faulty: join() returns while a handler runs.
JoinAtOnce == /\ owner = "stopping"
              /\ owner' = "joined"
              /\ UNCHANGED <<up, down, gone, members, stopped, path, acceptVars,
                             registryVars, sessionVars, dangling>>

\* join() waits for the handlers that run.
Join == /\ owner = "stopping"
        /\ Dispatching = {}
        /\ owner' = "joined"
        /\ UNCHANGED <<up, down, gone, members, stopped, path, acceptVars,
                       registryVars, sessionVars, dangling>>

\* The destructor of the member server closes the acceptor, and with it the
\* connections nobody has accepted.  A pending accept is aborted, and its
\* handler returns; one that has a socket, and the posted start of the accept
\* loop, are still to run.
DestroyServer ==
    /\ owner = "joined" \/ (owner = "up" /\ "destroy_running" \in OwnerMay)
    /\ owner' = "destroying"
    /\ members' = members \ {"server"}
    /\ path' = Removed(path, TRUE)
    /\ gone' = gone \cup Range(backlog)
    /\ backlog' = <<>>
    /\ accept' = IF accept = "pending" THEN "none" ELSE accept
    /\ UNCHANGED <<up, down, stopped, registryVars, sessionVars, dangling>>

DestroyService == /\ owner = "destroying" /\ "service" \in members
                  /\ members' = members \ {"service"}
                  /\ UNCHANGED <<up, down, gone, owner, stopped, path, acceptVars,
                                 registryVars, sessionVars, dangling>>

\* The pool is declared first and destroyed last: it stops, waits for the
\* handlers that run, and destroys the others and their sessions.
DestroyPool == /\ owner = "destroying" /\ members = {"ctx"}
               /\ Dispatching = {}
               /\ owner' = "destroyed" /\ members' = {}
               /\ stopped' = TRUE
               /\ gone' = gone \cup {c \in Client : session[c] # "none" \/ accept = c}
               /\ accept' = "none"
               /\ session' = [c \in Client |-> "none"]
               /\ UNCHANGED <<up, down, path, backlog, registryVars, ref, handled,
                              sent, dangling>>

OwnerStep == \/ Construct
             \/ \E i \in Range(Interface) : AddInterface(i) \/ AddMoves(i)
             \/ AddPublishes
             \/ Stop \/ Join
             \/ DestroyServer \/ DestroyService \/ DestroyPool
-----------------------------------------------------------------------------
(* The accept loop.                                                        *)

\* The kernel queues the connection until it is accepted.
Connects(c) == /\ "server" \in members
               /\ backlog' = Append(backlog, c)
               /\ UNCHANGED <<ownerVars, accept, registryVars, sessionVars, dangling>>

\* The posted lambda: async_serve_forever.
RunPosted == /\ ~stopped
             /\ accept = "posted"
             /\ accept' = "pending"
             /\ Uses({"server"}, {})
             /\ UNCHANGED <<up, down, gone, ownerVars, backlog, registryVars,
                            sessionVars>>

AcceptCompletes == /\ ~stopped
                   /\ accept = "pending" /\ backlog # <<>>
                   /\ accept' = Head(backlog)
                   /\ backlog' = Tail(backlog)
                   /\ UNCHANGED <<up, down, gone, ownerVars, registryVars,
                                  sessionVars, dangling>>

\* The handler returns on an error: there is no other accept.
AcceptFails == /\ ~stopped
               /\ accept = "pending" /\ backlog # <<>>
               /\ accept' = "failed"
               /\ UNCHANGED <<up, down, gone, ownerVars, backlog, registryVars,
                              sessionVars, dangling>>

\* Faulty: accepts no other connection.
HandleOneAccept(c) == /\ ~stopped
                      /\ accept = c
                      /\ session' = [session EXCEPT ![c] = "reading"]
                      /\ accept' = "none"
                      /\ Uses({"server"}, {})
                      /\ UNCHANGED <<up, down, gone, ownerVars, backlog, registryVars,
                                     ref, handled, sent>>

\* The handler makes a session, starts it and accepts again.
HandleAccept(c) == /\ ~stopped
                   /\ accept = c
                   /\ session' = [session EXCEPT ![c] = "reading"]
                   /\ accept' = "pending"
                   /\ Uses({"server"}, {})
                   /\ UNCHANGED <<up, down, gone, ownerVars, backlog, registryVars,
                                  ref, handled, sent>>
-----------------------------------------------------------------------------
(* Sessions.                                                               *)

Current(c) == up[c][handled[c]]

\* The interface that message_call looks for.
Target(request) == IF request.call = "Call" THEN request.of ELSE Std

\* The storage that the vector refers to.
Published == IF owner = "adding" THEN storage - 1 ELSE storage

\* The receive handler with the next request: find_interface reads cbegin()
\* and cend().
Dispatch(c) ==
    /\ ~stopped
    /\ session[c] = "reading"
    /\ handled[c] < Len(up[c])
    /\ owner = "adding" => "add_anytime" \in OwnerMay
    /\ handled' = [handled EXCEPT ![c] = @ + 1]
    /\ session' = [session EXCEPT ![c] = "searching"]
    /\ ref' = [ref EXCEPT ![c] = [storage |-> Published, len |-> Len(interfaces)]]
    /\ Uses({"service"}, {Published})
    /\ UNCHANGED <<up, down, gone, ownerVars, acceptVars, registryVars, sent>>

\* Faulty: leaves out the last entry.
FoundBeforeLast(c) ==
    \E k \in 1 .. ref[c].len - 1 : interfaces[k] = Target(Current(c))

\* Whether find_if stops at an entry.
Found(c) == \E k \in 1 .. ref[c].len : interfaces[k] = Target(Current(c))

\* find_if goes through the entries; what it returns is compared with cend()
\* as it is then.
Search(c) ==
    /\ session[c] = "searching"
    /\ session' = [session EXCEPT ![c] =
                      IF ~Found(c) /\ ref[c] = [storage |-> Published, len |-> Len(interfaces)]
                        THEN "missing" ELSE "found"]
    /\ Uses({"service"}, {ref[c].storage})
    /\ UNCHANGED <<up, down, gone, ownerVars, acceptVars, registryVars, ref,
                   handled, sent>>

\* A reply is written; the final one makes the session read again.
Replies(c, continues, error, known) ==
    LET phase == IF continues THEN "streaming" ELSE "reading"
    IN  /\ down' = [down EXCEPT ![c] =
                       Append(@, [req |-> handled[c], n |-> sent[c] + 1,
                                  continues |-> continues, error |-> error,
                                  known |-> known])]
        /\ sent' = [sent EXCEPT ![c] = IF continues THEN @ + 1 ELSE 0]
        /\ session' = [session EXCEPT ![c] = phase]
        /\ ref' = [ref EXCEPT ![c] = NoRef]
        /\ UNCHANGED <<up, gone, ownerVars, acceptVars, registryVars, handled>>

\* The lambda error, whatever the mode of the call.
RepliesError(c) == Replies(c, FALSE, TRUE, {})

\* Faulty: the reply function sends replies to oneway calls.
AnswersAlways(c, continues, known) == Replies(c, continues, FALSE, known)

\* The reply function: nothing is sent for a oneway call.
Answers(c, continues, known) ==
    IF Current(c).mode = "oneway"
      THEN /\ session' = [session EXCEPT ![c] = "reading"]
           /\ ref' = [ref EXCEPT ![c] = NoRef]
           /\ UNCHANGED <<up, down, gone, ownerVars, acceptVars, registryVars,
                          handled, sent>>
      ELSE Replies(c, continues, FALSE, known)

NotFound(c) == /\ session[c] = "missing"
               /\ Uses({"service"}, {})
               /\ RepliesError(c)

\* The entry that interface_it refers to: one behind the end if the vector has
\* grown in its storage since cend() was read.
Entry(c) == IF Found(c) THEN Target(Current(c)) ELSE interfaces[ref[c].len + 1]

\* The callback runs.  GetInfo and GetInterfaceDescription read the registry
\* again; an entry of another interface does not have the method.
Execute(c) ==
    LET request == Current(c)
        known == IF request.call = "GetInfo" THEN Range(interfaces) ELSE {request.of}
    IN  /\ session[c] = "found"
        /\ Uses({"service"}, {ref[c].storage})
        /\ \/ /\ Entry(c) = Target(request) /\ known \subseteq Range(interfaces)
              /\ \/ Answers(c, FALSE, known)
                 \/ /\ request.mode = "more" /\ request.call = "Call" /\ MaxReplies > 0
                    /\ Answers(c, TRUE, known)
           \/ /\ Entry(c) # Target(request) \/ ~(known \subseteq Range(interfaces))
              /\ RepliesError(c)

\* A callback with the more flag goes on from a timer.  The type that its
\* reply function refers to belongs to the service.
Stream(c) == /\ ~stopped
             /\ session[c] = "streaming"
             /\ sent[c] < MaxReplies
             /\ Uses({"service"}, {})
             /\ Answers(c, TRUE, {Current(c).of})

EndStream(c) == /\ ~stopped
                /\ session[c] = "streaming"
                /\ Uses({"service"}, {})
                /\ Answers(c, FALSE, {Current(c).of})

SessionStep(c) == \/ Dispatch(c) \/ Search(c) \/ NotFound(c) \/ Execute(c)
                  \/ EndStream(c)

AcceptStep == \/ RunPosted \/ AcceptCompletes
              \/ \E c \in Client : HandleAccept(c)

Next == /\ dangling = {}
        /\ \/ OwnerStep
           \/ AcceptStep \/ AcceptFails
           \/ \E c \in Client : SessionStep(c) \/ Stream(c)
=============================================================================
