----------------------------- MODULE MessageCall -----------------------------
(***************************************************************************)
(* A call on its way to a callback: the message that the client makes of   *)
(* it, what the server reads in that message, and message_call's choice    *)
(* between an error and the callback, once the interface is constructed    *)
(* from its description.  How descriptions are read and values validated   *)
(* are parameters, which InterfaceValidation defines.                      *)
(***************************************************************************)
EXTENDS Message, InterfaceMembers

CONSTANTS
    Declared,           \* the types to validate against
    Calls,              \* the calls a client may make, [method, parameters, mode]
    Frames,             \* what else a peer may send: any JSON value
    Read(_),            \* the interface that is read for a declared type
    Valid(_, _, _, _)   \* validate, with the members of the interface

VARIABLES
    declared,       \* the type of the parameter "a" of the method "M"
    interface,      \* the members of the interface, once it is constructed
    call,           \* the call that the client makes, if any
    message,        \* what the server reads in the frame, once there is one
    verdict         \* what becomes of it

vars == <<declared, interface, call, message, verdict>>

NoCall == [method |-> <<>>]

\* The interface org.test has a method M with a callback, and N without one.
InterfaceName == <<"org", "test">>
Callbacks == {"M"}

Init == /\ declared \in Declared
        /\ interface = <<>>
        /\ call = NoCall
        /\ message = Invalid
        /\ verdict = "none"

\* A varlink_interface is constructed from its description, or the
\* constructor throws.
Construct ==
    /\ interface = <<>> /\ verdict = "none"
    /\ LET members == Read(declared)
       IN  IF members.ok
             THEN interface' = members.value /\ UNCHANGED verdict
             ELSE verdict' = "interface_error" /\ UNCHANGED interface
    /\ UNCHANGED <<declared, call, message>>

\* message_call: the first thing that is wrong with the message is the error
\* of the call; a frame that is no message ends the session.
Verdict(m) ==
    LET method == MethodOf(m.name)
        found == Members(interface, "method", method) # {}
        spec == Member(interface, "method", method).data.type.fields[1].type
    IN  IF m = Invalid THEN "dropped"
        ELSE IF InterfaceOf(m.name) # InterfaceName THEN "InterfaceNotFound"
        ELSE IF ~found THEN "MethodNotFound"
        ELSE IF ~Valid(interface, m.parameters, spec, FALSE) THEN "InvalidParameter"
        ELSE IF method \notin Callbacks THEN "MethodNotImplemented"
        ELSE "called"

Receive(frame) == /\ message' = Parse(frame)
                  /\ verdict' = Verdict(message')

\* A client calls: its constructor of the message throws, or the server
\* receives the message.
Call(c) ==
    /\ interface # <<>> /\ verdict = "none"
    /\ call' = c
    /\ LET frame == Build(c.method, c.parameters, c.mode)
       IN  IF frame = Invalid THEN verdict' = "invalid_argument" /\ UNCHANGED message
                              ELSE Receive(frame)
    /\ UNCHANGED <<declared, interface>>

\* Any other peer sends what it likes.
PeerSends(frame) ==
    /\ interface # <<>> /\ verdict = "none"
    /\ Receive(frame)
    /\ UNCHANGED <<declared, interface, call>>

Next == \/ Construct
        \/ \E c \in Calls : Call(c)
        \/ \E frame \in Frames : PeerSends(frame)

Spec == Init /\ [][Next]_vars
-----------------------------------------------------------------------------
\* What the caller asked for is what the callback is called with: the method
\* that was named, in the same mode, with the same parameters, and with no
\* others for null; a call of something else is called nothing, and no message
\* that a client makes is one that the server hangs up on.
CallArrives ==
    call # NoCall =>
        /\ verdict # "dropped"
        /\ message # Invalid =>
              /\ message.name = call.method /\ message.mode = call.mode
              /\ message.parameters = IF call.parameters = Null THEN NoParameters
                                                                ELSE call.parameters
              /\ verdict = "called" => call.method = <<"org", "test", "M">>
=============================================================================
