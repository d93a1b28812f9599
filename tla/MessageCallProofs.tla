-------------------------- MODULE MessageCallProofs --------------------------
(***************************************************************************)
(* Proofs about MessageCall for any calls, any frames of other peers, any  *)
(* interface and whatever validate says: a message is read as it was       *)
(* built, and a call arrives as it was made.                               *)
(***************************************************************************)
EXTENDS MessageCall, SequenceFacts

Modes == {"basic", "more", "oneway", "upgrade"}

\* Calls have a method of any words, any JSON value for parameters and a mode.
CallsTyped == \A c \in Calls :
    /\ c.method \in Seq(STRING) /\ c.mode \in Modes
    /\ c.parameters.is = "null" => c.parameters = Null
-----------------------------------------------------------------------------
(* The message.                                                            *)

\* The fields of a message for a call.
Carries(msg, method, parameters, mode) ==
    /\ msg.is = "object"
    /\ Has(msg, "method") /\ msg.fields["method"] = Text(method)
    /\ Has(msg, "parameters") <=> parameters \notin {Null, NoParameters}
    /\ parameters \notin {Null, NoParameters} => msg.fields["parameters"] = parameters
    /\ \A f \in {"more", "oneway", "upgrade"} : Has(msg, f) <=> f = mode
    /\ mode # "basic" => msg.fields[mode] = Bool(TRUE)

LEMMA FieldsBuilt ==
  ASSUME NEW method, NEW parameters, NEW mode \in Modes,
         parameters.is \in {"null", "object"}
  PROVE  Carries(Build(method, parameters, mode), method, parameters, mode)
BY DEF Build, MessageWith, Object, Has, Modes, Carries

\* A message that a client builds is one for the server, which reads in it
\* what was asked for: the flags of a mode exclude each other.
LEMMA MessageIsRead ==
  ASSUME NEW method, NEW parameters, NEW mode \in Modes,
         parameters.is \in {"null", "object"},
         parameters.is = "null" => parameters = Null
  PROVE  Parse(Build(method, parameters, mode)) =
           [is |-> "message", name |-> method,
            parameters |-> IF parameters = Null THEN NoParameters ELSE parameters,
            mode |-> mode]
<1> DEFINE msg == Build(method, parameters, mode)
<1>1. Carries(msg, method, parameters, mode)
  BY FieldsBuilt
<1> HIDE DEF msg
<1>2. /\ DOMAIN Flags = {1, 2, 3}
      /\ Flags[1] = "more" /\ Flags[2] = "oneway" /\ Flags[3] = "upgrade"
  BY DEF Flags
<1>3. ASSUME NEW k \in {1, 2, 3}
      PROVE  /\ IsSet(msg, k) <=> Flags[k] = mode
             /\ Asked(msg, k) <=> Flags[k] = mode
             /\ Asked(msg, k) => msg.fields[Flags[k]].is = "bool"
  <2>1. Has(msg, Flags[k]) <=> Flags[k] = mode
    BY <1>1, <1>2 DEF Carries
  <2>2. Flags[k] = mode => msg.fields[Flags[k]] = Bool(TRUE)
    BY <1>1, <1>2 DEF Carries
  <2>3. \A l \in 1 .. k - 1 : Flags[l] # Flags[k] /\ l \in {1, 2, 3}
    BY <1>2
  <2>4. \A l \in {1, 2, 3} : IsSet(msg, l) => Flags[l] = mode
    BY <1>1, <1>2 DEF Carries, IsSet
  <2> QED BY <2>1, <2>2, <2>3, <2>4 DEF IsSet, Asked, Bool
<1>4. IsMessage(msg)
  BY <1>1, <1>2, <1>3 DEF Carries, IsMessage, Text, Null
<1> DEFINE set == {k \in DOMAIN Flags : Asked(msg, k) /\ IsSet(msg, k)}
<1>5. IF set = {} THEN mode = "basic" ELSE \A k \in set : Flags[k] = mode
  BY <1>2, <1>3 DEF Modes
<1>6. (IF set = {} THEN "basic" ELSE Flags[CHOOSE k \in set : TRUE]) = mode
  <2> HIDE DEF set
  <2> QED BY <1>5
<1> QED BY <1>1, <1>4, <1>6 DEF Carries, Parse, Text, Null, NoParameters, Object, msg
-----------------------------------------------------------------------------
(* The call.                                                               *)

\* What a verdict says of the message, whatever validate says.
LEMMA VerdictSays ==
  ASSUME NEW m
  PROVE  /\ Verdict(m) # "none" /\ Verdict(m) # "interface_error"
         /\ Verdict(m) = "dropped" => m = Invalid
         /\ Verdict(m) = "called" => /\ InterfaceOf(m.name) = <<"org", "test">>
                                     /\ MethodOf(m.name) = "M"
BY DEF Verdict, InterfaceName, Callbacks

LEMMA NameOfCallback ==
  ASSUME NEW S, NEW name \in Seq(S), InterfaceOf(name) = <<"org", "test">>,
         MethodOf(name) = "M"
  PROVE  name = <<"org", "test", "M">>
<1>0. Len(name) \in Nat
  OBVIOUS
<1>1. Len(name) # 1
  <2> SUFFICES ASSUME Len(name) = 1 PROVE FALSE
    OBVIOUS
  <2>1. name = <<"org", "test">>
    BY DEF InterfaceOf
  <2> QED BY <2>1
<1>2. name # <<>>
  <2> SUFFICES ASSUME name = <<>> PROVE FALSE
    OBVIOUS
  <2>1. Len(name) = 0
    BY EmptySeq
  <2>2. InterfaceOf(name) = SubSeq(name, 1, -1)
    BY <2>1 DEF InterfaceOf, Front
  <2>3. SubSeq(name, 1, -1) = <<>>
    BY SubSeqEmpty
  <2> QED BY <2>2, <2>3
<1> DEFINE front == SubSeq(name, 1, Len(name) - 1)
<1>3. front = <<"org", "test">> /\ name[Len(name)] = "M"
  BY <1>1 DEF InterfaceOf, MethodOf, Front, Last
<1>4. Len(name) - 1 \in 1 .. Len(name)
  <2>1. Len(name) # 0
    BY <1>2, EmptySeq
  <2>2. \A n \in Nat \ {0, 1} : n - 1 \in 1 .. n
    OBVIOUS
  <2> QED BY <1>0, <1>1, <2>1, <2>2
<1>5. /\ Len(front) = Len(name) - 1
      /\ \A i \in 1 .. Len(name) - 1 : front[i] = name[i]
  BY <1>0, <1>4, SubSeqProperties
<1> HIDE DEF front
<1>6. Len(name) = 3
  BY <1>0, <1>3, <1>5
<1>7. /\ name[3] = "M" /\ name[1] = "org" /\ name[2] = "test"
  BY <1>3, <1>5, <1>6
<1> QED BY <1>6, <1>7

\* Nothing is called and nothing has arrived as long as there is no verdict.
Before == verdict = "none" => call = NoCall /\ message = Invalid

LEMMA CallIsJudged ==
  ASSUME CallsTyped, Before, CallArrives, [Next]_vars
  PROVE  Before' /\ CallArrives'
<1>1. CASE Construct
  BY <1>1 DEF Construct, Before, CallArrives
<1>2. ASSUME NEW c \in Calls, Call(c) PROVE Before' /\ CallArrives'
  <2> DEFINE frame == Build(c.method, c.parameters, c.mode)
  <2>1. /\ call' = c /\ message = Invalid
        /\ c.method \in Seq(STRING) /\ c.mode \in Modes
        /\ c.parameters.is = "null" => c.parameters = Null
    BY <1>2 DEF Call, Before, CallsTyped
  <2>2. CASE frame = Invalid
    BY <1>2, <2>1, <2>2 DEF Call, Before, CallArrives
  <2>3. CASE frame # Invalid
    <3>1. message' = Parse(frame) /\ verdict' = Verdict(message')
      BY <1>2, <2>3 DEF Call, Receive
    <3>2. c.parameters.is \in {"null", "object"}
      BY <2>3 DEF Build
    <3>3. message' = [is |-> "message", name |-> c.method,
                      parameters |-> IF c.parameters = Null THEN NoParameters
                                                            ELSE c.parameters,
                      mode |-> c.mode]
      BY <2>1, <3>1, <3>2, MessageIsRead
    <3>4. verdict' # "none" /\ verdict' # "dropped"
      BY <3>1, <3>3, VerdictSays DEF Invalid
    <3>5. verdict' = "called" => c.method = <<"org", "test", "M">>
      <4> SUFFICES ASSUME verdict' = "called" PROVE c.method = <<"org", "test", "M">>
        OBVIOUS
      <4>1. message'.name = c.method
        BY <3>3
      <4>2. /\ InterfaceOf(message'.name) = <<"org", "test">>
            /\ MethodOf(message'.name) = "M"
        BY <3>1, VerdictSays
      <4> QED BY <2>1, <4>1, <4>2, NameOfCallback
    <3> QED BY <2>1, <3>3, <3>4, <3>5 DEF Before, CallArrives
  <2> QED BY <2>2, <2>3
<1>3. ASSUME NEW frame \in Frames, PeerSends(frame) PROVE Before' /\ CallArrives'
  <2>1. call' = NoCall /\ verdict' = Verdict(message')
    BY <1>3 DEF PeerSends, Receive, Before
  <2> QED BY <2>1, VerdictSays DEF Before, CallArrives
<1>4. CASE UNCHANGED vars
  BY <1>4 DEF vars, Before, CallArrives
<1> QED BY <1>1, <1>2, <1>3, <1>4 DEF Next

\* Whatever a client calls, in whatever mode and with whatever parameters, and
\* whatever the interface and validate are: the server reads in the message
\* what was asked for, never hangs up on it, and the callback is only called
\* for its own method.
THEOREM CallsArrive ==
  ASSUME CallsTyped
  PROVE  Spec => []CallArrives
<1>1. Init => Before /\ CallArrives
  BY DEF Init, Before, CallArrives
<1>2. Before /\ CallArrives /\ [Next]_vars => Before' /\ CallArrives'
  BY CallIsJudged
<1> QED BY <1>1, <1>2, PTL DEF Spec
=============================================================================
