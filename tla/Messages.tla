------------------------------ MODULE Messages ------------------------------
(***************************************************************************)
(* A message on its way: the sender creates a packet of it, a sender of a  *)
(* newer version may add a parameter that the receiver does not know, and  *)
(* the receiver scans the packet.  A handle table takes several responses, *)
(* one per request.                                                        *)
(***************************************************************************)
EXTENDS MessageParser

VARIABLES original,   \* what the sender wants to say
          written,    \* table entries sent so far (LastPoolHandle, LastPoolElementIdentifier)
          wire,       \* the packet on its way, <<>> or <<packet>>
          extended,   \* where the packet has an unknown parameter: "no", "within" or "end"
          got         \* what the receiver has scanned, <<>> or <<message>>

messageVars == <<original, written, wire, extended, got>>

Source == [port |-> 3863, address |-> [family |-> "IPv4", host |-> 9, scope |-> "global"]]

Address(family, host, scope) == [family |-> family, host |-> host, scope |-> scope]

Transport(protocol, control, addresses) ==
  [protocol |-> protocol, port |-> 7, control |-> control, addresses |-> addresses]

(* Single and multi-homed endpoints, with addresses a receiver cannot use. *)
Transports ==
  {Transport("SCTP", c, <<Address("IPv4", 1, "global")>>) : c \in BOOLEAN} \cup
  {Transport("TCP", TRUE, <<Address("IPv6", 1, "global")>>),
   Transport("UDP", TRUE, <<Address("mapped", 1, "site-local")>>),
   Transport("SCTP", FALSE, <<Address("IPv6", 3, "link-local"),
                              Address("mapped", 2, "global"), Address("IPv6", 1, "global")>>),
   Transport("SCTP", TRUE, <<Address("IPv4", 1, "global"), Address("IPv4", 4, "loopback")>>)}

Usual == Transport("SCTP", TRUE, <<Address("IPv4", 1, "global")>>)

PolicySettings(policy) ==
  [policy |-> policy, weight |-> 1, weightDPF |-> 2, load |-> 3, loadDPF |-> 4,
   degradation |-> 5, distance |-> 6]

PoolElement(id, user, policy) ==
  [id |-> id, home |-> 8, life |-> 30, user |-> user, settings |-> PolicySettings(policy),
   registrator |-> <<Usual>>]

PoolElements ==
  {PoolElement(1, Usual, p) : p \in DOMAIN WrittenSettings} \cup
  {PoolElement(1, t, "RoundRobin") : t \in Transports}

Registrar(id, transport) == [id |-> id, transport |-> transport]

(* A registrar with one IPv4 address takes 24 octets of a peer list, after *)
(* the header and two identifiers.                                         *)
PeersFitting == (BufferSize - 12) \div 24

Handles == {[name |-> "a", size |-> 3], [name |-> "b", size |-> 4]}

(* Tables of two pools, their elements of different sizes.                 *)
Tables ==
  {t \in SeqOf([handle : Handles,
                pe : {PoolElement(1, Usual, "RoundRobin"),
                      PoolElement(2, Usual, "RoundRobin"),
                      PoolElement(3, Transport("SCTP", FALSE, <<Address("IPv6", 1, "global")>>),
                                  "RoundRobin")}], 4) :
     \A i \in DOMAIN t : \A j \in 1 .. i - 1 :
       /\ t[j].handle.size <= t[i].handle.size
       /\ t[j].handle = t[i].handle => t[j].pe.id < t[i].pe.id}

(* Causes with and without data, and a parameter of six octets.            *)
Causes == {"UNRECOGNIZED_MESSAGE", "UNRECOGNIZED_PARAMETER", "INVALID_VALUE"}

WrongParameter == <<1, 2, 3, 4, 5, 6>>

ASAPMessages ==
  LET with(type, h) == [MessageNew(type) EXCEPT !.handle = <<h>>]
      offer(type, e, n) == [with(type, [name |-> "a", size |-> 3]) EXCEPT
                              !.policy = <<[e.settings EXCEPT !.weight = 7]>>,
                              !.elements = SubSeq(<<e, PoolElement(2, Usual, e.settings.policy)>>,
                                                  1, n)]
  IN  UNION {{[with("EndpointKeepAlive", h) EXCEPT !.id = i, !.registrar = 5, !.flags = {"home"}]
                : i \in {0, 1}} \cup
             {[with(type, h) EXCEPT !.id = 1] :
                type \in {"EndpointKeepAliveAck", "EndpointUnreachable", "Deregistration",
                          "RegistrationResponse", "DeregistrationResponse"}} \cup
             {[with(type, h) EXCEPT !.id = 1, !.error = "REJECTED", !.flags = {"reject"}] :
                type \in {"RegistrationResponse", "DeregistrationResponse"}} \cup
             {[with("HandleResolution", h) EXCEPT !.addresses = n] : n \in {0, 3}} \cup
             {[with("HandleResolutionResponse", h) EXCEPT !.error = "UNKNOWN_POOL_HANDLE"]}
             : h \in Handles} \cup
      {[with("Registration", [name |-> "a", size |-> 3]) EXCEPT !.pe = <<e>>]
         : e \in PoolElements} \cup
      {offer("HandleResolutionResponse", e, n) : e \in PoolElements, n \in {1, 2}} \cup
      {offer("BusinessCard", e, 1) : e \in PoolElements} \cup
      {[MessageNew("ServerAnnounce") EXCEPT !.registrar = 5]} \cup
      {[MessageNew("ASAPError") EXCEPT !.error = c, !.data = WrongParameter] : c \in Causes} \cup
      {[MessageNew(type) EXCEPT !.cookie = n] : type \in {"Cookie", "CookieEcho"}, n \in {4, 5}}

ENRPMessages ==
  LET from(type) == [MessageNew(type) EXCEPT !.sender = 5, !.receiver = 6]
  IN  {from(type) : type \in {"ListRequest", "HandleTableRequest"}} \cup
      {[from("HandleTableRequest") EXCEPT !.flags = {"own"}],
       [from("ListResponse") EXCEPT !.flags = {"reject"}],
       [from("HandleTableResponse") EXCEPT !.flags = {"reject"}]} \cup
      {[from("ENRPError") EXCEPT !.error = c, !.data = WrongParameter] : c \in Causes} \cup
      {[from(type) EXCEPT !.registrar = 7] :
         type \in {"InitTakeover", "InitTakeoverAck", "TakeoverServer"}} \cup
      {[from("Presence") EXCEPT !.checksum = 77, !.flags = {"reply"}, !.peer = <<Registrar(5, t)>>]
         : t \in Transports} \cup
      {[from("ListResponse") EXCEPT !.peers = [i \in 1 .. n |-> Registrar(i, Usual)]]
         : n \in {0, 1, PeersFitting, 1 + PeersFitting}} \cup
      {[from("HandleUpdate") EXCEPT !.action = a, !.flags = {"takeover"},
                                    !.handle = <<[name |-> "a", size |-> 3]>>, !.pe = <<e>>]
         : a \in {1, 2}, e \in PoolElements} \cup
      {[from("HandleTableResponse") EXCEPT !.table = t] : t \in Tables}

MessageInit ==
  /\ original \in ASAPMessages \cup ENRPMessages
  /\ written = 0 /\ wire = <<>> /\ extended = "no" /\ got = <<>>

(* A registrar asks for the rest of a table if it could read this part.    *)
Finished ==
  wire = <<>> /\ got # <<>> /\ (got[1].error # "OKAY" \/ "more" \notin got[1].flags)

(* rserpoolMessageSend.  The extraction of a handle table goes on after    *)
(* the last pool element written.                                          *)
CreateMessage ==
  LET table == SubSeq(original.table, written + 1,
                      Min({written + MaxElementsPerHTRequest, Len(original.table)}))
  IN  /\ wire = <<>> /\ ~Finished
      /\ wire' = <<Message2Packet([original EXCEPT !.table = table])>>
      /\ written' = written + TableRoom(table)
      /\ UNCHANGED <<original, extended, got>>

(* A parameter that a newer version of the protocol has put in front of    *)
(* another one or at the end, to be skipped by those who do not know it.   *)
NewerVersionAdds ==
  /\ wire # <<>> /\ extended = "no"
  /\ wire[1].length + 8 < LengthModulus
  /\ \E i \in 1 .. 1 + Len(wire[1].tlvs), action \in {"continue", "continue and report"} :
       /\ wire' = <<[wire[1] EXCEPT
                       !.tlvs = InsertAt(@, i, [TLV("Unknown", 4, 0, <<>>) EXCEPT
                                                  !.action = action]),
                       !.length = @ + 8]>>
       /\ extended' = IF i \in DOMAIN wire[1].tlvs THEN "within" ELSE "end"
  /\ UNCHANGED <<original, written, got>>

(* The receiver of a handle table registers what each response has.        *)
Joined(m) == IF got = <<>> THEN m ELSE [m EXCEPT !.table = got[1].table \o @]

ScanPacket ==
  /\ wire # <<>>
  /\ got' = <<Joined(Packet2Message(wire[1], Source))>>
  /\ wire' = <<>>
  /\ UNCHANGED <<original, written, extended>>

MessageNext == CreateMessage \/ NewerVersionAdds \/ ScanPacket

MessageSpec == MessageInit /\ [][MessageNext]_messageVars
-----------------------------------------------------------------------------
(* What a receiver can use of a transport: addresses in its own notation,  *)
(* without those of the sender's links.                                    *)
ArrivingTransport(t) ==
  LET usable == SelectSeq(t.addresses, LAMBDA a : a.scope \in {"site-local", "global"})
  IN  [t EXCEPT !.control = @ /\ t.protocol # "UDP",
                !.addresses = [i \in DOMAIN usable |->
                   IF usable[i].family = "mapped" THEN [usable[i] EXCEPT !.family = "IPv4"]
                   ELSE usable[i]]]

(* The settings that a policy's selection reads (poolpolicy-template_impl.h).*)
Needed(policy) ==
  (IF policy \in {"WeightedRoundRobin", "WeightedRandom", "WeightedRandomDPF", "Priority"}
   THEN {"weight"} ELSE IF policy \in {"RoundRobin", "Random"} THEN {} ELSE {"load"}) \cup
  (IF policy \in {"WeightedRandomDPF"} THEN {"weightDPF", "distance"}
   ELSE IF policy \in {"LeastUsedDPF", "LeastUsedDegradationDPF"}
   THEN {"loadDPF", "distance"} ELSE {}) \cup
  (IF policy \in {"LeastUsedDegradation", "LeastUsedDegradationDPF", "PriorityLeastUsed",
                  "PriorityLeastUsedDegradation", "RandomizedLeastUsedDegradation",
                  "RandomizedPriorityLeastUsed", "RandomizedPriorityLeastUsedDegradation"}
   THEN {"degradation"} ELSE {})

Essential(p) == [f \in DOMAIN p |-> IF f \in Needed(p.policy) \cup {"policy"} THEN p[f] ELSE 0]

ArrivingElement(e, withRegistrator) ==
  [e EXCEPT !.user = ArrivingTransport(@), !.settings = Essential(@),
            !.registrator = IF withRegistrator THEN <<ArrivingTransport(e.registrator[1])>>
                            ELSE <<>>]

(* The settings that no selection reads are not compared.                  *)
Read(m) ==
  LET essential(seq) == [i \in DOMAIN seq |-> [seq[i] EXCEPT !.settings = Essential(@)]]
  IN  [m EXCEPT !.pe = essential(@), !.elements = essential(@),
                !.policy = [i \in DOMAIN @ |-> Essential(@[i])],
                !.error = IF m.type \in {"Cookie", "CookieEcho"} THEN "OKAY" ELSE @]

Arriving(m) ==
  [m EXCEPT
     !.flags = @ \cap SentFlags(m.type),
     !.data = IF m.error \in CausesWithData
              THEN SubSeq(CauseHeader \o @, 1, Len(@)) ELSE <<>>,
     !.pe = [i \in DOMAIN @ |-> ArrivingElement(@[i], m.type = "HandleUpdate")],
     !.elements = [i \in DOMAIN @ |-> ArrivingElement(@[i], FALSE)],
     !.policy = [i \in DOMAIN @ |-> Essential(@[i])],
     !.peer = IF m.type = "ServerAnnounce"
              THEN <<Registrar(m.registrar, [protocol |-> "SCTP", port |-> Source.port,
                             control |-> FALSE, addresses |-> <<Source.address>>])>>
              ELSE [i \in DOMAIN @ |-> Registrar(@[i].id, ArrivingTransport(@[i].transport))],
     !.peers = SubSeq(@, 1, Min({Len(@), PeersFitting}))]

(* What the receiver of all responses of a handle table has.               *)
TableArrives ==
  /\ got[1].error = "OKAY"
  /\ got[1].table = [i \in DOMAIN original.table |->
       [handle |-> original.table[i].handle,
        pe |-> [original.table[i].pe EXCEPT
                  !.settings = [NoSettings EXCEPT !.policy = "RoundRobin"]]]]

(* The messages whose scan looks for a parameter where they end, and so    *)
(* gets past one that it does not know.                                    *)
LooksFurther(m) ==
  \/ m.type = "ServerAnnounce"
  \/ m.type = "ListResponse" /\ "reject" \notin m.flags
  \/ m.type = "EndpointKeepAlive" /\ m.id = 0
  \/ m.type = "HandleResolution" /\ m.addresses = 0
  \/ m.type = "HandleResolutionResponse" /\ m.error = "OKAY" /\ Len(m.elements) < MaxOffers

(* What a receiver of this version cannot read: a business card, whose     *)
(* pool handle is written once and scanned twice; a parameter unknown to   *)
(* it at the end of a message, which checkFinishMessage takes for a wrong  *)
(* length; one anywhere in a handle table response, whose scan goes by the *)
(* next type.                                                              *)
Unreadable ==
  \/ original.type = "BusinessCard"
  \/ extended # "no" /\ original.type = "HandleTableResponse"
  \/ extended = "end" /\ original.type \notin {"Cookie", "CookieEcho"} /\ ~LooksFurther(original)

(* rserpoolMessage2Packet and rserpoolPacket2Message agree: what a         *)
(* receiver scans is what the sender meant, whatever policy, transport or  *)
(* optional parameter the message has, and whether or not a parameter to   *)
(* be skipped was added; what is Unreadable has an error and is never      *)
(* taken for a message without one.  A peer list that does not fit arrives *)
(* as far as it does.  A cookie whose size is no multiple of four, or with *)
(* a parameter behind it, arrives together with an error.  The data of an  *)
(* error's cause arrives with its length, but shifted by the header of the *)
(* cause.  Over successive handle table responses                          *)
(* (createHandleTableResponseMessage, scanHandleTableResponseMessage)      *)
(* every pool element arrives, in its pool, exactly once and in order,     *)
(* whether a response was cut by the number of elements, in front of a     *)
(* pool handle or between two elements.                                    *)
MessagesArrive ==
  Finished =>
    IF Unreadable THEN got[1].error \notin {"OKAY", original.error}
    ELSE IF original.type = "HandleTableResponse" THEN TableArrives
    ELSE Read(got[1]) = Arriving(original)
=============================================================================
