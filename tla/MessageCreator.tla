--------------------------- MODULE MessageCreator ---------------------------
(***************************************************************************)
(* ASAP and ENRP messages and the packets that rserpoolmessagecreator.c    *)
(* makes of them.                                                          *)
(*                                                                         *)
(* A packet is a message header, fixed fields and parameters (TLVs): a TLV *)
(* has a type whose two upper bits say what a receiver that does not know  *)
(* it shall do, a value of "size" octets, and for some types TLVs inside.  *)
(* Each is padded to a multiple of four octets, its length is not.         *)
(***************************************************************************)
EXTENDS Integers, Sequences, SequencesExt, FiniteSetsExt

CONSTANTS BufferSize,       \* the buffer of a message, 65536 octets
          TableBufferSize,  \* the buffer of a handle table response, 1400 octets
          LengthModulus,    \* 2^16: lengths are 16 bits wide
          MaxElementsPerHTRequest

ASSUME MessageAssumption ==
  /\ {BufferSize, TableBufferSize, LengthModulus} \subseteq {4 * n : n \in 1 .. 16384}
  /\ MaxElementsPerHTRequest \in Nat \ {0}

HeaderSize == 4   \* of a message and of a TLV

getPadding(size) == (4 - (size % 4)) % 4

RECURSIVE TLVLength(_)
TLVLength(t) ==
  HeaderSize + t.size +
  FoldSeq(LAMBDA u, sum : sum + TLVLength(u) + getPadding(TLVLength(u)), 0, t.sub)

PaddedLength(tlvs) ==
  FoldSeq(LAMBDA u, sum : sum + TLVLength(u) + getPadding(TLVLength(u)), 0, tlvs)

TLV(type, size, value, sub) ==
  [type |-> type, action |-> "stop", size |-> size, value |-> value, sub |-> sub]

(* rserpoolMessageNew: no field is set.                                    *)
MessageNew(type) ==
  [type |-> type, flags |-> {}, handle |-> <<>>, id |-> 0, pe |-> <<>>,
   elements |-> <<>>, policy |-> <<>>, error |-> "OKAY", data |-> <<>>, registrar |-> 0, sender |-> 0,
   receiver |-> 0, action |-> 0, checksum |-> 0, peer |-> <<>>,
   peers |-> <<>>, table |-> <<>>, cookie |-> 0, addresses |-> 0]

(* The flags that the message of a type can carry.  A handle table         *)
(* response gets "more" from its construction, a deregistration response   *)
(* has no reject flag.                                                     *)
SentFlags(type) ==
  CASE type = "EndpointKeepAlive" -> {"home"}
    [] type \in {"RegistrationResponse", "ListResponse", "HandleTableResponse"} -> {"reject"}
    [] type = "Presence" -> {"reply"}
    [] type = "HandleTableRequest" -> {"own"}
    [] type = "HandleUpdate" -> {"takeover"}
    [] OTHER -> {}

createPoolHandleParameter(h) == TLV("PoolHandle", h.size, h, <<>>)

(* An IPv4 address mapped to IPv6 is sent as the IPv4 address.             *)
createAddressParameter(a) ==
  IF a.family = "IPv6"
  THEN TLV("IPv6Address", 16, [host |-> a.host, scope |-> a.scope], <<>>)
  ELSE TLV("IPv4Address", 4, [host |-> a.host, scope |-> a.scope], <<>>)

(* Only SCTP has several addresses, and UDP has no control channel.        *)
createTransportParameter(t) ==
  TLV(t.protocol, 4,
      [port |-> t.port,
       use |-> IF t.control /\ t.protocol # "UDP" THEN "data+control" ELSE "data"],
      [i \in DOMAIN t.addresses |-> createAddressParameter(t.addresses[i])])

(* What createPolicyParameter writes after the policy type.                *)
WrittenSettings ==
  [RoundRobin |-> <<>>, WeightedRoundRobin |-> <<"weight">>, Random |-> <<>>,
   WeightedRandom |-> <<"weight">>,
   WeightedRandomDPF |-> <<"weight", "weightDPF", "distance">>,
   Priority |-> <<"weight">>, LeastUsed |-> <<"load">>,
   LeastUsedDPF |-> <<"load", "loadDPF", "distance">>,
   LeastUsedDegradation |-> <<"load", "degradation">>,
   LeastUsedDegradationDPF |-> <<"load", "degradation", "loadDPF", "distance">>,
   PriorityLeastUsed |-> <<"load", "degradation">>,
   PriorityLeastUsedDegradation |-> <<"load", "degradation">>,
   RandomizedLeastUsed |-> <<"load">>,
   RandomizedLeastUsedDegradation |-> <<"load", "degradation">>,
   RandomizedPriorityLeastUsed |-> <<"load", "degradation">>,
   RandomizedPriorityLeastUsedDegradation |-> <<"load", "degradation">>]

createPolicyParameter(p) ==
  LET written == WrittenSettings[p.policy]
  IN  TLV("PoolPolicy", 4 + 4 * Len(written),
          [policy |-> p.policy, settings |-> [i \in DOMAIN written |-> p[written[i]]]],
          <<>>)

createPoolElementParameter(e, includeRegistratorTransport) ==
  TLV("PoolElement", 12, [id |-> e.id, home |-> e.home, life |-> e.life],
      <<createTransportParameter(e.user), createPolicyParameter(e.settings)>> \o
      IF includeRegistratorTransport
      THEN <<createTransportParameter(e.registrator[1])>> ELSE <<>>)

createPoolElementIdentifierParameter(id) == TLV("PoolElementIdentifier", 4, id, <<>>)

createHandlespaceChecksumParameter(c) == TLV("PoolElementChecksum", 2, c, <<>>)

(* A cause has a header of four octets, and the parameter that is wrong,   *)
(* octet by octet, if it is about one.                                     *)
CausesWithData == {"UNRECOGNIZED_PARAMETER", "INVALID_TLV", "INVALID_VALUE"}

createErrorParameter(m) ==
  LET data == IF m.error \in CausesWithData THEN m.data ELSE <<>>
  IN  TLV("OperationError", 4 + Len(data), [cause |-> m.error, data |-> data], <<>>)

createCookieParameter(size) == TLV("Cookie", size, size, <<>>)

createServerInformationParameter(p) ==
  TLV("ServerInformation", 4, p.id, <<createTransportParameter(p.transport)>>)

createHandleResolutionParameter(items) ==
  [TLV("HandleResolution", 4, items, <<>>) EXCEPT !.action = "continue"]

(* The fixed fields after the header, in their order.                      *)
WrittenFields(type) ==
  CASE type \in {"EndpointKeepAlive", "ServerAnnounce"} -> <<"registrar">>
    [] type \in {"Presence", "ListRequest", "ListResponse", "HandleTableRequest",
                 "HandleTableResponse", "ENRPError"} -> <<"sender", "receiver">>
    [] type \in {"InitTakeover", "InitTakeoverAck", "TakeoverServer"} ->
         <<"sender", "receiver", "registrar">>
    [] type = "HandleUpdate" -> <<"sender", "receiver", "action">>
    [] OTHER -> <<>>

(* Space taken by a packet: each fixed field has four octets.              *)
PacketLength(type, tlvs) ==
  HeaderSize + 4 * Len(WrittenFields(type)) + PaddedLength(tlvs)

Optionally(condition, tlv) == IF condition THEN <<tlv>> ELSE <<>>

(* As many peers as the buffer has room for.                               *)
ListResponseTLVs(m) ==
  LET info == [i \in DOMAIN m.peers |-> createServerInformationParameter(m.peers[i])]
      room == {n \in 0 .. Len(info) :
                 PacketLength("ListResponse", SubSeq(info, 1, n)) <= BufferSize}
  IN  SubSeq(info, 1, Max(room))

(* The pool elements of a handle table, each pool's first one after the    *)
(* pool handle.                                                            *)
TableTLVs(table) ==
  FlattenSeq([i \in DOMAIN table |->
    Optionally(IF i = 1 THEN TRUE ELSE table[i - 1].handle # table[i].handle,
               createPoolHandleParameter(table[i].handle))
    \o <<createPoolElementParameter(table[i].pe, TRUE)>>])

(* How many of the extracted pool elements fit.  What does not fit is      *)
(* taken back, together with a pool handle written for it.                 *)
TableRoom(table) ==
  Max({n \in 0 .. Len(table) :
         PacketLength("HandleTableResponse", TableTLVs(SubSeq(table, 1, n))) <= TableBufferSize})

MoreToSend(table) ==
  Len(table) = MaxElementsPerHTRequest \/ TableRoom(table) # Len(table)

(* Between pool elements and registrars: what names a pool element.        *)
EndpointTLVs(m) ==
  LET handle == createPoolHandleParameter(m.handle[1])
      id     == createPoolElementIdentifierParameter(m.id)
      error  == Optionally(m.error # "OKAY", createErrorParameter(m))
  IN  CASE m.type = "EndpointKeepAlive" -> <<handle>> \o Optionally(m.id # 0, id)
        [] m.type = "Registration" ->
             <<handle, createPoolElementParameter(m.pe[1], FALSE)>> \o error
        [] m.type \in {"RegistrationResponse", "DeregistrationResponse"} ->
             <<handle, id>> \o error
        [] OTHER -> <<handle, id>>

(* Between pool users and registrars, and between pool users and pool      *)
(* elements.                                                               *)
PoolUserTLVs(m) ==
  LET handle == createPoolHandleParameter(m.handle[1])
      offers == <<createPolicyParameter(m.policy[1])>> \o
                [i \in DOMAIN m.elements |-> createPoolElementParameter(m.elements[i], FALSE)]
  IN  CASE m.type = "HandleResolution" ->
             <<handle>> \o Optionally(m.addresses # 0,
                                      createHandleResolutionParameter(m.addresses))
        [] m.type = "HandleResolutionResponse" ->
             <<handle>> \o IF m.error = "OKAY" THEN offers ELSE <<createErrorParameter(m)>>
        [] m.type = "BusinessCard" -> <<handle>> \o offers
        [] OTHER -> <<createCookieParameter(m.cookie)>>

(* Between registrars; without parameters are requests and takeovers.      *)
RegistrarTLVs(m) ==
  CASE m.type = "Presence" ->
         <<createHandlespaceChecksumParameter(m.checksum),
           createServerInformationParameter(m.peer[1])>>
    [] m.type = "ListResponse" -> ListResponseTLVs(m)
    [] m.type = "HandleTableResponse" ->
         TableTLVs(SubSeq(m.table, 1, TableRoom(m.table)))
    [] m.type = "HandleUpdate" ->
         <<createPoolHandleParameter(m.handle[1]), createPoolElementParameter(m.pe[1], TRUE)>>
    [] m.type \in {"ENRPError", "ASAPError"} -> <<createErrorParameter(m)>>
    [] OTHER -> <<>>

MessageTLVs(m) ==
  CASE m.type \in {"EndpointKeepAlive", "EndpointKeepAliveAck", "EndpointUnreachable",
                   "Registration", "RegistrationResponse", "Deregistration",
                   "DeregistrationResponse"} -> EndpointTLVs(m)
    [] m.type \in {"HandleResolution", "HandleResolutionResponse", "BusinessCard",
                   "Cookie", "CookieEcho"} -> PoolUserTLVs(m)
    [] OTHER -> RegistrarTLVs(m)

ASAPTypes == {"HandleResolution", "HandleResolutionResponse", "EndpointKeepAlive",
  "EndpointKeepAliveAck", "ServerAnnounce", "Registration", "RegistrationResponse",
  "Deregistration", "DeregistrationResponse", "Cookie", "CookieEcho", "BusinessCard",
  "EndpointUnreachable", "ASAPError"}

(* rserpoolMessage2Packet.                                                 *)
Message2Packet(m) ==
  LET tlvs == MessageTLVs(m)
  IN  [ppid   |-> IF m.type \in ASAPTypes THEN "ASAP" ELSE "ENRP",
       type   |-> m.type,
       flags  |-> (m.flags \cap SentFlags(m.type)) \cup
                  IF /\ m.type = "HandleTableResponse"
                     /\ "reject" \notin m.flags /\ MoreToSend(m.table)
                  THEN {"more"} ELSE {},
       fields |-> [i \in DOMAIN WrittenFields(m.type) |-> m[WrittenFields(m.type)[i]]],
       tlvs   |-> tlvs,
       length |-> PacketLength(m.type, tlvs) % LengthModulus]
=============================================================================
