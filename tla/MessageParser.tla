---------------------------- MODULE MessageParser ----------------------------
(***************************************************************************)
(* rserpoolmessageparser.c: the message that rserpoolPacket2Message makes  *)
(* of a packet.                                                            *)
(*                                                                         *)
(* A scan state has the message read so far and the TLVs that follow the   *)
(* read position; "skew" says that the position is between two TLVs, in    *)
(* padding that was not skipped: the octets read there are not a header.   *)
(* A scan function returns false by "ok" and may leave an error code.      *)
(***************************************************************************)
EXTENDS MessageCreator

CONSTANTS MaxAddresses,      \* MAX_PE_TRANSPORTADDRESSES
          MaxOffers          \* MAX_MAX_HANDLE_RESOLUTION_ITEMS

ASSUME ParserAssumption ==
  MaxAddresses \in Nat \ {0, 1} /\ MaxOffers \in Nat \ {0}

Failed(s, error) == [s EXCEPT !.ok = FALSE, !.error = error]

(* Mutation of checkBeginTLV: no TLV is skipped.                           *)
checkBeginFirstTLV(s, types) ==
  IF s.rest = <<>> THEN Failed(s, "INVALID_MESSAGE")
  ELSE IF Head(s.rest).type \in types THEN s
  ELSE Failed(s, "UNRECOGNIZED_PARAMETER")

(* The position behind the next TLV, whose padding is not skipped.         *)
Behind(s) ==
  [s EXCEPT !.rest = Tail(s.rest), !.skew = getPadding(TLVLength(Head(s.rest))) # 0]

(* checkBeginTLV: the next TLV with one of the types, after any number of  *)
(* unknown ones that may be skipped.  Skipping one does not skip its       *)
(* padding.  At an unknown TLV that may not be skipped the position is     *)
(* left in front of it.  Where the packet ends after a TLV was skipped, the *)
(* function returns the length of that one, and its callers fail there.     *)
RECURSIVE checkBeginTLV(_, _)
checkBeginTLV(s, types) ==
  IF s.rest = <<>> THEN Failed(s, "INVALID_MESSAGE")
  ELSE IF s.skew THEN Failed(s, "INVALID_TLV")
  ELSE IF Head(s.rest).type \in types THEN s
  ELSE IF Head(s.rest).action \in {"continue", "continue and report"}
  THEN checkBeginTLV(Behind(s), types)
  ELSE Failed(s, "UNRECOGNIZED_PARAMETER")

(* The position behind the header and the value of the next TLV.           *)
Inside(s) == [s EXCEPT !.rest = Head(s.rest).sub \o Tail(s.rest)]

(* checkFinishTLV: the position goes to the end of the TLV that began at   *)
(* position "begin", if it is not beyond it.                               *)
checkFinishTLV(s, begin) ==
  IF Len(s.rest) < Len(begin.rest) - 1 THEN Failed(s, "INVALID_TLV")
  ELSE [s EXCEPT !.rest = Tail(begin.rest), !.skew = FALSE]

(* A TLV without TLVs inside, whose value goes into a field of the message.*)
ValueScanned(begin, field, value) ==
  IF ~begin.ok THEN begin ELSE checkFinishTLV([Inside(begin) EXCEPT !.m[field] = value], begin)

ScanValue(s, type, field) ==
  LET b == checkBeginTLV(s, {type})
  IN  IF s.ok THEN ValueScanned(b, field, Head(b.rest).value) ELSE s

scanPoolHandleParameter(s) ==
  LET b == checkBeginTLV(s, {"PoolHandle"})
  IN  IF s.ok THEN ValueScanned(b, "handle", <<Head(b.rest).value>>) ELSE s

scanPoolElementIdentifierParameter(s) == ScanValue(s, "PoolElementIdentifier", "id")
scanHandlespaceChecksumParameter(s)   == ScanValue(s, "PoolElementChecksum", "checksum")
scanHandleResolutionParameter(s)      == ScanValue(s, "HandleResolution", "addresses")

(* The data of a cause is read from where the header of the cause is, with *)
(* the length that is left without it.                                     *)
CauseHeader == <<"cause", "cause", "length", "length">>

DataRead(value) == SubSeq(CauseHeader \o value.data, 1, Len(value.data))

CauseScanned(begin, value) ==
  IF ~begin.ok THEN begin
  ELSE checkFinishTLV([Inside(begin) EXCEPT !.m.error = value.cause, !.m.data = DataRead(value)],
                      begin)

scanErrorParameter(s) ==
  LET b == checkBeginTLV(s, {"OperationError"})
  IN  IF s.ok THEN CauseScanned(b, Head(b.rest).value) ELSE s

(* The cookie's padding is not skipped: checkFinishTLV is not called.      *)
scanCookieParameter(s) ==
  LET b == checkBeginTLV(s, {"Cookie"})
  IN  IF ~b.ok THEN b
      ELSE [Behind(b) EXCEPT !.m.cookie = Head(b.rest).value]

scanAddressParameter(t) ==
  [family |-> IF t.type = "IPv6Address" THEN "IPv6" ELSE "IPv4",
   host |-> t.value.host, scope |-> t.value.scope]

(* The order of address scopes (AS_LOOPBACK ... AS_UNICAST_GLOBAL).         *)
Scope == [scope \in {"loopback", "link-local", "site-local", "global"} |->
            CASE scope = "loopback" -> 2 [] scope = "link-local" -> 4
              [] scope = "site-local" -> 6 [] OTHER -> 10]

Usable(addresses) ==
  SelectSeq(addresses, LAMBDA a : Scope[a.value.scope] > Scope["link-local"])

(* No address too many is met, and there is one.                           *)
AddressesFit(t) ==
  /\ \A i \in DOMAIN t.sub :
       Len(Usable(SubSeq(t.sub, 1, i - 1))) < IF t.type = "SCTP" THEN MaxAddresses ELSE 2
  /\ Usable(t.sub) # <<>>

TransportAddressBlock(t) ==
  [protocol |-> t.type, port |-> t.value.port,
   control |-> t.type # "UDP" /\ t.value.use = "data+control",
   addresses |-> [i \in DOMAIN Usable(t.sub) |-> scanAddressParameter(Usable(t.sub)[i])]]

(* An unknown TLV that may be skipped has no address.  The length of its   *)
(* header is taken off twice, so that its last four octets are read as the *)
(* header of an address parameter; here they are not one.                  *)
NotATransport(s) ==
  IF Head(s.rest).action \in {"continue", "continue and report"}
  THEN Failed([s EXCEPT !.rest = Tail(s.rest), !.skew = Head(s.rest).size # 4], "INVALID_VALUE")
  ELSE Failed(s, "UNRECOGNIZED_PARAMETER")

(* What was scanned of transports and policies is appended to "out"; a     *)
(* pool element or a registrar made of them takes their place there.       *)
scanTransportParameter(s) ==
  IF ~s.ok THEN s
  ELSE IF s.rest = <<>> \/ s.skew THEN Failed(s, "INVALID_TLV")
  ELSE IF Head(s.rest).type \notin {"SCTP", "TCP", "UDP"} THEN NotATransport(s)
  ELSE IF ~AddressesFit(Head(s.rest)) THEN Failed(s, "INVALID_VALUE")
  ELSE checkFinishTLV([Inside(s) EXCEPT !.out = Append(@, TransportAddressBlock(Head(s.rest)))], s)

(* What scanPolicyParameter reads after the policy type.                   *)
LeastUsedSettings ==
  [LeastUsed |-> <<"load">>, LeastUsedDPF |-> <<"load", "loadDPF", "distance">>,
   LeastUsedDegradation |-> <<"load", "degradation">>,
   LeastUsedDegradationDPF |-> <<"load", "degradation", "loadDPF", "distance">>,
   PriorityLeastUsed |-> <<"load", "degradation">>,
   PriorityLeastUsedDegradation |-> <<"load", "degradation">>]

OtherSettings ==
  [Random |-> <<>>, WeightedRandom |-> <<"weight">>,
   WeightedRandomDPF |-> <<"weight", "weightDPF", "distance">>,
   RoundRobin |-> <<>>, WeightedRoundRobin |-> <<"weight">>, Priority |-> <<"weight">>]

RandomizedSettings ==
  [RandomizedLeastUsed |-> <<"load">>,
   RandomizedLeastUsedDegradation |-> <<"load", "degradation">>,
   RandomizedPriorityLeastUsed |-> <<"load", "degradation">>,
   RandomizedPriorityLeastUsedDegradation |-> <<"load", "degradation">>]

ReadSettings == LeastUsedSettings @@ OtherSettings @@ RandomizedSettings

(* poolPolicySettingsNew.                                                  *)
NoSettings == [policy |-> "Undefined", weight |-> 0, weightDPF |-> 0, load |-> 0,
               loadDPF |-> 0, degradation |-> 0, distance |-> 0]

SettingsRead(value, read) ==
  [f \in DOMAIN NoSettings |->
     IF f = "policy" THEN value.policy
     ELSE IF f \in Range(read)
     THEN value.settings[CHOOSE i \in DOMAIN read : read[i] = f] ELSE 0]

PolicyScanned(begin, value) ==
  IF value.policy \notin DOMAIN ReadSettings THEN Failed(begin, "UNSUPPORTED_POOL_POLICY")
  ELSE checkFinishTLV([Inside(begin) EXCEPT
         !.out = Append(@, SettingsRead(value, ReadSettings[value.policy]))], begin)

scanPolicyParameter(s) ==
  LET b == checkBeginTLV(s, {"PoolPolicy"})
  IN  IF ~s.ok THEN s ELSE IF ~b.ok THEN Failed(b, "INVALID_TLV")
      ELSE PolicyScanned(b, Head(b.rest).value)

RECURSIVE ScanParts(_, _)
ScanParts(s, parts) ==
  IF ~s.ok \/ parts = <<>> THEN s
  ELSE ScanParts(IF Head(parts) = "policy" THEN scanPolicyParameter(s)
                 ELSE scanTransportParameter(s), Tail(parts))

(* A registrar transport that cannot be used is missing in the result, and *)
(* what was scanned of it is skipped at the end of the pool element.       *)
PoolElementScanned(all, begin) ==
  IF Len(all.out) < 2 THEN all
  ELSE checkFinishTLV(
         [all EXCEPT !.ok  = TRUE,
                     !.out = <<[id |-> Head(begin.rest).value.id,
                                home |-> Head(begin.rest).value.home,
                                life |-> Head(begin.rest).value.life,
                                user |-> all.out[1], settings |-> all.out[2],
                                registrator |-> SubSeq(all.out, 3, Len(all.out))]>>],
         begin)

scanPoolElementParameter(s, registratorTransportRequired, mustHaveHomeRegistrar) ==
  LET b == checkBeginTLV(s, {"PoolElement"})
  IN  IF ~s.ok THEN s ELSE IF ~b.ok THEN Failed(b, "INVALID_TLV")
      ELSE IF mustHaveHomeRegistrar /\ Head(b.rest).value.home = 0
      THEN Failed(b, "INVALID_VALUE")
      ELSE PoolElementScanned(
             ScanParts([Inside(b) EXCEPT !.out = <<>>],
                       <<"user", "policy">> \o
                       IF registratorTransportRequired THEN <<"registrator">> ELSE <<>>),
             b)

RegistrarScanned(transport, begin) ==
  IF ~transport.ok THEN Failed(transport, "INVALID_VALUE")
  ELSE checkFinishTLV([transport EXCEPT
         !.out = <<[id |-> Head(begin.rest).value, transport |-> Last(transport.out)]>>], begin)

scanServerInformationParameter(s) ==
  LET b == checkBeginTLV(s, {"ServerInformation"})
  IN  IF ~s.ok THEN s ELSE IF ~b.ok THEN b
      ELSE RegistrarScanned(scanTransportParameter(Inside(b)), b)

(* A parameter that may be missing: its failure does not stop the scan.     *)
Tolerated(before, after) == IF before.ok THEN [after EXCEPT !.ok = TRUE] ELSE after

(* What was scanned goes into a field of the message.                      *)
Kept(s, field) == IF s.ok THEN [s EXCEPT !.m[field] = s.out] ELSE s

(* An optional parameter after those scanned in "before".                  *)
OrNothing(before, after, field) ==
  IF after.ok THEN after ELSE [Tolerated(before, after) EXCEPT !.m[field] = 0]

OptionalIdentifier(s) == OrNothing(s, scanPoolElementIdentifierParameter(s), "id")
OptionalItems(s)      == OrNothing(s, scanHandleResolutionParameter(s), "addresses")
OptionalError(s)      == IF s.ok /\ s.rest # <<>> THEN scanErrorParameter(s) ELSE s

scanEndpointKeepAliveMessage(s) == OptionalIdentifier(scanPoolHandleParameter(s))
scanHandleResolutionMessage(s)  == OptionalItems(scanPoolHandleParameter(s))

HandleAndIdentifier(s) == scanPoolElementIdentifierParameter(scanPoolHandleParameter(s))

(* Responses to a registration and to a deregistration.                    *)
ScanResponse(s) == OptionalError(HandleAndIdentifier(s))

scanRegistrationMessage(s) ==
  Kept(scanPoolElementParameter(scanPoolHandleParameter(s), FALSE, FALSE), "pe")

(* A pool element that cannot be scanned ends the list of a handle         *)
(* resolution response; more than fit into the array are a failure.        *)
RECURSIVE ScanElements(_), ElementScanned(_)
ScanElements(s) ==
  IF ~s.ok \/ s.rest = <<>> THEN s
  ELSE IF Len(s.m.elements) >= MaxOffers THEN [s EXCEPT !.ok = FALSE]
  ELSE ElementScanned(scanPoolElementParameter(s, FALSE, FALSE))

ElementScanned(e) ==
  IF e.ok THEN ScanElements([e EXCEPT !.m.elements = @ \o e.out]) ELSE [e EXCEPT !.ok = TRUE]

ScanPolicySettings(s) == Kept(scanPolicyParameter(s), "policy")

(* An error is tried first.                                                *)
ErrorOrElements(handle, error) ==
  IF ~handle.ok \/ error.ok THEN error
  ELSE ScanElements(ScanPolicySettings([error EXCEPT !.ok = TRUE]))

ResolutionOf(handle) == ErrorOrElements(handle, scanErrorParameter(handle))

scanHandleResolutionResponseMessage(s) == ResolutionOf(scanPoolHandleParameter(s))

SomeElements(e) ==
  IF e.ok /\ e.m.elements = <<>> THEN Failed(e, "INVALID_VALUE") ELSE e

(* The pool elements of a business card.  One that cannot be scanned is    *)
(* counted as well, and the scan goes on where it is.                      *)
RECURSIVE ScanCard(_), CardScanned(_)
ScanCard(s) ==
  IF ~s.ok \/ s.rest = <<>> THEN s
  ELSE IF Len(s.m.elements) >= MaxOffers THEN [s EXCEPT !.ok = FALSE]
  ELSE CardScanned(scanPoolElementParameter(s, FALSE, FALSE))

CardScanned(e) ==
  ScanCard([e EXCEPT !.ok = TRUE,
                     !.m.elements = Append(@, IF e.ok THEN e.out[1] ELSE "NULL")])

(* The pool handle is scanned twice.                                       *)
scanBusinessCardMessage(s) ==
  SomeElements(ScanCard(ScanPolicySettings(
    scanPoolHandleParameter(scanPoolHandleParameter(s)))))

RECURSIVE ScanTransports(_), TransportScanned(_)
ScanTransports(s) == TransportScanned(scanTransportParameter(s))

TransportScanned(t) ==
  IF t.ok /\ Last(t.out).protocol # "SCTP" THEN ScanTransports(t) ELSE t

(* The registrar's address is in a transport parameter or in a server      *)
(* information parameter; without them it is the one the packet came from. *)
AnnouncedRegistrar(info, default) ==
  [info EXCEPT !.ok = TRUE, !.m.peer = IF info.ok THEN info.out ELSE <<default>>]

AnnouncedTransport(t, source) ==
  IF t.ok THEN Last(t.out)
  ELSE [protocol |-> "SCTP", port |-> source.port, control |-> FALSE,
        addresses |-> <<source.address>>]

ScanAnnounced(t, source) ==
  AnnouncedRegistrar(scanServerInformationParameter([t EXCEPT !.ok = TRUE]),
    [id |-> t.m.registrar, transport |-> AnnouncedTransport(t, source)])

scanServerAnnounceMessage(s, source) == ScanAnnounced(ScanTransports(s), source)

scanPresenceMessage(s) ==
  Kept(scanServerInformationParameter(scanHandlespaceChecksumParameter(s)), "peer")

(* Peers that the peer list takes: no two of them are the same.            *)
RECURSIVE scanListResponseMessage(_), PeerScanned(_)
scanListResponseMessage(s) ==
  IF "reject" \in s.m.flags \/ s.rest = <<>> THEN s
  ELSE PeerScanned(scanServerInformationParameter(s))

PeerScanned(p) ==
  IF p.ok THEN scanListResponseMessage([p EXCEPT !.m.peers = @ \o p.out])
  ELSE [p EXCEPT !.ok = TRUE]

NextIs(s, type) ==
  s.error = "OKAY" /\ ~s.skew /\ s.rest # <<>> /\ Head(s.rest).type = type

WithRegistrator(e) ==
  IF e.ok /\ e.out[1].registrator = <<>> THEN Failed(e, "INVALID_REGISTRATOR") ELSE e

(* The pool elements of a pool, each registered in the message's own       *)
(* handlespace.                                                            *)
RECURSIVE ScanPool(_), EntryScanned(_)
ScanPool(s) ==
  IF NextIs(s, "PoolElement")
  THEN EntryScanned(WithRegistrator(scanPoolElementParameter(s, TRUE, TRUE))) ELSE s

EntryScanned(e) ==
  IF e.ok THEN ScanPool([e EXCEPT !.m.table =
                           Append(@, [handle |-> e.m.handle[1], pe |-> e.out[1]])])
  ELSE e

(* A pool handle that cannot be scanned ends the table.                    *)
RECURSIVE scanHandleTableResponseMessage(_), PoolFrom(_, _), PoolScanned(_, _)
scanHandleTableResponseMessage(s) ==
  IF "reject" \in s.m.flags \/ ~NextIs(s, "PoolHandle") THEN s
  ELSE PoolFrom(s, scanPoolHandleParameter(s))

PoolFrom(before, handle) ==
  IF handle.ok THEN PoolScanned(before, ScanPool(handle)) ELSE [handle EXCEPT !.ok = TRUE]

PoolScanned(before, pool) ==
  IF pool.error # "OKAY" THEN [pool EXCEPT !.ok = FALSE]
  ELSE IF pool.m.table = before.m.table THEN Failed(pool, "INVALID_VALUE")
  ELSE scanHandleTableResponseMessage(pool)

scanHandleUpdateMessage(s) ==
  Kept(WithRegistrator(scanPoolElementParameter(scanPoolHandleParameter(s), TRUE, TRUE)), "pe")

(* The fixed fields that the scan functions read after the header.         *)
ReadFields(type) ==
  CASE type \in {"EndpointKeepAlive", "ServerAnnounce"} -> <<"registrar">>
    [] type = "HandleUpdate" -> <<"sender", "receiver", "action">>
    [] type \in {"InitTakeover", "InitTakeoverAck", "TakeoverServer"} ->
         <<"sender", "receiver", "registrar">>
    [] type \in {"Presence", "HandleTableRequest", "HandleTableResponse",
                 "ListRequest", "ListResponse", "ENRPError"} -> <<"sender", "receiver">>
    [] OTHER -> <<>>

ScanFields(s, p) ==
  LET read == ReadFields(p.type)
  IN  [s EXCEPT !.m = [f \in DOMAIN s.m |->
         IF f \in Range(read) THEN p.fields[CHOOSE i \in DOMAIN read : read[i] = f]
         ELSE s.m[f]]]

ScanASAPMessage(s, source) ==
  CASE s.m.type = "HandleResolution" -> scanHandleResolutionMessage(s)
    [] s.m.type = "HandleResolutionResponse" -> scanHandleResolutionResponseMessage(s)
    [] s.m.type = "EndpointKeepAlive" -> scanEndpointKeepAliveMessage(s)
    [] s.m.type \in {"EndpointKeepAliveAck", "EndpointUnreachable", "Deregistration"} ->
         HandleAndIdentifier(s)
    [] s.m.type = "ServerAnnounce" -> scanServerAnnounceMessage(s, source)
    [] s.m.type \in {"Cookie", "CookieEcho"} -> scanCookieParameter(s)
    [] s.m.type = "BusinessCard" -> scanBusinessCardMessage(s)
    [] s.m.type = "Registration" -> scanRegistrationMessage(s)
    [] s.m.type \in {"RegistrationResponse", "DeregistrationResponse"} -> ScanResponse(s)
    [] s.m.type = "ASAPError" -> scanErrorParameter(s)

ScanENRPMessage(s) ==
  CASE s.m.type = "Presence" -> scanPresenceMessage(s)
    [] s.m.type = "HandleTableResponse" -> scanHandleTableResponseMessage(s)
    [] s.m.type = "HandleUpdate" -> scanHandleUpdateMessage(s)
    [] s.m.type = "ListResponse" -> scanListResponseMessage(s)
    [] s.m.type = "ENRPError" -> scanErrorParameter(s)
    [] OTHER -> s

(* The message must end where the scan does.                               *)
checkFinishMessage(s) ==
  IF s.ok /\ (s.rest # <<>> \/ s.skew)
  THEN Failed(s, IF s.error = "OKAY" THEN "INVALID_MESSAGE" ELSE s.error)
  ELSE s

ScanStart(p) ==
  [m |-> [MessageNew(p.type) EXCEPT !.flags = p.flags], rest |-> p.tlvs,
   skew |-> FALSE, ok |-> TRUE, error |-> "OKAY", out |-> <<>>]

scanMessage(p, source) ==
  IF p.length < HeaderSize
  THEN Failed([ScanStart(p) EXCEPT !.m = MessageNew("None")], "INVALID_MESSAGE")
  ELSE checkFinishMessage(IF p.ppid = "ASAP" THEN ScanASAPMessage(ScanFields(ScanStart(p), p), source)
                          ELSE ScanENRPMessage(ScanFields(ScanStart(p), p)))

(* The error of a message whose scan succeeded is the one that the message *)
(* reports.                                                                *)
MessageScanned(s) == IF s.ok THEN s.m ELSE [s.m EXCEPT !.error = s.error]

(* rserpoolPacket2Message: the caller gets the message and no sign of a    *)
(* failure other than its error.                                           *)
Packet2Message(p, source) == MessageScanned(scanMessage(p, source))
=============================================================================
