--------------------------------- MODULE Dns ---------------------------------
(* The DNS records of one name, as cloudflare.py classifies, plans and     *)
(* reports them for the tunnel target it expects.  Pure operators.         *)
(*                                                                         *)
(* A record is its id and its kind: "tunnel" is the proxied CNAME to the   *)
(* expected tunnel target, "route" any other A, AAAA or CNAME record,      *)
(* "mail" an MX, TXT or CAA record, and "odd" a record of any other type.  *)
CONSTANTS RecordIds,  \* ids the API gives records
          NoId        \* a call that names no record

Kinds == {"tunnel", "route", "mail", "odd"}
Records == [id : RecordIds, kind : Kinds]

\* Cloudflare gives every record of a zone an id of its own.
RecordSets == {rs \in SUBSET Records : \A r1, r2 \in rs : r1.id = r2.id => r1 = r2}

OfKind(rs, kinds) == {r \in rs : r.kind \in kinds}
Routing(rs) == OfKind(rs, {"tunnel", "route"})
Matching(rs) == OfKind(rs, {"tunnel"})
Mail(rs) == OfKind(rs, {"mail"})

Several(rs) == \E r1, r2 \in rs : r1 # r2

\* _classify_dns_records with an expected target: the first matching CNAME is
\* set aside; two routing records beside it, or an odd one, are a conflict.
Conflicting(rs) ==
  \/ OfKind(rs, {"odd"}) # {}
  \/ Matching(rs) = {} /\ Several(Routing(rs))
  \/ \E r \in Matching(rs) : Several(Routing(rs) \ {r})

\* The same without an expected target, as a removal classifies.
ConflictingRemoval(rs) == OfKind(rs, {"odd"}) # {} \/ Several(Routing(rs))

\* `managed_record or existing[0]`: the record an update overwrites.  Without
\* a routing record it is whatever record the API lists first.
Overwritable(rs) == IF Routing(rs) # {} THEN Routing(rs) ELSE rs

\* What apply_dns_record does once it has the list: the method, and the id of
\* the record it names.
Call(method, id) == [method |-> method, id |-> id]
NoCall == Call("noop", NoId)
Refusal == Call("conflict", NoId)

UpsertCalls(rs) ==
  IF rs = {} THEN {Call("POST", NoId)}
  ELSE IF Conflicting(rs) THEN {Refusal}
  ELSE IF Matching(rs) # {} THEN {NoCall}
  ELSE {Call("PUT", r.id) : r \in Overwritable(rs)}

\* A faulty removal that deletes the first record of the list.
RemovalCallsFirst(rs) ==
  IF rs = {} THEN {NoCall} ELSE {Call("DELETE", r.id) : r \in rs}

\* What apply_dns_record_removal does once it has the list.
RemovalCalls(rs) ==
  IF rs = {} THEN {NoCall}
  ELSE IF ConflictingRemoval(rs) THEN {Refusal}
  ELSE IF Routing(rs) = {} THEN {NoCall}
  ELSE {Call("DELETE", r.id) : r \in Routing(rs)}

\* What the API does with a call: it creates under an unused id, replaces or
\* deletes the record of an id, and refuses an id that is not there.
Known(rs, call) == \E r \in rs : r.id = call.id
Effect(rs, call, newId) ==
  IF call.method = "POST" THEN rs \cup {[id |-> newId, kind |-> "tunnel"]}
  ELSE IF call.method = "PUT"
  THEN {r \in rs : r.id # call.id} \cup {[id |-> call.id, kind |-> "tunnel"]}
  ELSE IF call.method = "DELETE" THEN {r \in rs : r.id # call.id}
  ELSE rs

\* get_dns_record_status
DnsStatus(rs) ==
  [exists   |-> rs # {},
   multiple |-> rs # {} /\ Conflicting(rs),
   matches  |-> Matching(rs) # {} /\ ~Conflicting(rs)]
=============================================================================
