-------------------------------- MODULE Wire --------------------------------
(***************************************************************************)
(* The wire form of the register's records (regwire.go), field by field.   *)
(* What a record may lack is a pointer on the wire, which the file leaves  *)
(* out when it is nil: here a set of one value or of none.  A zero value   *)
(* of Go ("", nil, the zero time) is None, and a slice a sequence.         *)
(*                                                                         *)
(* An evaluation writes back whole every track it reads, so that a field   *)
(* one direction drops is gone from the file after one run.                *)
(***************************************************************************)
EXTENDS Register

\* orNil, orNilTime, and a pointer that is handed on as it is.
OrNil(x) == {x} \ {None}

\* orEmptyString, orTime.
OrZero(pointer) == IF pointer = {} THEN None ELSE CHOOSE x \in pointer : TRUE

OrNilSlice(slice) == IF slice = <<>> THEN {} ELSE {slice}

OrEmptySlice(pointer) == IF pointer = {} THEN <<>> ELSE CHOOSE slice \in pointer : TRUE

\* A record behind a pointer is mapped if there is one.
MapNil(Map(_), record) == IF record = None THEN {} ELSE {Map(record)}

MapZero(Map(_), pointer) ==
  IF pointer = {} THEN None ELSE Map(CHOOSE wire \in pointer : TRUE)

VectorToWire(v) ==
  [critical |-> v.critical, high |-> v.high, medium |-> v.medium, low |-> v.low]

VectorFromWire(w) ==
  [critical |-> w.critical, high |-> w.high, medium |-> w.medium, low |-> w.low]

-----------------------------------------------------------------------------
(* Tracks.                                                                 *)

AdvisoryToWire(a) ==
  [vulnIds |-> a.vulnIds, severity |-> a.severity, since |-> a.since,
   fixedIn |-> OrNilSlice(a.fixedIn), affectedImports |-> OrNilSlice(a.affectedImports)]

\* Mutant of AdvisoryFromWire: a field of the record is forgotten.
AdvisoryFromWireForgetful(w) ==
  [vulnIds |-> w.vulnIds, severity |-> w.severity, since |-> w.since,
   fixedIn |-> OrEmptySlice(w.fixedIn), affectedImports |-> <<>>]

AdvisoryFromWire(w) ==
  [vulnIds |-> w.vulnIds, severity |-> w.severity, since |-> w.since,
   fixedIn |-> OrEmptySlice(w.fixedIn),
   affectedImports |-> OrEmptySlice(w.affectedImports)]

DeprecationToWire(d) == [reason |-> d.reason, since |-> d.since]

DeprecationFromWire(w) == [reason |-> w.reason, since |-> w.since]

TrackToWire(t) ==
  [package     |-> t.package,
   ecosystem   |-> t.ecosystem,
   prefix      |-> t.prefix,
   current     |-> t.current,
   updatedAt   |-> t.updatedAt,
   vulns       |-> VectorToWire(t.vulns),
   outcome     |-> t.outcome,
   reason      |-> OrNil(t.reason),
   source      |-> OrNil(t.source),
   provenance  |-> OrNil(t.provenance),
   osvSnapshot |-> OrNil(t.osvSnapshot),
   releasedAt  |-> OrNil(t.releasedAt),
   adoptedAt   |-> OrNil(t.adoptedAt),
   advisory    |-> MapNil(AdvisoryToWire, t.advisory),
   quietSince  |-> OrNil(t.quietSince),
   deprecated  |-> MapNil(DeprecationToWire, t.deprecated)]

TrackFromWire(w) ==
  [package     |-> w.package,
   ecosystem   |-> w.ecosystem,
   prefix      |-> w.prefix,
   current     |-> w.current,
   updatedAt   |-> w.updatedAt,
   vulns       |-> VectorFromWire(w.vulns),
   outcome     |-> w.outcome,
   reason      |-> OrZero(w.reason),
   source      |-> OrZero(w.source),
   provenance  |-> OrZero(w.provenance),
   osvSnapshot |-> OrZero(w.osvSnapshot),
   releasedAt  |-> OrZero(w.releasedAt),
   adoptedAt   |-> OrZero(w.adoptedAt),
   advisory    |-> MapZero(AdvisoryFromWire, w.advisory),
   quietSince  |-> OrZero(w.quietSince),
   deprecated  |-> MapZero(DeprecationFromWire, w.deprecated)]

-----------------------------------------------------------------------------
(* Requests and verdicts.                                                  *)

RequestToWire(r) ==
  [type |-> r.type, package |-> r.package, ecosystem |-> r.ecosystem,
   reason |-> r.reason, createdAt |-> r.createdAt, track |-> OrNil(r.track),
   version |-> OrNil(r.version), requester |-> OrNil(r.requester)]

RequestFromWire(w) ==
  [type |-> w.type, package |-> w.package, ecosystem |-> w.ecosystem,
   reason |-> w.reason, createdAt |-> w.createdAt, track |-> OrZero(w.track),
   version |-> OrZero(w.version), requester |-> OrZero(w.requester)]

AlternativeToWire(a) ==
  [version |-> a.version, vulns |-> VectorToWire(a.vulns),
   releasedAt |-> OrNil(a.releasedAt)]

AlternativeFromWire(w) ==
  [version |-> w.version, vulns |-> VectorFromWire(w.vulns),
   releasedAt |-> OrZero(w.releasedAt)]

VerdictToWire(v) ==
  [code         |-> v.code,
   package      |-> v.package,
   decidedAt    |-> v.decidedAt,
   ecosystem    |-> OrNil(v.ecosystem),
   track        |-> OrNil(v.track),
   requested    |-> OrNil(v.requested),
   adopted      |-> OrNil(v.adopted),
   osvSnapshot  |-> OrNil(v.osvSnapshot),
   message      |-> OrNil(v.message),
   alternatives |-> OrNilSlice([i \in DOMAIN v.alternatives |->
                                  AlternativeToWire(v.alternatives[i])])]

VerdictFromWire(w) ==
  LET alternatives == OrEmptySlice(w.alternatives)
  IN  [code         |-> w.code,
       package      |-> w.package,
       decidedAt    |-> w.decidedAt,
       ecosystem    |-> OrZero(w.ecosystem),
       track        |-> OrZero(w.track),
       requested    |-> OrZero(w.requested),
       adopted      |-> OrZero(w.adopted),
       osvSnapshot  |-> OrZero(w.osvSnapshot),
       message      |-> OrZero(w.message),
       alternatives |-> [i \in DOMAIN alternatives |->
                           AlternativeFromWire(alternatives[i])]]

-----------------------------------------------------------------------------
(* The whole records.  Rest is what they carry and Register leaves out.    *)

TrackRecord(k, t, rest) ==
  LET advisory(a) == [vulnIds |-> rest.vulnIds, severity |-> a.severity,
                      since |-> a.since, fixedIn |-> rest.fixedIn,
                      affectedImports |-> rest.affectedImports]
  IN  [package |-> k[1], ecosystem |-> rest.ecosystem, prefix |-> k[2],
       current |-> t.current, updatedAt |-> rest.updatedAt, vulns |-> t.vulns,
       outcome |-> t.outcome, reason |-> rest.reason, source |-> rest.source,
       provenance |-> rest.provenance, osvSnapshot |-> rest.osvSnapshot,
       releasedAt |-> t.releasedAt, adoptedAt |-> rest.adoptedAt,
       advisory |-> IF t.advisory = None THEN None ELSE advisory(t.advisory),
       quietSince |-> t.quietSince, deprecated |-> t.deprecated]

RequestRecord(r, rest) ==
  [type |-> r.type, package |-> r.pkg, ecosystem |-> rest.ecosystem,
   track |-> r.track, version |-> r.version, requester |-> rest.requester,
   reason |-> rest.reason, createdAt |-> r.at]

\* Alternatives, the newest first.
Ordered(S) ==
  [i \in 1..Cardinality(S) |->
     CHOOSE v \in S : Cardinality({w \in S : TotalRank[w] > TotalRank[v]}) = i - 1]

VerdictRecord(k, v, rest) ==
  LET offered == Ordered(v.alternatives)
  IN  [code |-> v.code, package |-> k.pkg, ecosystem |-> rest.ecosystem,
       track |-> v.track, requested |-> v.requested, adopted |-> v.adopted,
       osvSnapshot |-> rest.osvSnapshot, message |-> rest.message,
       decidedAt |-> rest.decidedAt,
       alternatives |-> [i \in DOMAIN offered |->
                           [version |-> offered[i], vulns |-> rest.vulns,
                            releasedAt |-> rest.releasedAt]]]

=============================================================================
