------------------------------ MODULE DnsRecon ------------------------------
(***************************************************************************)
(* The recon of one domain: what is asked of other services and of the      *)
(* resolver, what is put together from it, and which addresses the recon    *)
(* connects to, looks up or stores, and from where it has them; and the      *)
(* request that adds the data of DNSDumpster to the row.  The resolver may   *)
(* give a name another answer every time, and knows the private network the  *)
(* dashboard runs in.  The slot of the recon and how its row ends are in     *)
(* HeavyJobs, the fan-out in FanOut, a request in SafeFetch.                 *)
(***************************************************************************)
EXTENDS Naturals, FiniteSets

CONSTANTS
    Hosts,      \* names: the domain, hosts below it and others
    Domain,     \* the one that is investigated
    Below,      \* those under the domain
    Wordlist,   \*   of which the brute force knows these
    NonPublic,  \* names that exist only in private networks
    IPs, Inside,\* addresses, and those that are not public
    GeoMax,     \* GEO_MAX_IPS
    Enrichers   \* requests of api_dns_enrich

ASSUME ReconAssumption ==
    /\ Domain \in Hosts \ NonPublic /\ Below \subseteq Hosts \ {Domain}
    /\ Wordlist \subseteq Below /\ NonPublic \subseteq Hosts
    /\ Inside \subseteq IPs /\ GeoMax \in Nat

VARIABLES
    reconAt,    \* how far the recon is
    step,       \* step[s]: a part of phase 1
    found,      \* what was found so far
    missing,    \* errors: what is missing in the result
    probe,      \* probe[n]: the probe of a host, and the address it has checked
    touched,    \* addresses connected to or looked up backwards
    located,    \* addresses in the geolocation cache
    listed,     \* the result: addresses, each with the source that named it
    dnsRow,     \* the row: its status and the result stored in it
    enrich      \* enrich[e]: an enrichment, and the result it has read

reconVars ==
    <<reconAt, step, found, missing, probe, touched, located, listed, dnsRow, enrich>>

Parts == {"DNS records", "crt.sh", "HackerTarget", "Zone transfer"}
NothingFound == [main |-> {}, names |-> {}, records |-> {}]
NoProbe == [at |-> "none", checked |-> {}]
Idle == [at |-> "out", read |-> {}]

ReconInit ==
    /\ reconAt = "out" /\ step = [s \in Parts |-> "runs"]
    /\ found = NothingFound /\ missing = {} /\ touched = {} /\ located \in {{}, IPs \ Inside}
    /\ listed = {}
    /\ probe = [n \in Hosts |-> NoProbe]
    /\ dnsRow = [status |-> "running", result |-> {}]
    /\ enrich = [e \in Enrichers |-> Idle]

Touch(addresses) == touched' = touched \cup addresses
From(source, addresses) == {[from |-> source, ip |-> a] : a \in addresses}
Lists(source, addresses) == listed' = listed \cup From(source, addresses)
Goes(to) == reconAt' = to
Misses(what) == missing' = missing \cup what

\* _public_addresses
BugPublicOf(addresses) == addresses
PublicOf(addresses) == addresses \ Inside

\* A name that this process's resolver gives an inside address is refused.
Begin ==
    /\ reconAt = "out"
    /\ \E answer \in SUBSET IPs :
          Goes(IF answer \cap Inside = {} THEN "phase 1" ELSE "refused")
    /\ UNCHANGED <<step, found, missing, probe, touched, located, listed, dnsRow, enrich>>

Answers(s) == step[s] = "runs" /\ step' = [step EXCEPT ![s] = "answered"]

\* _under: the domain and what is below it.
Own(names) == names \cap (Below \cup {Domain})

Finds(addresses, names) ==
    found' = [found EXCEPT !.main = @ \cup addresses, !.names = @ \cup Own(names)]

\* Of the name servers and mail hosts only those of the domain count.  A late answer of
\* this part and the next is not looked at.
Records ==
    /\ reconAt = "phase 1" /\ Answers("DNS records")
    /\ \E addresses \in SUBSET IPs, names \in SUBSET Hosts : Finds(addresses, names)
    /\ UNCHANGED <<reconAt, missing, probe, touched, located, listed, dnsRow, enrich>>

Passive ==
    /\ reconAt = "phase 1"
    /\ Answers("crt.sh") \/ Answers("HackerTarget")
    /\ \E names \in SUBSET Hosts : Finds({}, names)
    /\ UNCHANGED <<reconAt, missing, probe, touched, located, listed, dnsRow, enrich>>

\* A transfer is asked of every name server that has a public name and a public address,
\* also when the time of phase 1 is up.  The records that a server gives, addresses
\* included, are kept as they came.
ZoneTransfer ==
    /\ reconAt \notin {"out", "refused"} /\ step["Zone transfer"] = "runs"
    /\ \/ \E n \in Hosts \ NonPublic, a \in IPs \ Inside :
             Touch({a}) /\ UNCHANGED <<step, found>>
       \/ Answers("Zone transfer") /\ UNCHANGED <<touched, found>>
       \/ /\ reconAt = "phase 1" /\ touched # {} /\ Answers("Zone transfer")
          /\ \E records \in SUBSET IPs : found' = [found EXCEPT !.records = records]
          /\ UNCHANGED touched
    /\ UNCHANGED <<reconAt, missing, probe, located, listed, dnsRow, enrich>>

\* Every part has answered, or the time is up; address records that are inside are left
\* out, those of a transfer are not looked at.
Phase1Ends ==
    /\ reconAt = "phase 1" /\ Goes("locates")
    /\ LET main == PublicOf(found.main) IN
       /\ found' = [found EXCEPT !.main = main]
       /\ listed' = From("recon", main) \cup From("transfer", found.records)
       /\ Misses({s \in Parts : step[s] = "runs"}
                 \cup IF main # found.main THEN {"addresses"} ELSE {})
    /\ UNCHANGED <<step, probe, touched, located, dnsRow, enrich>>

\* geolocate_ips: of the public addresses that are not known yet at most GeoMax are asked
\* for, and each of them may fail.
Locate(addresses) ==
    \E asked \in SUBSET (addresses \ (Inside \cup located)) :
       /\ Cardinality(asked) <= GeoMax
       /\ \E answered \in SUBSET asked : located' = located \cup answered

LocateMain ==
    /\ reconAt = "locates" /\ Goes("forces")
    /\ Locate(found.main)
    /\ UNCHANGED <<step, found, missing, probe, touched, listed, dnsRow, enrich>>

\* Names of the word list that have a public address, which is stored.
BruteForce ==
    /\ reconAt = "forces" /\ Goes("resolves")
    /\ \/ \E names \in SUBSET Wordlist, addresses \in SUBSET IPs :
             /\ found' = [found EXCEPT !.names = @ \cup names]
             /\ Lists("recon", IF names = {} THEN {} ELSE PublicOf(addresses))
             /\ UNCHANGED missing
       \/ Misses({"brute force"}) /\ UNCHANGED <<found, listed>>
    /\ UNCHANGED <<step, probe, touched, located, dnsRow, enrich>>

\* All names are resolved again, their public addresses stored and located, and those of
\* the address records looked up backwards.
Resolve ==
    /\ reconAt = "resolves" /\ Goes("probes")
    /\ \E addresses \in IF found.names = {} THEN {{}} ELSE SUBSET IPs :
          /\ Lists("recon", PublicOf(addresses))
          /\ Locate(PublicOf(addresses))
          /\ Misses(IF found.main \cup PublicOf(addresses) \subseteq located' THEN {}
                    ELSE {"geolocation"})
    /\ Touch(found.main)
    /\ UNCHANGED <<step, found, probe, dnsRow, enrich>>

\* probe_service: the name is resolved once more; one address inside refuses it.
Check(n) ==
    /\ reconAt = "probes" /\ n \in found.names /\ probe[n].at = "none"
    /\ \E answer \in SUBSET IPs :
          probe' = [probe EXCEPT ![n] =
                       IF answer = {} \/ answer \cap Inside # {}
                       THEN [at |-> "over", checked |-> {}]
                       ELSE [at |-> "connects", checked |-> answer]]
    /\ UNCHANGED <<reconAt, step, found, missing, touched, located, listed, dnsRow, enrich>>

\* HTTPS, and when that fails HTTP.  A redirect is not followed.
Connect(n) ==
    /\ probe[n].at = "connects"
    /\ \E a \in probe[n].checked : Touch({a})   \* and not the name again
    /\ \/ probe' = [probe EXCEPT ![n].at = "over"]
       \/ UNCHANGED probe
    /\ UNCHANGED <<reconAt, step, found, missing, located, listed, dnsRow, enrich>>

\* Every host has been probed, or the time is up, and a probe may still connect; the
\* result is stored.
CompleteRecon ==
    /\ reconAt = "probes" /\ Goes("complete")
    /\ Misses({}) \/ Misses({"services"})
    /\ dnsRow' = IF dnsRow.status = "none" THEN dnsRow
                 ELSE [status |-> "complete", result |-> listed]
    /\ UNCHANGED <<step, found, probe, touched, located, listed, enrich>>

\* An exception where none is caught, or the refusal.
ReconFails ==
    /\ reconAt \notin {"out", "complete", "over"} /\ Goes("over")
    /\ dnsRow' = IF dnsRow.status = "none" THEN dnsRow ELSE [dnsRow EXCEPT !.status = "error"]
    /\ UNCHANGED <<step, found, missing, probe, touched, located, listed, enrich>>

DeleteRow ==
    /\ dnsRow.status # "none" /\ dnsRow' = [status |-> "none", result |-> {}]
    /\ UNCHANGED <<reconAt, step, found, missing, probe, touched, located, listed, enrich>>

\* api_dns_enrich: the row is read, DNSDumpster asked, and the result that was read is
\* stored with what it says of the domain and hosts below it, addresses as they came,
\* whatever was stored since.
EnrichReads(e) ==
    /\ enrich[e].at = "out" /\ dnsRow.status # "none"
    /\ enrich' = [enrich EXCEPT ![e] = [at |-> "asks", read |-> dnsRow.result]]
    /\ UNCHANGED <<reconAt, step, found, missing, probe, touched, located, listed, dnsRow>>

EnrichStores(e) ==
    /\ enrich[e].at = "asks"
    /\ enrich' = [enrich EXCEPT ![e].at = "over"]
    /\ \/ UNCHANGED dnsRow
       \/ /\ dnsRow.status # "none"
          /\ \E addresses \in SUBSET IPs :
                dnsRow' = [dnsRow EXCEPT !.result =
                              enrich[e].read \cup From("dnsdumpster", addresses)]
    /\ UNCHANGED <<reconAt, step, found, missing, probe, touched, located, listed>>

ReconNext ==
    \/ Begin \/ Records \/ Passive \/ ZoneTransfer \/ Phase1Ends \/ LocateMain
    \/ BruteForce \/ Resolve \/ CompleteRecon \/ ReconFails \/ DeleteRow
    \/ \E n \in Hosts : Check(n) \/ Connect(n)
    \/ \E e \in Enrichers : EnrichReads(e) \/ EnrichStores(e)

ReconSpec == ReconInit /\ [][ReconNext]_reconVars

-----------------------------------------------------------------------------
\* Whatever the resolver says from one query to the next, the recon connects to, locates
\* and looks up public addresses only, lists and stores no other of those it has resolved
\* itself, and probes no host that is not of the domain it was asked for.  The records of a
\* transfer and the data of DNSDumpster are not its own, and are stored as they come.
ReconStaysOutside ==
    /\ touched \cap Inside = {} /\ located \cap Inside = {}
    /\ \A entry \in listed \cup dnsRow.result : entry.from = "recon" => entry.ip \notin Inside
    /\ \A n \in Hosts : probe[n].at # "none" => n \in Below \cup {Domain}
=============================================================================
