------------------------------ MODULE SafeFetch ------------------------------
(***************************************************************************)
(* One outbound fetch: safe_fetch, fetch_public or fetch_public_redirects.  *)
(* A URL is its scheme and its host; the names are resolved again and again *)
(* and the answers change; a server answers, redirects to where it likes,   *)
(* refuses the connection, or fails in TLS.                                 *)
(***************************************************************************)
EXTENDS Naturals, FiniteSets, Sequences, SequencesExt

CONSTANTS
    Hosts,          \* host names
    Listed,         \* ALLOWED_EXTERNAL_HOSTS
    Addresses,      \* addresses
    Internal,       \* those for which _is_private_ip is true
    MaxRedirects,   \* 3
    MaxAddresses    \* _MAX_PINNED_ADDRESSES

ASSUME FetchAssumption ==
    /\ Listed \subseteq Hosts /\ Internal \subseteq Addresses /\ IsFiniteSet(Addresses)
    /\ MaxRedirects \in Nat /\ MaxAddresses \in Nat \ {0}

VARIABLES
    mode,       \* the function, and whether it follows redirects
    hop,        \* requests answered so far
    url,        \* the URL of this hop
    method,     \* its method; a body goes with what is not GET
    keyed,      \* the caller's headers go with it
    first,      \* the URL the caller gave
    fetchAt,    \* where the fetch is
    addresses,  \* the checked addresses that are left to try
    sent        \* history: the last request that went out

fetchVars == <<mode, hop, url, method, keyed, first, fetchAt, addresses, sent>>

Schemes == {"https", "http"}
URLs == [scheme : Schemes, host : Hosts]
Modes == {"safe", "safe redirects", "public", "public redirects"}
NoRequest == <<>>
Follows == mode \in {"safe redirects", "public redirects"}
Safe == mode \in {"safe", "safe redirects"}

FetchTypeOK ==
    /\ mode \in Modes /\ hop \in 0..(MaxRedirects + 1)
    /\ url \in URLs /\ first \in URLs /\ method \in {"GET", "POST"} /\ keyed \in BOOLEAN
    /\ fetchAt \in {"checks", "connects", "answered", "returned", "refused"}
    /\ Range(addresses) \subseteq Addresses

FetchInit ==
    /\ mode \in Modes /\ hop = 0
    /\ url \in URLs /\ first = url
    /\ method \in (IF mode = "public redirects" THEN {"GET"} ELSE {"GET", "POST"}) /\ keyed = TRUE
    /\ fetchAt = "checks" /\ addresses = <<>> /\ sent = NoRequest

Refuse ==
    /\ fetchAt' = "refused"
    /\ UNCHANGED <<mode, hop, url, method, keyed, first, addresses, sent>>

\* check_url_policy: https and a listed host; fetch_public: https, unless its caller allows
\* http (a probe of a recon, which does not follow redirects), and no .onion host.
Policy(u) ==
    IF Safe THEN u.scheme = "https" /\ u.host \in Listed
    ELSE u.scheme = "https" \/ mode = "public"

BugChecked(answer) == answer \cap Internal # answer
Checked(answer) == answer # {} /\ answer \cap Internal = {}

FirstOf(s) == IF Len(s) > MaxAddresses THEN SubSeq(s, 1, MaxAddresses) ELSE s

\* Policy first; then the name is resolved, once for this hop, and one internal address
\* among the answers refuses them all.
Check ==
    /\ fetchAt = "checks"
    /\ \/ Refuse /\ ~Policy(url)
       \/ /\ Policy(url)
          /\ \E answer \in SUBSET Addresses :
                \/ ~Checked(answer) /\ Refuse
                \/ /\ Checked(answer)
                   /\ addresses' \in {FirstOf(s) : s \in SetToSeqs(answer)}
                   /\ fetchAt' = "connects"
                   /\ UNCHANGED <<mode, hop, url, method, keyed, first, sent>>

\* The request goes to the next checked address.  When that address refuses the connection
\* the one after it is tried; any other failure ends the fetch.
Connect ==
    /\ fetchAt = "connects" /\ addresses # <<>>
    /\ sent' = [url |-> url, address |-> Head(addresses), method |-> method, keyed |-> keyed]
    /\ \/ addresses' = Tail(addresses) /\ UNCHANGED <<hop, fetchAt>>
       \/ fetchAt' = "answered" /\ hop' = hop + 1 /\ UNCHANGED addresses
       \/ fetchAt' = "refused" /\ UNCHANGED <<hop, addresses>>
    /\ UNCHANGED <<mode, url, method, keyed, first>>

NoAddressLeft == fetchAt = "connects" /\ addresses = <<>> /\ Refuse

HandBack ==
    /\ fetchAt = "answered"
    /\ fetchAt' = "returned"
    /\ UNCHANGED <<mode, hop, url, method, keyed, first, addresses, sent>>

TooManyHops ==
    fetchAt = "answered" /\ Follows /\ hop > MaxRedirects /\ Refuse

\* 301, 302 and 303 make a GET of what was posted; 307 and 308 do not.
Redirected(old) == IF old = "GET" THEN {"GET"} ELSE {"GET", old}

SameOrigin(u) == u = first
Keeps(u) == keyed /\ SameOrigin(u)

\* A redirect: another host gets neither the caller's headers nor a body, and once they
\* were dropped they stay dropped.
Redirect ==
    /\ fetchAt = "answered" /\ Follows /\ hop <= MaxRedirects
    /\ \E target \in URLs, next \in Redirected(method) :
          IF Safe /\ (~Policy(target) \/ (~SameOrigin(target) /\ next # "GET"))
          THEN Refuse
          ELSE /\ url' = target /\ method' = next
               /\ keyed' = Keeps(target)
               /\ fetchAt' = "checks" /\ addresses' = <<>>
               /\ UNCHANGED <<mode, hop, first, sent>>

FetchNext ==
    \/ Check \/ Connect \/ NoAddressLeft \/ HandBack \/ TooManyHops \/ Redirect

FetchSpec == FetchInit /\ [][FetchNext]_fetchVars

-----------------------------------------------------------------------------
\* Whatever a server redirects to and however often a name's answer changes: a request
\* never goes to an internal address, not even one that a name mixes with public ones;
\* the caller's headers and body go to the first host only, however long the chain is;
\* and what may carry a key goes to listed hosts, encrypted.
OnlyWhatWasChecked ==
    sent # NoRequest =>
        /\ sent.address \notin Internal
        /\ Safe => sent.url.scheme = "https" /\ sent.url.host \in Listed
        /\ sent.keyed \/ sent.method # "GET" => sent.url = first
=============================================================================
