----------------------------- MODULE NonceStore ------------------------------
(* The nonces the server remembers: a bounded map from nonce to the timestamp *)
(* of the header it came in, in memory, one for all requests.                 *)
EXTENDS Naturals, FiniteSets

CONSTANTS Nonces,
          Capacity      \* NONCE_CAPACITY

ASSUME CapacityAssumption == Capacity \in Nat \ {0}

VARIABLES seen,         \* the remembered nonces with their timestamps
          accepted      \* for each nonce the timestamps of the headers that
                        \* were accepted with it since the server started (a
                        \* history variable)

nonceVars == <<seen, accepted>>

NoncesInit == seen = <<>> /\ accepted = [n \in Nonces |-> {}]

\* Mutant: any entry gives way.
AnyEntry == DOMAIN seen

\* min_by_key over the map: an entry with the least timestamp, any of them.
Oldest == {n \in DOMAIN seen : \A m \in DOMAIN seen : seen[n] <= seen[m]}

Remember(nonce, ts, forgotten) ==
    seen' = [n \in (DOMAIN seen \ forgotten) \cup {nonce} |->
               IF n = nonce THEN ts ELSE seen[n]]

\* check_and_record, which returns true.
Record(nonce, ts) ==
    /\ nonce \notin DOMAIN seen
    /\ IF Cardinality(DOMAIN seen) >= Capacity
       THEN \E oldest \in Oldest : Remember(nonce, ts, {oldest})
       ELSE Remember(nonce, ts, {})
    /\ accepted' = [accepted EXCEPT ![nonce] = @ \cup {ts}]

\* check_and_record, which returns false.
IsReplay(nonce) == nonce \in DOMAIN seen

\* NonceStore::new at a start of the server.
NoncesReset == seen' = <<>> /\ accepted' = [n \in Nonces |-> {}]
==============================================================================
