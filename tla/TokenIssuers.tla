---------------------------- MODULE TokenIssuers ----------------------------
(***************************************************************************)
(* Public keys of the issuers of tokens that are presented to this server: *)
(* a request whose token no key matches asks for those of the issuer       *)
(* (nmos/api_utils.cpp, ws_api_utils.cpp, authorization.cpp), and a thread *)
(* fetches the metadata of that issuer and then its keys                   *)
(* (authorization_token_issuer_thread, nmos/authorization_operation.cpp).  *)
(*                                                                         *)
(* Two mutexes are involved: that of the model, with which the thread      *)
(* waits, and that of the authorization state, which is held for each      *)
(* access to it and never for longer.  A handler of an HTTP request holds  *)
(* neither from one access to the next.                                    *)
(*                                                                         *)
(* Abstracted: the keys of an issuer are the number of their rotations, a  *)
(* token is signed with the latest; tokens that are refused for another    *)
(* reason change nothing; shutdown is left out.                            *)
(***************************************************************************)
EXTENDS Integers

CONSTANTS
    Issuer,         \* issuers of tokens
    Used,           \* the authorization server this server is a client of
    None,
    MaxRotations    \* bound: how often an issuer has other keys

VARIABLES
    fetching,   \* authorization_state.fetch_token_issuer_pubkeys
    issuer,     \* authorization_state.token_issuer
    metadata,   \* the issuers whose metadata is in authorization_state.issuers
    keys,       \* the keys that are there, for each issuer, or 0
    made,       \* the issuers whose validator the thread has made
    current,    \* the keys the issuers sign with
    at,         \* where the thread is
    target,     \* the issuer it has to do with
    got,        \* the keys it was sent
    refused,    \* requests: for each issuer whether a token is being "refused", or has been
                \*   "flagged" and the thread not notified
    since       \* history: issuers whose tokens were refused since a fetch began

issuersVars == <<fetching, issuer, metadata, keys, made, current, at, target, got, refused, since>>

Init ==
    /\ fetching = FALSE /\ issuer = None
    /\ metadata = {}
    /\ keys = [i \in Issuer |-> 0]
    /\ made = {}
    /\ current = [i \in Issuer |-> 1]
    /\ at = "enters" /\ target = None /\ got = 0
    /\ refused = [i \in Issuer |-> "no"]
    /\ since = {}

-----------------------------------------------------------------------------
(* Requests *)

\* validate_authorization: no public key of the issuer matches.
NoMatchingKeys(i) == keys[i] # current[i]

Wake == at' = IF at = "asleep" THEN "enters" ELSE at

\* A token is refused.  (One that a validator should refuse may be taken for valid, or for
\* invalid, by one whose schema has gone; see ValidatorsIntact.)
Refuse(i) ==
    /\ NoMatchingKeys(i)
    /\ refused[i] = "no"
    /\ refused' = [refused EXCEPT ![i] = "refused"]
    /\ UNCHANGED <<fetching, issuer, metadata, keys, made, current, at, target, got, since>>

\* trigger a re-fetch
Flag(i) ==
    /\ refused[i] = "refused"
    /\ fetching' = TRUE
    /\ issuer' = i
    /\ refused' = [refused EXCEPT ![i] = "flagged"]
    /\ since' = since \cup {i}
    /\ UNCHANGED <<metadata, keys, made, current, at, target, got>>

\* The model's lock is taken for this.
Notify(i) ==
    /\ refused[i] = "flagged"
    /\ refused' = [refused EXCEPT ![i] = "no"]
    /\ Wake
    /\ UNCHANGED <<fetching, issuer, metadata, keys, made, current, target, got, since>>

\* make_ws_validate_authorization_handler, which is called with the model's lock held.  This
\* is a token in the query of the request: when one in a header is refused, the reason is
\* replaced by "missing access token" (authorization.cpp:184), and nothing is done.
RefuseWs(i) ==
    /\ NoMatchingKeys(i)
    /\ fetching' = TRUE
    /\ issuer' = i
    /\ since' = since \cup {i}
    /\ Wake
    /\ UNCHANGED <<metadata, keys, made, current, target, got, refused>>

-----------------------------------------------------------------------------
(* The thread *)

\* request_token_issuer_metadata: the wait
Wait ==
    /\ at = "enters" /\ ~fetching
    /\ at' = "asleep"
    /\ UNCHANGED <<fetching, issuer, metadata, keys, made, current, target, got, refused, since>>

\* It is over.  The flag is reset and the issuer read at once.
Take ==
    /\ at = "enters" /\ fetching
    /\ fetching' = FALSE
    /\ target' = issuer
    /\ at' = "requests metadata"
    /\ since' = {}
    /\ UNCHANGED <<issuer, metadata, keys, made, current, got, refused>>

MetadataReceived ==
    /\ at = "requests metadata"
    /\ metadata' = metadata \cup {target}
    /\ at' = "has metadata"
    /\ UNCHANGED <<fetching, issuer, keys, made, current, target, got, refused, since>>

MetadataFails ==
    /\ at = "requests metadata"
    /\ at' = "enters"
    /\ UNCHANGED <<fetching, issuer, metadata, keys, made, current, target, got, refused, since>>

\* request_token_issuer_public_keys: the issuer is read again.  There is no uri for its
\* keys if its metadata has not been fetched, no client can be made of that, and nothing
\* catches the exception.
StartKeys ==
    /\ at = "has metadata"
    /\ target' = issuer
    /\ at' = IF issuer \in metadata THEN "requests keys" ELSE "terminated"
    /\ UNCHANGED <<fetching, issuer, metadata, keys, made, current, got, refused, since>>

\* The answer is of the time when it is sent, or cannot be used.
KeysSent(version) ==
    /\ at = "requests keys"
    /\ version \in {0, current[target]}
    /\ got' = version
    /\ at' = "has keys"
    /\ UNCHANGED <<fetching, issuer, metadata, keys, made, current, target, refused, since>>

\* update_jwks, or erase_jwks, if there is a change.  The validator that is made refers to a
\* local variable of request_token_issuer_public_keys.
KeysStored ==
    /\ at = "has keys"
    /\ keys' = [keys EXCEPT ![target] = got]
    /\ made' = IF keys[target] = got THEN made
               ELSE IF got = 0 THEN made \ {target} ELSE made \cup {target}
    /\ at' = "stored"
    /\ UNCHANGED <<fetching, issuer, metadata, current, target, got, refused, since>>

\* request_token_issuer_public_keys returns, whether or not it has received keys.
Return ==
    /\ at \in {"requests keys", "stored"}
    /\ at' = "enters"
    /\ got' = 0
    /\ UNCHANGED <<fetching, issuer, metadata, keys, made, current, target, refused, since>>

-----------------------------------------------------------------------------
(* Elsewhere *)

\* authorization_operation fetches the metadata and the keys of the server in use.
Poll ==
    /\ metadata' = metadata \cup {Used}
    /\ keys' = [keys EXCEPT ![Used] = current[Used]]
    /\ made' = IF keys[Used] = current[Used] THEN made ELSE made \ {Used}
    /\ UNCHANGED <<fetching, issuer, current, at, target, got, refused, since>>

\* An issuer gets other keys.
Rotate(i) ==
    /\ current[i] < 1 + MaxRotations
    /\ current' = [current EXCEPT ![i] = @ + 1]
    /\ UNCHANGED <<fetching, issuer, metadata, keys, made, at, target, got, refused, since>>

Next ==
    \/ \E i \in Issuer : Refuse(i) \/ Flag(i) \/ Notify(i) \/ RefuseWs(i) \/ Rotate(i)
    \/ Wait \/ Take \/ MetadataReceived \/ MetadataFails
    \/ StartKeys \/ (\E version \in 0..(1 + MaxRotations) : KeysSent(version)) \/ KeysStored \/ Return
    \/ Poll

Spec == Init /\ [][Next]_issuersVars

-----------------------------------------------------------------------------
(* Properties *)

Places == {"asleep", "enters", "requests metadata", "has metadata", "requests keys",
           "has keys", "stored", "terminated"}

TypeOK ==
    /\ fetching \in BOOLEAN /\ issuer \in Issuer \cup {None}
    /\ metadata \subseteq Issuer /\ made \subseteq Issuer
    /\ keys \in [Issuer -> 0..(1 + MaxRotations)]
    /\ current \in [Issuer -> 1..(1 + MaxRotations)]
    /\ at \in Places /\ target \in Issuer \cup {None}
    /\ got \in 0..(1 + MaxRotations)
    /\ refused \in [Issuer -> {"no", "refused", "flagged"}]
    /\ since \subseteq Issuer

\* "if no matching public keys caused the error, trigger a re-fetch": a fetch begins after
\* each refusal, also if one is going on then, and the thread does not sleep
\* while one is due, although the flag is set without the lock it waits with.
RefetchTriggered ==
    /\ since # {} => fetching
    /\ fetching /\ at = "asleep" => \E i \in Issuer : refused[i] = "flagged"

\* The flag is "for triggering the authorization_token_issuer_thread to fetch the token
\* issuer metadata follow by fetching the issuer public keys": keys are fetched of
\* issuers whose metadata has been.  It does not hold: between the two fetches a
\* request may have named another issuer.
KeysFollowMetadata == at # "terminated"

\* What a validator refers to is there as long as the validator.  It does not hold:
\* the validator is kept when the function whose variable it refers to returns.
ValidatorsIntact == made # {} => at = "stored"

=============================================================================
