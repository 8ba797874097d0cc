-------------------------- MODULE VerificationCache --------------------------
(***************************************************************************)
(* EventVerificationCache of nostr-pubsub: the signature last found good   *)
(* for an event id, so that copies of an event arriving from several       *)
(* relays are checked once.  A body is named by the id it hashes to, and a *)
(* signature by the id it signs and a nonce: one id has many signatures.   *)
(***************************************************************************)
EXTENDS Naturals, Sequences, FiniteSets, SequencesExt

CONSTANTS Bodies,           \* event bodies, each the name of its own id
          Nonces,           \* what tells two signatures of one id apart
          CacheCapacity     \* VERIFICATION_CACHE_CAPACITY

VARIABLES signatures,       \* event id -> signature
          order,            \* ids, the oldest first
          asked,            \* the event last verified
          answer            \* what verify answered: "ok" or "refused"

cacheVars == <<signatures, order, asked, answer>>

Received == [id : Bodies, body : Bodies, sig : Bodies \X Nonces]

\* Event::verify_id recomputes the id; Event::verify checks the signature too.
VerifyId(e) == e.id = e.body
Verify(e) == VerifyId(e) /\ e.sig[1] = e.id

CacheInit ==
    /\ signatures = << >>
    /\ order = << >>
    /\ asked = [id |-> CHOOSE b \in Bodies : TRUE, body |-> CHOOSE b \in Bodies : TRUE,
                sig |-> <<CHOOSE b \in Bodies : TRUE, CHOOSE n \in Nonces : TRUE>>]
    /\ answer = "none"

Hit(e) == e.id \in DOMAIN signatures /\ signatures[e.id] = e.sig

\* Mutant of HitAnswer: the cached signature alone vouches for the event.
HitAnswerUnbound(e) == "ok"

\* A cached signature is bound to the body by the recomputed id.
HitAnswer(e) == IF VerifyId(e) THEN "ok" ELSE "refused"

\* A good signature is remembered; a new id may push out the oldest one.
Remember(e) ==
    LET full == e.id \notin DOMAIN signatures /\ Len(order) = CacheCapacity
        kept == IF full THEN DOMAIN signatures \ {Head(order)} ELSE DOMAIN signatures
        rest == IF full THEN Tail(order) ELSE order
    IN  /\ signatures' = [id \in kept \cup {e.id} |->
                             IF id = e.id THEN e.sig ELSE signatures[id]]
        /\ order' = IF e.id \in DOMAIN signatures THEN order ELSE Append(rest, e.id)

CacheVerify(e) ==
    /\ asked' = e
    /\ \/ /\ Hit(e)
          /\ answer' = HitAnswer(e)
          /\ UNCHANGED <<signatures, order>>
       \/ /\ ~Hit(e) /\ Verify(e)
          /\ answer' = "ok"
          /\ Remember(e)
       \/ /\ ~Hit(e) /\ ~Verify(e)
          /\ answer' = "refused"
          /\ UNCHANGED <<signatures, order>>

CacheNext == \E e \in Received : CacheVerify(e)

\* Whatever arrived before, verify answers what a full check of the event would:
\* a body that does not hash to its id is refused although its id and signature
\* are cached, another good signature is accepted.  The cache holds one
\* signature, a genuine one, for each id in line, and never too many.
CacheExact ==
    /\ answer # "none" => (answer = "ok" <=> Verify(asked))
    /\ DOMAIN signatures = ToSet(order) /\ IsInjective(order)
    /\ Len(order) <= CacheCapacity
    /\ \A id \in DOMAIN signatures : signatures[id][1] = id
=============================================================================
