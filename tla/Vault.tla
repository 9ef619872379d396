------------------------------- MODULE Vault -------------------------------
(***************************************************************************)
(* VaultRepository (vaults.ts): the credentials of one vault in a tenant's *)
(* CatalogDO, and the refresh of an OAuth token whose endpoint may take    *)
(* the request and lose the answer.                                        *)
(*                                                                         *)
(* A step runs to the next await; the exchange with the endpoint is the    *)
(* only one, and its endpoint is external.  A grant is a refresh token, a  *)
(* number.  Time only moves a token towards its expiry.  The identifier of *)
(* a refresh operation is the call that made it: a call has one at a time. *)
(* era counts the owner's rotations of a credential, and is in the record  *)
(* for the properties only.  A value that may be absent is a set of at     *)
(* most one element.                                                       *)
(***************************************************************************)
EXTENDS Naturals, Sequences, FiniteSets

CONSTANTS Credential,  \* credentials of the vault, all for different servers
          Caller,      \* concurrent calls of token
          MaxGrant,    \* bound on the refresh tokens
          MaxRotation, \* bound on the rotations of a credential
          MaxEvict     \* bound on evictions of the object

ASSUME VaultAssumption ==
  /\ IsFiniteSet(Credential) /\ IsFiniteSet(Caller)
  /\ MaxGrant \in Nat /\ MaxRotation \in Nat /\ MaxEvict \in Nat

VARIABLES rows,     \* the rows of the repository
          call,     \* the calls of token
          gate,     \* refreshGate: the call that holds it, then the ones that wait
          granted,  \* refresh tokens named so far
          known,    \* history: what happened to each grant, and the owner's rotations
          evictions

vaultVars == <<rows, call, gate, granted, known, evictions>>

NoCall == [pc |-> "free", credential |-> {}, auth |-> {}]
Of(r) == CHOOSE c \in call[r].credential : TRUE
Auth(c) == CHOOSE a \in rows.credential[c] : TRUE

\* static_bearer, or mcp_oauth with or without a grant (0).
Bearer == [type |-> "static", expires |-> "never", grant |-> 0, era |-> 0]
OAuth(grant) == [type |-> "oauth", expires |-> "later", grant |-> grant, era |-> 0]

-----------------------------------------------------------------------------
(***************************************************************************)
(* token and refresh                                                       *)
(***************************************************************************)
\* usableToken: the token, an error, or a refresh; "soon" is within 30 seconds.
usableToken(c) ==
  LET a == Auth(c)
  IN CASE a.type = "static" -> "token"
       [] a.type = "oauth" /\ c \in rows.rejected -> "error"
       [] a.type = "oauth" /\ c \notin rows.rejected /\ a.expires \in {"never", "later"} -> "token"
       [] OTHER -> IF a.grant # 0 THEN "refresh" ELSE IF a.expires = "soon" THEN "token" ELSE "error"

\* matching: the vault and the credential, or an error; another refresh makes it wait.
token(r, c) ==
  /\ call[r] = NoCall
  /\ IF rows.vault /\ rows.credential[c] # {} /\ usableToken(c) = "refresh"
     THEN /\ call' = [call EXCEPT ![r] = [pc |-> "gate", credential |-> {c}, auth |-> {}]]
          /\ gate' = Append(gate, r)
     ELSE UNCHANGED <<call, gate>>
  /\ UNCHANGED <<rows, granted, known, evictions>>

Leaves(r) == call' = [call EXCEPT ![r] = NoCall] /\ gate' = Tail(gate)

\* Under the gate the row is read again, and the request is reserved and sent.
AsksInDoubt(r) ==
  LET c == Of(r)
  IN IF rows.credential[c] = {} \/ usableToken(c) # "refresh"
     THEN Leaves(r) /\ UNCHANGED rows
     ELSE /\ rows' = [rows EXCEPT !.refresh[c] = {r}]
          /\ call' = [call EXCEPT ![r].pc = "exchange", ![r].auth = {Auth(c)}]
          /\ UNCHANGED gate
Asks(r) ==
  LET c == Of(r)
      a == Auth(c)
  IN IF rows.credential[c] = {} \/ usableToken(c) # "refresh" \/ rows.refresh[c] # {}
     THEN Leaves(r) /\ UNCHANGED rows
     ELSE /\ rows' = [rows EXCEPT !.refresh[c] = {r}]
          /\ call' = [call EXCEPT ![r].pc = "exchange", ![r].auth = {a}]
          /\ UNCHANGED gate
refresh(r) ==
  /\ call[r].pc = "gate" /\ Head(gate) = r
  /\ Asks(r)
  /\ UNCHANGED <<granted, known, evictions>>

Sent(r) == CHOOSE a \in call[r].auth : TRUE
Mine(r) == rows.refresh[Of(r)] = {r}
\* A rotation since then vouches for the grant it kept.
Lost(r) == IF Mine(r) THEN {Sent(r).grant} ELSE {}

\* No answer, or one that cannot be read: the reservation stays.
UnknownKeepsGate(r) ==
  /\ call[r].pc = "exchange"
  /\ known' = [known EXCEPT !.unknown = @ \cup Lost(r)]
  /\ call' = [call EXCEPT ![r] = NoCall]
  /\ UNCHANGED <<rows, gate, granted, evictions>>
Unknown(r) ==
  /\ call[r].pc = "exchange"
  /\ known' = [known EXCEPT !.unknown = @ \cup Lost(r)]
  /\ Leaves(r)
  /\ UNCHANGED <<rows, granted, evictions>>

\* The endpoint refused (4xx), or failed without taking the grant (5xx, a redirect).
Refused(r, rejected) ==
  LET c == Of(r)
  IN /\ call[r].pc = "exchange"
     /\ rows' = [rows EXCEPT !.refresh[c] = IF Mine(r) THEN {} ELSE @,
                             !.rejected = IF rejected THEN @ \cup {c} ELSE @]
     /\ known' = [known EXCEPT !.refused = IF rejected THEN @ \cup {Sent(r).grant} ELSE @]
     /\ Leaves(r)
     /\ UNCHANGED <<granted, evictions>>

\* A token, with a new grant or with the old one; nothing is written over a credential
\* that changed since the request was made.
Unchanged(r) == rows.credential[Of(r)] = call[r].auth /\ Mine(r)
Renewed(r, grant) ==
  LET c == Of(r)
  IN /\ call[r].pc = "exchange" /\ grant \in {Sent(r).grant, granted + 1} /\ grant <= MaxGrant
     /\ granted' = IF grant > granted THEN grant ELSE granted
     /\ rows' = IF Unchanged(r)
                THEN [rows EXCEPT
                        !.credential[c] = {[Sent(r) EXCEPT !.expires = "later", !.grant = grant]},
                        !.refresh[c] = {}]
                ELSE rows
     /\ Leaves(r)
     /\ UNCHANGED <<known, evictions>>

-----------------------------------------------------------------------------
(***************************************************************************)
(* The owner's operations.  Ids are random: a deleted credential is gone.  *)
(***************************************************************************)
createCredential(c, a) ==
  /\ rows.vault /\ c \notin known.created
  /\ a.grant # 0 => granted < MaxGrant
  /\ granted' = IF a.grant # 0 THEN granted + 1 ELSE granted
  /\ rows' = [rows EXCEPT !.credential[c] = {a}]
  /\ known' = [known EXCEPT !.created = @ \cup {c}]
  /\ UNCHANGED <<call, gate, evictions>>

\* Another token, expiry or grant; whatever it changes, it clears what is known of the
\* refresh.
rotate(c, expires, regrant) ==
  LET a == Auth(c)
  IN /\ rows.vault /\ rows.credential[c] # {} /\ known.rotations[c] < MaxRotation
     /\ a.type = "static" => expires = a.expires /\ ~regrant
     /\ regrant => a.grant # 0 /\ granted < MaxGrant
     /\ granted' = IF regrant THEN granted + 1 ELSE granted
     /\ rows' = [rows EXCEPT
          !.credential[c] = {[a EXCEPT !.expires = expires,
                                       !.grant = IF regrant THEN granted + 1 ELSE @,
                                       !.era = @ + 1]},
          !.refresh[c] = {}, !.rejected = @ \ {c}]
     /\ known' = [known EXCEPT !.unknown = @ \ {a.grant}, !.refused = @ \ {a.grant},
                               !.rotations[c] = @ + 1]
     /\ UNCHANGED <<call, gate, evictions>>

deleteCredential(c) ==
  /\ rows.vault /\ rows.credential[c] # {}
  /\ rows' = [rows EXCEPT !.credential[c] = {}, !.refresh[c] = {}, !.rejected = @ \ {c}]
  /\ UNCHANGED <<call, gate, granted, known, evictions>>

\* delete: the vault and its credentials, not what is known of their refresh.
deleteVault ==
  /\ rows.vault
  /\ rows' = [rows EXCEPT !.vault = FALSE, !.credential = [c \in Credential |-> {}]]
  /\ UNCHANGED <<call, gate, granted, known, evictions>>

Ages(c) ==
  /\ rows.credential[c] # {} /\ Auth(c).expires \in {"later", "soon"}
  /\ rows' = [rows EXCEPT !.credential[c] =
                {[Auth(c) EXCEPT !.expires = IF @ = "later" THEN "soon" ELSE "over"]}]
  /\ UNCHANGED <<call, gate, granted, known, evictions>>

\* Calls and gate go; what was being exchanged may have been taken.
EvictCatalog ==
  /\ evictions < MaxEvict /\ evictions' = evictions + 1
  /\ known' = [known EXCEPT !.unknown =
                 @ \cup UNION {Lost(r) : r \in {q \in Caller : call[q].pc = "exchange"}}]
  /\ call' = [r \in Caller |-> NoCall] /\ gate' = <<>>
  /\ UNCHANGED <<rows, granted>>

VaultInit ==
  /\ rows = [vault |-> TRUE, credential |-> [c \in Credential |-> {}],
             refresh |-> [c \in Credential |-> {}], rejected |-> {}]
  /\ call = [r \in Caller |-> NoCall] /\ gate = <<>>
  /\ granted = 0 /\ evictions = 0
  /\ known = [unknown |-> {}, refused |-> {}, created |-> {},
              rotations |-> [c \in Credential |-> 0]]

Exchange(r) ==
  \/ Unknown(r) \/ (\E b \in BOOLEAN : Refused(r, b))
  \/ \E grant \in 1..MaxGrant : Renewed(r, grant)

VaultNext ==
  \/ \E r \in Caller : (\E c \in Credential : token(r, c)) \/ refresh(r) \/ Exchange(r)
  \/ \E c \in Credential :
       \/ \E a \in {Bearer, OAuth(0), OAuth(granted + 1)} : createCredential(c, a)
       \/ \E regrant \in BOOLEAN, a \in rows.credential[c] :
            \E expires \in {"never", "later", a.expires} : rotate(c, expires, regrant)
       \/ deleteCredential(c) \/ Ages(c)
  \/ deleteVault \/ EvictCatalog

\* The object runs what it can, and an exchange ends: it has a timeout.
VaultFairness == \A r \in Caller : WF_vaultVars(refresh(r)) /\ WF_vaultVars(Exchange(r))

VaultSpec == VaultInit /\ [][VaultNext]_vaultVars /\ VaultFairness

-----------------------------------------------------------------------------
(***************************************************************************)
(* Properties                                                              *)
(***************************************************************************)
\* A refresh token is not sent again after an exchange whose answer was lost, or after
\* the endpoint refused it, by this call, by one that waited, or after an eviction,
\* until the owner rotates the credential.
NoReplay ==
  [][\A r \in Caller :
       call[r].pc = "gate" /\ call'[r].pc = "exchange" =>
         {a.grant : a \in call'[r].auth} \cap (known.unknown \cup known.refused) = {}]_vaultVars

\* What the owner wrote last is what is stored: a refresh that was out meanwhile does
\* not bring back what the rotation replaced, nor a deleted credential.
RotationWins ==
  \A c \in Credential :
    /\ \A a \in rows.credential[c] : a.era = known.rotations[c]
    /\ ~rows.vault => rows.credential[c] = {}

\* A grant is used once while its use is in doubt, and never comes back over what the
\* owner wrote since.
GrantsHold == NoReplay /\ []RotationWins

\* The gate is shared by every credential, and no call waits at it forever.
TokenAnswered == \A r \in Caller : call[r].pc = "gate" ~> call[r].pc = "free"
=============================================================================
