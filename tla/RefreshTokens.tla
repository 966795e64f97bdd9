----------------------------- MODULE RefreshTokens -----------------------------
(* Rendly's rotating refresh tokens (persistence/refresh_store.py).  A login     *)
(* starts a family; each rotation marks the presented token used and mints its   *)
(* successor; presenting a used token revokes the family.                        *)
(*                                                                              *)
(* The endpoints run in threads over one database.  rotate is split where        *)
(* another transaction can commit in between: the lock of the token row, the     *)
(* read of the family row (not locked), and the writes with their commit.        *)
EXTENDS Integers, FiniteSets, Functions

CONSTANTS
    Families,
    MaxGeneration,  \* bound on the tokens of a family
    Presenters,     \* rotate calls in progress at once
    NoPresenter

ASSUME RefreshAssumption == MaxGeneration \in Nat /\ NoPresenter \notin Presenters

Tokens == Families \X (0..MaxGeneration)   \* <<family, generation>>

VARIABLES
    family,     \* family[f]: "none", "active" or "revoked"
    token,      \* rows of refresh_tokens: see Minted
    present,    \* present[p]: where a rotate call is, its token, what it read
    tokenHeld,  \* tokenHeld[t]: the call that holds t's row lock
    finished    \* history: finished[t]: rotate calls answered for t, up to 2

refreshVars == <<family, token, present, tokenHeld, finished>>

NotPresenting == [at |-> "idle", tok |-> <<>>, active |-> FALSE, used |-> FALSE]

RefreshInit ==
    /\ family = [f \in Families |-> "none"]
    /\ token = {}
    /\ present = [p \in Presenters |-> NotPresenting]
    /\ tokenHeld = [t \in Tokens |-> NoPresenter]
    /\ finished = [t \in Tokens |-> 0]

\* A token row: its name, whether it was used, and the call that minted it.
Minted(t, by) == [tok |-> t, used |-> FALSE, by |-> by]
TokenRows(t) == {row \in token : row.tok = t}

-----------------------------------------------------------------------------
issue(f) ==
    /\ family[f] = "none"
    /\ family' = [family EXCEPT ![f] = "active"]
    /\ token' = token \cup {Minted(<<f, 0>>, NoPresenter)}
    /\ UNCHANGED <<present, tokenHeld, finished>>

\* rotate: SELECT ... FOR UPDATE of the presented token (an unknown one is
\* refused, which changes nothing).
SelectForUpdate(p, t) ==
    /\ present[p].at = "idle" /\ TokenRows(t) # {}
    /\ tokenHeld[t] = NoPresenter
    /\ tokenHeld' = [tokenHeld EXCEPT ![t] = p]
    /\ present' = [present EXCEPT ![p] = [NotPresenting EXCEPT !.at = "locked", !.tok = t,
           !.used = \A row \in TokenRows(t) : row.used]]
    /\ UNCHANGED <<family, token, finished>>

ReadFamily(p) ==
    /\ present[p].at = "locked"
    /\ present' = [present EXCEPT ![p].at = "read",
                                  ![p].active = family[present[p].tok[1]] = "active"]
    /\ UNCHANGED <<family, token, tokenHeld, finished>>

EndRotate(p) ==
    /\ tokenHeld' = [tokenHeld EXCEPT ![present[p].tok] = NoPresenter]
    /\ present' = [present EXCEPT ![p] = NotPresenting]

\* The call answered t with a successor or with a detected reuse (counted to 2).
Finish(t) == finished' = [finished EXCEPT ![t] = IF @ < 2 THEN @ + 1 ELSE 2]

\* A revoked family or an expired token is refused and nothing is written; so is
\* a commit that fails.
RotateRefused(p) ==
    /\ present[p].at = "read"
    /\ EndRotate(p)
    /\ UNCHANGED <<family, token, finished>>

RotateReuse(p) ==
    /\ present[p].at = "read" /\ present[p].active /\ present[p].used
    /\ family' = [family EXCEPT ![present[p].tok[1]] = "revoked"]
    /\ EndRotate(p) /\ Finish(present[p].tok)
    /\ UNCHANGED token

RotateMints(p) ==
    LET t == present[p].tok
    IN  /\ present[p].at = "read" /\ present[p].active /\ ~present[p].used
        /\ t[2] < MaxGeneration
        /\ token' = {IF row.tok = t THEN [row EXCEPT !.used = TRUE] ELSE row : row \in token}
                    \cup {Minted(<<t[1], t[2] + 1>>, p)}
        /\ EndRotate(p) /\ Finish(t)
        /\ UNCHANGED family

\* revoke (logout): one UPDATE of the family of the presented token.
revoke(t) ==
    /\ TokenRows(t) # {}
    /\ family' = [family EXCEPT ![t[1]] = "revoked"]
    /\ UNCHANGED <<token, present, tokenHeld, finished>>

RefreshNext ==
    \/ \E f \in Families : issue(f)
    \/ \E p \in Presenters :
          \/ \E t \in Tokens : SelectForUpdate(p, t)
          \/ ReadFamily(p) \/ RotateRefused(p) \/ RotateReuse(p) \/ RotateMints(p)
    \/ \E t \in Tokens : revoke(t)

RefreshSpec == RefreshInit /\ [][RefreshNext]_refreshVars

-----------------------------------------------------------------------------
\* A family never has two tokens that could still be used, however many calls
\* present the same one at once (rotate, the row lock).
OneLiveToken ==
    \A f \in Families : Cardinality({row \in token : row.tok[1] = f /\ ~row.used}) <= 1

\* Once two calls have been answered for the same token, its family is revoked,
\* whichever of the two came first (rotate, reuse detection).
ReuseIsCaught == \A t \in Tokens : finished[t] >= 2 => family[t[1]] = "revoked"

\* A token is rotated once: one live successor, and a second use ends the family (rotate).
TokensRotate == OneLiveToken /\ ReuseIsCaught
=============================================================================
