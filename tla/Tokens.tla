------------------------------- MODULE Tokens -------------------------------
(***************************************************************************)
(* The bearer tokens of the read routes (voxterm_transcript_sink/auth.py): *)
(* a dictionary in memory from token to expiry. The tiers are left out,    *)
(* since both of them may read; so are requests for a token with a wrong   *)
(* secret, which change nothing.                                           *)
(*                                                                         *)
(* Expiry is compared with the wall clock, which may be set, back too.     *)
(***************************************************************************)
EXTENDS Integers

CONSTANTS
  Token,     \* what secrets.token_urlsafe() may give
  Lifetime,  \* token_ttl_seconds, in ticks of the clock
  LastTick   \* bound: the clock shows 0 .. LastTick

ASSUME ClockAssumption == Lifetime \in Nat /\ LastTick \in Nat

VARIABLES
  tokens,  \* token -> its expiry
  clock,   \* what datetime.now() returns
  refused  \* history: the tokens a client presented in vain

tokenVars == <<tokens, clock, refused>>

NoTokens == [tk \in {} |-> 0]

TokensInit ==
  /\ tokens = NoTokens
  /\ clock = 0
  /\ refused = {}

-----------------------------------------------------------------------------
\* The token is in the dictionary and has not expired: tier_of() returns a tier.
Valid(tk) == tk \in DOMAIN tokens /\ tokens[tk] >= clock

\* issue(), for a right secret. A token is new: it is not in the dictionary, and
\* none that was refused is given out again.
Issue(tk) ==
  /\ tk \notin DOMAIN tokens \cup refused
  /\ tokens' = [t \in DOMAIN tokens \cup {tk} |->
                  IF t = tk THEN clock + Lifetime ELSE tokens[t]]
  /\ UNCHANGED <<clock, refused>>

\* tier_of() returns "public": the token is unknown, or has expired and is
\* dropped. (RefuseAndKeep and the other definitions that stand before the one
\* they resemble are faulty variants: the properties are tested against them,
\* nothing uses them.)
RefuseAndKeep(tk) ==
  /\ ~Valid(tk)
  /\ refused' = refused \cup {tk}
  /\ UNCHANGED <<tokens, clock>>
Refuse(tk) ==
  /\ ~Valid(tk)
  /\ tokens' = [t \in DOMAIN tokens \ {tk} |-> tokens[t]]
  /\ refused' = refused \cup {tk}
  /\ UNCHANGED clock

\* The wall clock runs, or is set.
ClockMoves ==
  /\ clock' \in 0 .. LastTick
  /\ UNCHANGED <<tokens, refused>>

-----------------------------------------------------------------------------
\* Properties.

\* A client whose token was refused once gets in with it never again, whatever
\* is done to the clock: expiry is final once it was noticed (auth.py:56-58).
RefusedStaysRefused == \A tk \in refused : ~Valid(tk)
=============================================================================
