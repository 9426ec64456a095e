------------------------------- MODULE SignIn -------------------------------
(***************************************************************************)
(* Signing in to accounts (routes/auth.rs over the tables otps, users and  *)
(* refresh_tokens): one-time codes, accounts, and refresh tokens that are  *)
(* rotated.  Each handler is the statements it sends to the database, one  *)
(* step each, so that the handlers of several calls interleave; a call may *)
(* end after any of them (a database error, or the service stops).         *)
(* Access tokens are not modelled: nothing is stored of them.              *)
(***************************************************************************)
EXTENDS Integers, Sequences

CONSTANTS
  Emails,
  Codes,          \* what a generated code can be: two e-mails with one code, or one twice
  Calls,          \* handlers that can run at a time
  MaxOtps,        \* bound: rows of otps
  MaxTokens,      \* bound: rows of refresh_tokens
  MaxCalls        \* bound: calls of all handlers

ASSUME SignInAssumption == {MaxOtps, MaxTokens, MaxCalls} \subseteq Nat

VARIABLES
  users,          \* table: e-mails with an account (email is UNIQUE)
  otps,           \* table: [email, code, used, expired]
  refresh_tokens, \* table: [user, revoked, expired]
  call,           \* call -> where its handler is, and the rows it goes by
  calls           \* bound: so far

signInVars == <<users, otps, refresh_tokens, call, calls>>

NoEmail == "no-email"

ASSUME NoEmailAssumption == NoEmail \notin Emails

Over == [pc |-> "over", email |-> NoEmail, codes |-> {}, token |-> 0]

SignInInit ==
  /\ users = {} /\ otps = << >> /\ refresh_tokens = << >>
  /\ call = [c \in Calls |-> Over]
  /\ calls = 0

\* A call begins; what it then does is the record r.
Begins(c, r) ==
  /\ call[c] = Over /\ calls < MaxCalls
  /\ calls' = calls + 1
  /\ call' = [call EXCEPT ![c] = r]

Continues(c, pc) == call' = [call EXCEPT ![c].pc = pc] /\ UNCHANGED calls

Ends(c) == call' = [call EXCEPT ![c] = Over] /\ UNCHANGED calls

\* request_otp: also for an e-mail without an account.  The mail may not get through.
RequestOtp(e, k) ==
  /\ Len(otps) < MaxOtps
  /\ otps' = Append(otps, [email |-> e, code |-> k, used |-> FALSE, expired |-> FALSE])
  /\ UNCHANGED <<users, refresh_tokens, call, calls>>

\* Ten minutes, and thirty days, go by.
OtpExpires(i) ==
  /\ i \in DOMAIN otps /\ ~otps[i].expired
  /\ otps' = [otps EXCEPT ![i].expired = TRUE]
  /\ UNCHANGED <<users, refresh_tokens, call, calls>>

TokenExpires(t) ==
  /\ t \in DOMAIN refresh_tokens /\ ~refresh_tokens[t].expired
  /\ refresh_tokens' = [refresh_tokens EXCEPT ![t].expired = TRUE]
  /\ UNCHANGED <<users, otps, call, calls>>

\* Seeded mistake: a code that was used goes on to work until it expires.
UsableUntilExpiry(e, k) ==
  {i \in DOMAIN otps : otps[i].email = e /\ otps[i].code = k /\ ~otps[i].expired}

Usable(e, k) ==
  {i \in DOMAIN otps : otps[i].email = e /\ otps[i].code = k /\ ~otps[i].used /\ ~otps[i].expired}

\* Otp::verify: one UPDATE finds the code and uses it up, before anything else is looked at.
Verify(c, e, k, pc) ==
  /\ LET codes == Usable(e, k)
     IN  /\ otps' = [i \in DOMAIN otps |-> IF i \in codes THEN [otps[i] EXCEPT !.used = TRUE] ELSE otps[i]]
         /\ Begins(c, IF codes = {} THEN Over
                      ELSE [pc |-> pc, email |-> e, codes |-> codes, token |-> 0])
  /\ UNCHANGED <<users, refresh_tokens>>

VerifyOtp(c, e, k) == Verify(c, e, k, "signing-in")

Signup(c, e, k) == Verify(c, e, k, "signing-up")

\* The code was right; there must be an account to sign in to, and none to sign up for.
FindUser(c) ==
  /\ call[c].pc \in {"signing-in", "signing-up"}
  /\ CASE call[c].pc = "signing-in" /\ call[c].email \in users -> Continues(c, "session")
       [] call[c].pc = "signing-up" /\ call[c].email \notin users -> Continues(c, "create")
       [] OTHER -> Ends(c)
  /\ UNCHANGED <<users, otps, refresh_tokens>>

\* dev_login: the account is found, or else created.
DevLogin(c, e) ==
  /\ Begins(c, [pc |-> IF e \in users THEN "session" ELSE "create",
                email |-> e, codes |-> {}, token |-> 0])
  /\ UNCHANGED <<users, otps, refresh_tokens>>

\* User::create: fails when another call has created the account meanwhile.
CreateUser(c) ==
  /\ call[c].pc = "create"
  /\ users' = users \cup {call[c].email}
  /\ IF call[c].email \in users THEN Ends(c) ELSE Continues(c, "session")
  /\ UNCHANGED <<otps, refresh_tokens>>

\* RefreshToken::create, and the answer.
CreateToken(c) ==
  /\ call[c].pc = "session" /\ Len(refresh_tokens) < MaxTokens
  /\ refresh_tokens' = Append(refresh_tokens,
                              [user |-> call[c].email, revoked |-> FALSE, expired |-> FALSE])
  /\ Ends(c)
  /\ UNCHANGED <<users, otps>>

\* RefreshToken::find_valid (the JWT expires with the row).
Valid(t) == t \in DOMAIN refresh_tokens /\ ~refresh_tokens[t].revoked /\ ~refresh_tokens[t].expired

Presents(c, t, pc) ==
  /\ t \in DOMAIN refresh_tokens
  /\ Begins(c, IF Valid(t)
               THEN [pc |-> pc, email |-> refresh_tokens[t].user, codes |-> {}, token |-> t]
               ELSE Over)
  /\ UNCHANGED <<users, otps, refresh_tokens>>

\* refresh_token (its user is found: accounts are not deleted).
Refresh(c, t) == Presents(c, t, "rotate")

Logout(c, t) == Presents(c, t, "log-out")

\* The token that was presented is revoked; a refresh goes on to create the next one.
Revoke(c) ==
  /\ call[c].pc \in {"rotate", "log-out"}
  /\ refresh_tokens' = [refresh_tokens EXCEPT ![call[c].token].revoked = TRUE]
  /\ IF call[c].pc = "rotate" THEN Continues(c, "session") ELSE Ends(c)
  /\ UNCHANGED <<users, otps>>

CallFails(c) ==
  /\ call[c] # Over
  /\ Ends(c)
  /\ UNCHANGED <<users, otps, refresh_tokens>>

SignInNext ==
  \/ \E e \in Emails, k \in Codes : RequestOtp(e, k)
  \/ \E i \in 1 .. MaxOtps : OtpExpires(i)
  \/ \E t \in 1 .. MaxTokens : TokenExpires(t)
  \/ \E c \in Calls :
       \/ \E e \in Emails, k \in Codes : VerifyOtp(c, e, k) \/ Signup(c, e, k)
       \/ \E e \in Emails : DevLogin(c, e)
       \/ \E t \in 1 .. MaxTokens : Refresh(c, t) \/ Logout(c, t)
       \/ FindUser(c) \/ CreateUser(c) \/ CreateToken(c) \/ Revoke(c) \/ CallFails(c)

-----------------------------------------------------------------------------
SignInTypeOK ==
  /\ users \subseteq Emails
  /\ otps \in Seq([email : Emails, code : Codes, used : BOOLEAN, expired : BOOLEAN])
  /\ refresh_tokens \in Seq([user : users, revoked : BOOLEAN, expired : BOOLEAN])
  /\ call \in [Calls -> [pc : {"over", "signing-in", "signing-up", "create", "session", "rotate", "log-out"},
                         email : Emails \cup {NoEmail}, codes : SUBSET DOMAIN otps,
                         token : 0 .. Len(refresh_tokens)]]
  /\ calls \in 0 .. MaxCalls

\* A code opens one session at most, and a token none after it was revoked: whichever calls
\* are under way, no further one goes by a code that is used or by a token that is revoked.
SpentIsSpent ==
  [][\A c \in Calls :
       /\ \A i \in call'[c].codes : otps[i].used => i \in call[c].codes
       /\ \A t \in DOMAIN refresh_tokens :
            (refresh_tokens[t].revoked /\ call'[c].token = t) => call[c].token = t]_signInVars

=============================================================================
