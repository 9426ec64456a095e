-------------------------- MODULE BackOfficeProofs --------------------------
(***************************************************************************)
(* Theorems about the parts of accounts beside the orders of the exchange, *)
(* for any number of users, calls, claims, orders, settlements, amounts    *)
(* and interval lengths.  One part runs at a time, so that each has its    *)
(* own invariant: what the handlers of sign-in go by exists; the ledger    *)
(* holds what the balances and the pending orders say, and the faucet has  *)
(* its claims in the order of time; a candle holds what its parts hold but *)
(* for the settlements that have come to the parts and not yet to it.      *)
(***************************************************************************)
EXTENDS BackOffice, SumsProofs, SequenceTheorems, FiniteSetTheorems

-----------------------------------------------------------------------------
(* Signing in.                                                             *)

\* What a handler goes by: rows that exist, and an account once it has found one.
CallOK(r) ==
  /\ r \in [pc : {"over", "signing-in", "signing-up", "create", "session", "rotate", "log-out"},
            email : Emails \cup {NoEmail}, codes : SUBSET DOMAIN otps,
            token : 0 .. Len(refresh_tokens)]
  /\ r.pc \in {"session", "rotate"} => r.email \in users
  /\ r.pc # "over" => r.email \in Emails

Otp == [email : Emails, code : Codes, used : BOOLEAN, expired : BOOLEAN]

Token(us) == [user : us, revoked : BOOLEAN, expired : BOOLEAN]

TablesOK ==
  /\ users \subseteq Emails
  /\ otps \in Seq(Otp)
  /\ refresh_tokens \in Seq(Token(users))
  /\ calls \in 0 .. MaxCalls

CallsOK == call \in [Calls -> {call[c] : c \in Calls}] /\ \A c \in Calls : CallOK(call[c])

SInv == TablesOK /\ CallsOK

LEMMA SInvType == SInv => SignInTypeOK
  BY DEF SInv, TablesOK, Otp, Token, CallsOK, CallOK, SignInTypeOK

LEMMA SignInStarts == SignInInit => SInv
<1> SUFFICES ASSUME SignInInit PROVE SInv
  OBVIOUS
<1>1. TablesOK
  BY SignInAssumption DEF SignInInit, TablesOK
<1>2. CallOK(Over)
  BY DEF SignInInit, CallOK, Over
<1>3. CallsOK
  BY <1>2 DEF SignInInit, CallsOK
<1> QED BY <1>1, <1>3 DEF SInv

\* The tables only grow; a row keeps its place.
Grows ==
  /\ users \subseteq users'
  /\ DOMAIN otps \subseteq DOMAIN otps'
  /\ Len(refresh_tokens) <= Len(refresh_tokens')

LEMMA CallKept ==
  ASSUME SInv, TablesOK', Grows, NEW r, CallOK(r)
  PROVE  CallOK(r)'
<1>1. Len(refresh_tokens) \in Nat /\ Len(refresh_tokens') \in Nat
  BY DEF SInv, TablesOK
<1>2. 0 .. Len(refresh_tokens) \subseteq 0 .. Len(refresh_tokens')
  BY <1>1 DEF Grows
<1> QED BY <1>2 DEF CallOK, Grows

LEMMA CallsKept ==
  ASSUME SInv, TablesOK', Grows, UNCHANGED call
  PROVE  SInv'
<1>1. \A c \in Calls : CallOK(call[c])'
  BY CallKept DEF SInv, CallsOK
<1> QED BY <1>1 DEF SInv, CallsOK

LEMMA CallTaken ==
  ASSUME SInv, TablesOK', Grows, NEW c \in Calls, NEW r, CallOK(r)',
         call' = [call EXCEPT ![c] = r]
  PROVE  SInv'
<1>1. \A d \in Calls : call'[d] = IF d = c THEN r ELSE call[d]
  BY DEF SInv, CallsOK
<1>2. ASSUME NEW d \in Calls PROVE CallOK(call[d])'
  <2>1. CASE d = c
    BY <1>1, <2>1
  <2>2. CASE d # c
    <3>1. CallOK(call[d])
      BY DEF SInv, CallsOK
    <3>2. \A s : CallOK(s) => CallOK(s)'
      BY CallKept
    <3> QED BY <1>1, <2>2, <3>1, <3>2
  <2> QED BY <2>1, <2>2
<1>3. call' \in [Calls -> {call'[d] : d \in Calls}]
  BY DEF SInv, CallsOK
<1> QED BY <1>2, <1>3 DEF SInv, CallsOK

LEMMA RowFacts ==
  ASSUME NEW R, NEW s \in Seq(R)
  PROVE  /\ Len(s) \in Nat /\ DOMAIN s = 1 .. Len(s) /\ \A i \in DOMAIN s : s[i] \in R
         /\ \A r \in R : /\ Append(s, r) \in Seq(R) /\ Len(Append(s, r)) = Len(s) + 1
                         /\ DOMAIN Append(s, r) = 1 .. Len(s) + 1
                         /\ \A i \in DOMAIN s : Append(s, r)[i] = s[i]
                         /\ Append(s, r)[Len(s) + 1] = r
         /\ \A t : (DOMAIN t = DOMAIN s /\ t = [i \in DOMAIN s |-> t[i]] /\ \A i \in DOMAIN s : t[i] \in R)
                     => t \in Seq(R) /\ Len(t) = Len(s)
<1>1. /\ Len(s) \in Nat /\ DOMAIN s = 1 .. Len(s) /\ \A i \in DOMAIN s : s[i] \in R
  OBVIOUS
<1>2. ASSUME NEW r \in R
      PROVE  /\ Append(s, r) \in Seq(R) /\ Len(Append(s, r)) = Len(s) + 1
             /\ DOMAIN Append(s, r) = 1 .. Len(s) + 1
             /\ \A i \in DOMAIN s : Append(s, r)[i] = s[i]
             /\ Append(s, r)[Len(s) + 1] = r
  BY AppendProperties
<1>3. ASSUME NEW t, DOMAIN t = DOMAIN s, t = [i \in DOMAIN s |-> t[i]], \A i \in DOMAIN s : t[i] \in R
      PROVE  t \in Seq(R) /\ Len(t) = Len(s)
  <2>1. t \in [1 .. Len(s) -> R]
    BY <1>1, <1>3
  <2> QED BY <1>1, <2>1
<1> QED BY <1>1, <1>2, <1>3

\* What a step does to a handler: nothing, or it goes on by these rows.
Takes(c, r) == call' = [call EXCEPT ![c] = r]

LEMMA CallFacts ==
  ASSUME SInv, NEW c \in Calls
  PROVE  /\ CallOK(call[c]) /\ CallOK(Over)
         /\ \A pc \in {"session", "create"} : Continues(c, pc) => Takes(c, [call[c] EXCEPT !.pc = pc])
         /\ Ends(c) => Takes(c, Over)
         /\ \A r : Begins(c, r) => Takes(c, r)
<1>1. CallOK(call[c])
  BY DEF SInv, CallsOK
<1>2. CallOK(Over)
  <2>1. Len(refresh_tokens) \in Nat
    BY DEF SInv, TablesOK
  <2> QED BY <2>1 DEF CallOK, Over
<1> QED BY <1>1, <1>2 DEF Continues, Ends, Begins, Takes

LEMMA TablesKept ==
  ASSUME SInv, UNCHANGED <<users, otps, refresh_tokens>>, calls' \in 0 .. MaxCalls
  PROVE  TablesOK' /\ Grows
<1>1. Len(refresh_tokens) \in Nat
  BY DEF SInv, TablesOK
<1> QED BY <1>1 DEF SInv, TablesOK, Grows

LEMMA CallCounted ==
  ASSUME SInv, NEW c \in Calls, NEW r, Begins(c, r)
  PROVE  calls' \in 0 .. MaxCalls
  BY SignInAssumption DEF SInv, TablesOK, Begins

LEMMA OtpsStep ==
  ASSUME SInv,
         \/ \E i \in 1 .. MaxOtps : OtpExpires(i)
         \/ \E e \in Emails, k \in Codes :
              \/ RequestOtp(e, k)
              \/ \E c \in Calls : VerifyOtp(c, e, k) \/ Signup(c, e, k)
  PROVE  SInv'
<1>1. /\ Len(otps) \in Nat /\ DOMAIN otps = 1 .. Len(otps) /\ \A j \in DOMAIN otps : otps[j] \in Otp
      /\ otps \in Seq(Otp) /\ Len(refresh_tokens) \in Nat
  <2>1. otps \in Seq(Otp) /\ refresh_tokens \in Seq(Token(users))
    BY DEF SInv, TablesOK
  <2> QED BY <2>1, RowFacts
<1>2. ASSUME NEW e \in Emails, NEW k \in Codes, RequestOtp(e, k)
      PROVE  SInv'
  <2> DEFINE r == [email |-> e, code |-> k, used |-> FALSE, expired |-> FALSE]
  <2>1. r \in Otp
    BY DEF Otp
  <2>2. otps' \in Seq(Otp) /\ DOMAIN otps \subseteq DOMAIN otps'
    <3>1. otps' = Append(otps, r)
      BY <1>2 DEF RequestOtp
    <3> HIDE DEF r
    <3> QED BY <1>1, <2>1, <3>1, RowFacts
  <2>3. TablesOK' /\ Grows
    <3>1. UNCHANGED <<users, refresh_tokens, calls>>
      BY <1>2 DEF RequestOtp
    <3> QED BY <1>1, <2>2, <3>1 DEF SInv, TablesOK, Grows
  <2> QED BY <1>2, <2>3, CallsKept DEF RequestOtp
<1>3. ASSUME NEW i, OtpExpires(i)
      PROVE  SInv'
  <2>1. otps' \in Seq(Otp) /\ DOMAIN otps \subseteq DOMAIN otps'
    <3>1. /\ DOMAIN otps' = DOMAIN otps /\ otps' = [j \in DOMAIN otps |-> otps'[j]]
          /\ \A j \in DOMAIN otps : otps'[j] \in Otp
      BY <1>1, <1>3 DEF OtpExpires, Otp
    <3> QED BY <1>1, <3>1, RowFacts
  <2>2. TablesOK' /\ Grows
    BY <1>1, <1>3, <2>1 DEF SInv, TablesOK, OtpExpires, Grows
  <2> QED BY <1>3, <2>2, CallsKept DEF OtpExpires
<1>4. ASSUME NEW c \in Calls, NEW e \in Emails, NEW k \in Codes,
             NEW pc \in {"signing-in", "signing-up"}, Verify(c, e, k, pc)
      PROVE  SInv'
  <2>1. otps' \in Seq(Otp) /\ DOMAIN otps = DOMAIN otps'
    <3>1. /\ DOMAIN otps' = DOMAIN otps /\ otps' = [j \in DOMAIN otps |-> otps'[j]]
          /\ \A j \in DOMAIN otps : otps'[j] \in Otp
      BY <1>1, <1>4 DEF Verify, Otp
    <3> QED BY <1>1, <3>1, RowFacts
  <2>a. PICK found : found = Usable(e, k)
    OBVIOUS
  <2>2. PICK r : /\ Begins(c, r)
                 /\ r = IF found = {} THEN Over
                        ELSE [pc |-> pc, email |-> e, codes |-> found, token |-> 0]
    BY <1>4, <2>a DEF Verify
  <2>3. TablesOK' /\ Grows
    <3>1. UNCHANGED <<users, refresh_tokens>>
      BY <1>4 DEF Verify
    <3>2. calls' \in 0 .. MaxCalls
      BY <2>2, CallCounted
    <3>3. TablesOK'
      BY <2>1, <3>1, <3>2 DEF SInv, TablesOK
    <3>4. Grows
      BY <1>1, <2>1, <3>1 DEF Grows
    <3> QED BY <3>3, <3>4
  <2>4. found \in SUBSET DOMAIN otps'
    BY <2>1, <2>a DEF Usable
  <2>5. CallOK(r)'
    <3>1. CallOK(Over)'
      BY <2>3, CallFacts, CallKept
    <3>2. Len(refresh_tokens') \in Nat
      BY <1>1, <1>4 DEF Verify
    <3>3. CASE found # {}
      <4>1. CallOK([pc |-> pc, email |-> e, codes |-> found, token |-> 0])'
        <5>1. 0 \in 0 .. Len(refresh_tokens')
          BY <3>2
        <5> QED BY <2>4, <5>1 DEF CallOK
      <4> QED BY <2>2, <3>3, <4>1
    <3> QED BY <2>2, <3>1, <3>3
  <2> QED BY <2>2, <2>3, <2>5, CallFacts, CallTaken DEF Takes
<1> QED BY <1>2, <1>3, <1>4 DEF VerifyOtp, Signup

LEMMA TokensStep ==
  ASSUME SInv,
         \/ \E t \in 1 .. MaxTokens : TokenExpires(t)
         \/ \E c \in Calls : CreateToken(c) \/ Revoke(c)
  PROVE  SInv'
<1>1. /\ Len(refresh_tokens) \in Nat /\ refresh_tokens \in Seq(Token(users))
      /\ DOMAIN refresh_tokens = 1 .. Len(refresh_tokens)
      /\ \A j \in DOMAIN refresh_tokens : refresh_tokens[j] \in Token(users)
  <2>1. refresh_tokens \in Seq(Token(users))
    BY DEF SInv, TablesOK
  <2> QED BY <2>1, RowFacts
<1>2. ASSUME NEW t, TokenExpires(t)
      PROVE  SInv'
  <2>1. refresh_tokens' \in Seq(Token(users)) /\ Len(refresh_tokens') = Len(refresh_tokens)
    <3>1. /\ DOMAIN refresh_tokens' = DOMAIN refresh_tokens
          /\ refresh_tokens' = [j \in DOMAIN refresh_tokens |-> refresh_tokens'[j]]
          /\ \A j \in DOMAIN refresh_tokens : refresh_tokens'[j] \in Token(users)
      BY <1>1, <1>2 DEF TokenExpires, Token
    <3> QED BY <1>1, <3>1, RowFacts
  <2>2. TablesOK' /\ Grows
    BY <1>1, <1>2, <2>1 DEF SInv, TablesOK, TokenExpires, Grows
  <2> QED BY <1>2, <2>2, CallsKept DEF TokenExpires
<1>3. ASSUME NEW c \in Calls, CreateToken(c)
      PROVE  SInv'
  <2> DEFINE r == [user |-> call[c].email, revoked |-> FALSE, expired |-> FALSE]
  <2>1. r \in Token(users)
    BY <1>3 DEF Token, CreateToken, SInv, CallsOK, CallOK
  <2>2. refresh_tokens' \in Seq(Token(users)) /\ Len(refresh_tokens') = Len(refresh_tokens) + 1
    <3>1. refresh_tokens' = Append(refresh_tokens, r)
      BY <1>3 DEF CreateToken
    <3> HIDE DEF r
    <3> QED BY <1>1, <2>1, <3>1, RowFacts
  <2>3. TablesOK' /\ Grows
    BY <1>1, <1>3, <2>2 DEF SInv, TablesOK, CreateToken, Ends, Grows
  <2>4. CallOK(Over)'
    BY <2>3, CallFacts, CallKept
  <2> QED BY <1>3, <2>3, <2>4, CallFacts, CallTaken DEF CreateToken, Takes
<1>4. ASSUME NEW c \in Calls, Revoke(c)
      PROVE  SInv'
  <2>1. refresh_tokens' \in Seq(Token(users)) /\ Len(refresh_tokens') = Len(refresh_tokens)
    <3>1. /\ DOMAIN refresh_tokens' = DOMAIN refresh_tokens
          /\ refresh_tokens' = [j \in DOMAIN refresh_tokens |-> refresh_tokens'[j]]
          /\ \A j \in DOMAIN refresh_tokens : refresh_tokens'[j] \in Token(users)
      BY <1>1, <1>4, ZenonT(60) DEF Revoke, Token
    <3> QED BY <1>1, <3>1, RowFacts
  <2>2. TablesOK' /\ Grows
    <3>1. UNCHANGED <<users, otps, calls>>
      BY <1>4 DEF Revoke, Continues, Ends
    <3> QED BY <1>1, <2>1, <3>1 DEF SInv, TablesOK, Grows
  <2>3. CallOK(Over)' /\ CallOK(call[c])
    BY <2>2, CallFacts, CallKept
  <2>4. CASE call[c].pc = "rotate"
    <3> DEFINE r == [call[c] EXCEPT !.pc = "session"]
    <3>1. CallOK(r)
      BY <2>3, <2>4 DEF CallOK
    <3>2. Takes(c, r)
      BY <1>4, <2>4, CallFacts DEF Revoke
    <3> HIDE DEF r
    <3> QED BY <2>2, <3>1, <3>2, CallKept, CallTaken DEF Takes
  <2>5. CASE call[c].pc # "rotate"
    BY <1>4, <2>2, <2>3, <2>5, CallFacts, CallTaken DEF Revoke, Takes
  <2> QED BY <2>4, <2>5
<1> QED BY <1>2, <1>3, <1>4

LEMMA UsersStep ==
  ASSUME SInv, NEW c \in Calls,
         \/ FindUser(c) \/ CreateUser(c) \/ CallFails(c)
         \/ \E e \in Emails : DevLogin(c, e)
         \/ \E t \in 1 .. MaxTokens : Refresh(c, t) \/ Logout(c, t)
  PROVE  SInv'
<1>1. Len(refresh_tokens) \in Nat /\ DOMAIN refresh_tokens = 1 .. Len(refresh_tokens)
  BY DEF SInv, TablesOK
<1>2. CallOK(call[c]) /\ CallOK(Over) /\ calls \in 0 .. MaxCalls
  BY CallFacts DEF SInv, TablesOK
<1>3. ASSUME UNCHANGED <<users, otps, refresh_tokens>>, calls' \in 0 .. MaxCalls,
             NEW r, Takes(c, r), CallOK(r)
      PROVE  SInv'
  BY <1>3, TablesKept, CallKept, CallTaken DEF Takes
<1>4. CASE FindUser(c)
  <2>1. UNCHANGED <<users, otps, refresh_tokens>> /\ calls' \in 0 .. MaxCalls
    BY <1>2, <1>4 DEF FindUser, Continues, Ends
  <2>2. CASE call[c].pc = "signing-in" /\ call[c].email \in users
    <3>1. CallOK([call[c] EXCEPT !.pc = "session"])
      BY <1>2, <2>2 DEF CallOK
    <3>2. Continues(c, "session")
      BY <1>4, <2>2 DEF FindUser
    <3> QED BY <1>3, <2>1, <3>1, <3>2, CallFacts
  <2>3. CASE call[c].pc = "signing-up" /\ call[c].email \notin users
    <3>1. CallOK([call[c] EXCEPT !.pc = "create"])
      BY <1>2, <2>3 DEF CallOK
    <3>2. Continues(c, "create")
      BY <1>4, <2>3 DEF FindUser
    <3> QED BY <1>3, <2>1, <3>1, <3>2, CallFacts
  <2>4. CASE ~(call[c].pc = "signing-in" /\ call[c].email \in users)
             /\ ~(call[c].pc = "signing-up" /\ call[c].email \notin users)
    <3>1. Ends(c)
      BY <1>4, <2>4 DEF FindUser
    <3> QED BY <1>2, <1>3, <2>1, <3>1, CallFacts
  <2> QED BY <2>2, <2>3, <2>4
<1>5. CASE CreateUser(c)
  <2>1. call[c].email \in Emails
    BY <1>2, <1>5 DEF CreateUser, CallOK
  <2>2. refresh_tokens \in Seq(Token(users'))
    <3>1. \A j \in DOMAIN refresh_tokens : refresh_tokens[j] \in Token(users')
      <4>1. \A j \in DOMAIN refresh_tokens : refresh_tokens[j] \in Token(users)
        BY RowFacts DEF SInv, TablesOK
      <4>2. Token(users) \subseteq Token(users')
        BY <1>5 DEF CreateUser, Token
      <4> QED BY <4>1, <4>2
    <3>2. refresh_tokens \in [1 .. Len(refresh_tokens) -> Token(users')]
      BY <1>1, <3>1 DEF SInv, TablesOK
    <3> QED BY <1>1, <3>2
  <2>3. TablesOK' /\ Grows
    <3>1. users' = users \cup {call[c].email} /\ UNCHANGED <<otps, refresh_tokens, calls>>
      BY <1>5 DEF CreateUser, Continues, Ends
    <3> QED BY <1>1, <2>1, <2>2, <3>1 DEF SInv, TablesOK, Grows
  <2>4. CASE call[c].email \in users
    <3>1. CallOK(Over)'
      BY <1>2, <2>3, CallKept
    <3> QED BY <1>5, <2>3, <2>4, <3>1, CallFacts, CallTaken DEF CreateUser, Takes
  <2>5. CASE call[c].email \notin users
    <3>1. PICK r : r = [call[c] EXCEPT !.pc = "session"]
      OBVIOUS
    <3>2. CallOK(r)'
      <4>1. call[c].email \in users'
        BY <1>5 DEF CreateUser
      <4>2. /\ r.email = call[c].email /\ r.pc = "session" /\ r.email \in Emails
            /\ r \in [pc : {"over", "signing-in", "signing-up", "create", "session", "rotate", "log-out"},
                      email : Emails \cup {NoEmail}, codes : SUBSET DOMAIN otps',
                      token : 0 .. Len(refresh_tokens')]
        <5>1. UNCHANGED <<otps, refresh_tokens>>
          BY <1>5 DEF CreateUser
        <5> QED BY <1>2, <2>1, <3>1, <5>1 DEF CallOK
      <4> QED BY <4>1, <4>2 DEF CallOK
    <3>3. Takes(c, r)
      BY <1>5, <2>5, <3>1, CallFacts DEF CreateUser
    <3> QED BY <2>3, <3>2, <3>3, CallTaken DEF Takes
  <2> QED BY <2>4, <2>5
<1>6. CASE CallFails(c)
  <2>1. Ends(c) /\ UNCHANGED <<users, otps, refresh_tokens>> /\ calls' \in 0 .. MaxCalls
    BY <1>2, <1>6 DEF CallFails, Ends
  <2> QED BY <1>2, <1>3, <2>1, CallFacts
<1>7. ASSUME NEW e \in Emails, DevLogin(c, e)
      PROVE  SInv'
  <2> DEFINE r == [pc |-> IF e \in users THEN "session" ELSE "create",
                   email |-> e, codes |-> {}, token |-> 0]
  <2>1. CallOK(r)
    BY <1>1 DEF CallOK
  <2>2. Begins(c, r) /\ UNCHANGED <<users, otps, refresh_tokens>>
    BY <1>7 DEF DevLogin
  <2> HIDE DEF r
  <2> QED BY <1>3, <2>1, <2>2, CallFacts, CallCounted
<1>8. ASSUME NEW t, NEW pc \in {"rotate", "log-out"}, Presents(c, t, pc)
      PROVE  SInv'
  <2> DEFINE next == IF Valid(t)
                     THEN [pc |-> pc, email |-> refresh_tokens[t].user, codes |-> {}, token |-> t]
                     ELSE Over
  <2>1. CallOK(next)
    <3>1. /\ t \in DOMAIN refresh_tokens /\ users \subseteq Emails
          /\ \A j \in DOMAIN refresh_tokens : refresh_tokens[j] \in Token(users)
      BY <1>8, RowFacts DEF Presents, SInv, TablesOK
    <3>2. t \in 0 .. Len(refresh_tokens) /\ refresh_tokens[t].user \in users
      <4>1. refresh_tokens[t] \in Token(users) /\ t \in 1 .. Len(refresh_tokens)
        BY <1>1, <3>1
      <4>2. t \in 0 .. Len(refresh_tokens)
        BY <1>1, <4>1
      <4>3. \A r \in Token(users) : r.user \in users
        BY DEF Token
      <4> QED BY <4>1, <4>2, <4>3
    <3>3. CallOK([pc |-> pc, email |-> refresh_tokens[t].user, codes |-> {}, token |-> t])
      BY <3>1, <3>2 DEF CallOK
    <3> QED BY <1>2, <3>3
  <2>2. Begins(c, next) /\ UNCHANGED <<users, otps, refresh_tokens>>
    BY <1>8 DEF Presents
  <2> HIDE DEF next
  <2> QED BY <1>3, <2>1, <2>2, CallFacts, CallCounted
<1> QED BY <1>4, <1>5, <1>6, <1>7, <1>8 DEF Refresh, Logout

LEMMA SignInSteps == SInv /\ SignInNext => SInv'
  BY OtpsStep, TokensStep, UsersStep DEF SignInNext

LEMMA SignInRests == SInv /\ UNCHANGED signInVars => SInv'
<1> SUFFICES ASSUME SInv, UNCHANGED signInVars PROVE SInv'
  OBVIOUS
<1>1. UNCHANGED <<users, otps, refresh_tokens, call, calls>>
  BY DEF signInVars
<1> QED BY <1>1, TablesKept, CallsKept DEF SInv, TablesOK

\* Handlers go on by no code that is used, nor by a token that is revoked, but those that do.
SpentStep ==
  \A c \in Calls :
    /\ \A i \in call'[c].codes : otps[i].used => i \in call[c].codes
    /\ \A t \in DOMAIN refresh_tokens :
         (refresh_tokens[t].revoked /\ call'[c].token = t) => call[c].token = t

LEMMA SpentByTaking ==
  ASSUME SInv, NEW c \in Calls, NEW r, Takes(c, r),
         \A i \in r.codes : ~otps[i].used \/ i \in call[c].codes,
         \A t \in DOMAIN refresh_tokens : r.token = t => ~refresh_tokens[t].revoked \/ call[c].token = t
  PROVE  SpentStep
<1>1. \A d \in Calls : call'[d] = IF d = c THEN r ELSE call[d]
  BY DEF SInv, CallsOK, Takes
<1> QED BY <1>1 DEF SpentStep

LEMMA SpentBySame ==
  ASSUME SInv, UNCHANGED call
  PROVE  SpentStep
  BY DEF SpentStep

LEMMA SpentSteps == SInv /\ SignInNext => SpentStep
<1> SUFFICES ASSUME SInv, SignInNext PROVE SpentStep
  OBVIOUS
<1>1. \A t \in DOMAIN refresh_tokens : t # 0
  BY RowFacts DEF SInv, TablesOK
<1>2. ASSUME NEW c \in Calls, Takes(c, Over) PROVE SpentStep
  BY <1>1, <1>2, SpentByTaking DEF Over
<1>3. ASSUME NEW c \in Calls, NEW pc, Takes(c, [call[c] EXCEPT !.pc = pc]) PROVE SpentStep
  <2>1. CallOK(call[c])
    BY CallFacts
  <2>2. /\ [call[c] EXCEPT !.pc = pc].codes = call[c].codes
        /\ [call[c] EXCEPT !.pc = pc].token = call[c].token
    BY <2>1 DEF CallOK
  <2> QED BY <1>3, <2>2, SpentByTaking
<1>4. ASSUME NEW c \in Calls, NEW e, NEW k, NEW pc, Verify(c, e, k, pc) PROVE SpentStep
  <2>1. CASE Usable(e, k) = {}
    BY <1>2, <1>4, <2>1, CallFacts DEF Verify
  <2>2. CASE Usable(e, k) # {}
    <3> DEFINE r == [pc |-> pc, email |-> e, codes |-> Usable(e, k), token |-> 0]
    <3>1. Takes(c, r)
      BY <1>4, <2>2, CallFacts DEF Verify
    <3>2. r.codes = Usable(e, k) /\ r.token = 0 /\ \A i \in Usable(e, k) : ~otps[i].used
      BY DEF Usable
    <3> HIDE DEF r
    <3> QED BY <1>1, <3>1, <3>2, SpentByTaking
  <2> QED BY <2>1, <2>2
<1>5. ASSUME NEW c \in Calls, FindUser(c) \/ CreateUser(c) \/ CreateToken(c) \/ Revoke(c) \/ CallFails(c)
      PROVE  SpentStep
  <2>1. Ends(c) \/ Continues(c, "session") \/ Continues(c, "create")
    BY <1>5 DEF FindUser, CreateUser, CreateToken, Revoke, CallFails
  <2> QED BY <1>2, <1>3, <2>1, CallFacts
<1>6. ASSUME NEW c \in Calls, NEW e \in Emails, DevLogin(c, e) PROVE SpentStep
  <2>1. PICK r : r = [pc |-> IF e \in users THEN "session" ELSE "create",
                      email |-> e, codes |-> {}, token |-> 0]
    OBVIOUS
  <2>2. Takes(c, r) /\ r.codes = {} /\ r.token = 0
    BY <1>6, <2>1, CallFacts DEF DevLogin
  <2> QED BY <1>1, <2>2, SpentByTaking
<1>7. ASSUME NEW c \in Calls, NEW t, NEW pc, Presents(c, t, pc) PROVE SpentStep
  <2>1. CASE ~Valid(t)
    BY <1>2, <1>7, <2>1, CallFacts DEF Presents
  <2>2. CASE Valid(t)
    <3>1. PICK r : r = [pc |-> pc, email |-> refresh_tokens[t].user, codes |-> {}, token |-> t]
      OBVIOUS
    <3>2. Takes(c, r) /\ r.codes = {} /\ r.token = t /\ ~refresh_tokens[t].revoked
      BY <1>7, <2>2, <3>1, CallFacts DEF Presents, Valid
    <3> QED BY <3>2, SpentByTaking
  <2> QED BY <2>1, <2>2
<1>8. CASE UNCHANGED call
  BY <1>8, SpentBySame
<1> QED BY <1>4, <1>5, <1>6, <1>7, <1>8
        DEF SignInNext, RequestOtp, OtpExpires, TokenExpires, VerifyOtp, Signup, Refresh, Logout

LEMMA FunctionIsSeq ==
  ASSUME NEW R, NEW n \in Nat, NEW s \in [1 .. n -> R]
  PROVE  s \in Seq(R)
  OBVIOUS

-----------------------------------------------------------------------------
(* The ledger and the balances.                                            *)

Types == {"deposit", "withdrawal", "lock", "unlock"}

Entry == [n : 0 .. MaxEntries, account : Holdings, amount : Int, at : 0 .. Last, type : Types]

\* Ids are counted from the rows there are, so that a new row is none of them.
LedgerOK ==
  /\ time \in 0 .. Last
  /\ IsFiniteSet(ledger) /\ ledger \subseteq Entry
  /\ \A r \in ledger : r.n < Cardinality(ledger)
  /\ balances \in [Holdings -> Nat]

LEMMA BookedType ==
  ASSUME LedgerOK, NEW a, NEW types
  PROVE  Booked(a, types) \in Int
<1>1. PICK S : S = {r \in ledger : r.account = a /\ r.type \in types}
  OBVIOUS
<1>2. PICK f : f = [r \in ledger |-> r.amount]
  OBVIOUS
<1>3. S \subseteq ledger /\ IsFiniteSet(S)
  BY <1>1, FS_Subset DEF LedgerOK
<1>4. \A r \in S : f[r] \in Int
  BY <1>2, <1>3 DEF LedgerOK, Entry
<1> QED BY <1>1, <1>2, <1>3, <1>4, SumType DEF Booked

LEMMA BookedKept ==
  ASSUME NEW a, NEW types, UNCHANGED ledger
  PROVE  Booked(a, types)' = Booked(a, types)
  BY DEF Booked

LEMMA AppendBooked ==
  ASSUME LedgerOK, NEW account \in Holdings, NEW amount \in Int, NEW type \in Types,
         AppendEntry(account, amount, type), UNCHANGED time
  PROVE  /\ LedgerOK'
         /\ balances'[account] = balances[account] + amount
         /\ \A a \in Holdings \ {account} : balances'[a] = balances[a]
         /\ \A a, types : Booked(a, types)'
              = Booked(a, types) + (IF a = account /\ type \in types THEN amount ELSE 0)
<1>1. PICK r : r = [n |-> Cardinality(ledger), account |-> account, amount |-> amount,
                    type |-> type, at |-> time]
  OBVIOUS
<1>2. Cardinality(ledger) \in Nat /\ Cardinality(ledger) < MaxEntries /\ MaxEntries \in Nat
  BY FS_CardinalityType, WalletAssumption DEF LedgerOK, AppendEntry
<1>3. r \in Entry /\ r.n = Cardinality(ledger) /\ r.amount = amount
      /\ r.account = account /\ r.type = type
  BY <1>1, <1>2 DEF Entry, LedgerOK
<1>4. ledger' = ledger \cup {r} /\ r \notin ledger
  BY <1>1, <1>2, <1>3 DEF AppendEntry, LedgerOK
<1>5. IsFiniteSet(ledger') /\ Cardinality(ledger') = Cardinality(ledger) + 1
  BY <1>4, FS_AddElement DEF LedgerOK
<1>6. \A s \in ledger' : s.n < Cardinality(ledger')
  <2> TAKE s \in ledger'
  <2>1. CASE s \in ledger
    <3>1. s.n \in Int /\ s.n < Cardinality(ledger)
      BY <2>1 DEF LedgerOK, Entry
    <3> QED BY <1>2, <1>5, <3>1
  <2>2. CASE s = r
    BY <1>2, <1>3, <1>5, <2>2
  <2> QED BY <1>4, <2>1, <2>2
<1>7. /\ balances' \in [Holdings -> Nat]
      /\ balances'[account] = balances[account] + amount
      /\ \A a \in Holdings \ {account} : balances'[a] = balances[a]
  <2>1. balances \in [Holdings -> Nat]
    BY DEF LedgerOK
  <2>2. balances' = [balances EXCEPT ![account] = @ + amount] /\ balances[account] + amount >= 0
    BY DEF AppendEntry
  <2>3. balances[account] + amount \in Nat
    BY <2>1, <2>2
  <2> QED BY <2>1, <2>2, <2>3
<1>8. LedgerOK'
  BY <1>3, <1>4, <1>5, <1>6, <1>7 DEF LedgerOK
<1>9. ASSUME NEW a, NEW types
      PROVE  Booked(a, types)'
               = Booked(a, types) + (IF a = account /\ type \in types THEN amount ELSE 0)
  <2>1. PICK S, T : /\ S = {s \in ledger : s.account = a /\ s.type \in types}
                    /\ T = {s \in ledger' : s.account = a /\ s.type \in types}
    OBVIOUS
  <2>2. PICK f, g : f = [s \in ledger |-> s.amount] /\ g = [s \in ledger' |-> s.amount]
    OBVIOUS
  <2>3. S \subseteq ledger /\ IsFiniteSet(S) /\ T \subseteq ledger'
    BY <2>1, FS_Subset DEF LedgerOK
  <2>4. /\ \A s \in T : g[s] \in Int
        /\ \A s \in S : f[s] = g[s] /\ f[s] \in Int
        /\ g[r] = amount
    BY <1>3, <1>4, <1>8, <2>2, <2>3 DEF LedgerOK, Entry
  <2>5. SumOver(f, S) = SumOver(g, S)
    BY ONLY <2>3, <2>4, SumEqual
  <2>6. Booked(a, types) = SumOver(f, S)
    BY <2>1, <2>2 DEF Booked
  <2>7. Booked(a, types)' = SumOver(g, T)
    BY <2>1, <2>2 DEF Booked
  <2>8. SumOver(g, S) \in Int
    BY <2>5, <2>6, BookedType
  <2>9. CASE a = account /\ type \in types
    <3>1. T = S \cup {r} /\ r \notin S
      BY <1>3, <1>4, <2>1, <2>9
    <3>2. SumOver(g, S \cup {r}) = g[r] + SumOver(g, S)
      <4>1. \A s \in S \cup {r} : g[s] \in Int
        BY <2>4, <3>1
      <4> QED BY ONLY <2>3, <3>1, <4>1, SumAdd
    <3> QED BY <2>4, <2>5, <2>6, <2>7, <2>8, <2>9, <3>1, <3>2
  <2>10. CASE ~(a = account /\ type \in types)
    <3>1. T = S
      BY <1>3, <1>4, <2>1, <2>10
    <3> QED BY <2>5, <2>6, <2>7, <2>8, <2>10, <3>1
  <2> QED BY <2>9, <2>10
<1> QED BY <1>7, <1>8, <1>9

\* What rounding to even does: it is never off by more than a half.
LEMMA RoundDpFacts ==
  ASSUME NEW n \in Int, NEW d \in Nat \ {0}
  PROVE  /\ RoundDp(n, d) \in Int
         /\ n >= 0 => RoundDp(n, d) >= 0
         /\ -d <= 2 * (d * RoundDp(n, d)) - 2 * n /\ 2 * (d * RoundDp(n, d)) - 2 * n <= d
<1>1. PICK f \in Int, r \in Int : f = n \div d /\ r = n % d
  OBVIOUS
<1>2. n = d * f + r /\ 0 <= r /\ r < d /\ (n >= 0 => f >= 0)
  BY <1>1
<1>3. PICK m \in Int : m = d * f
  OBVIOUS
<1>4. d * (f + 1) = m + d
  BY <1>3
<1>5. RoundDp(n, d) = IF 2 * r > d \/ (2 * r = d /\ f % 2 = 1) THEN f + 1 ELSE f
  BY <1>1 DEF RoundDp
<1>6. CASE RoundDp(n, d) = f /\ 2 * r <= d
  BY <1>2, <1>3, <1>6
<1>7. CASE RoundDp(n, d) = f + 1 /\ 2 * r >= d
  BY <1>2, <1>3, <1>4, <1>7
<1> QED BY <1>2, <1>5, <1>6, <1>7

LEMMA ReconcilesAfter ==
  ASSUME LedgerOK, Reconciles, NEW account \in Holdings, NEW amount \in Int, NEW type \in Types,
         AppendEntry(account, amount, type), UNCHANGED time
  PROVE  LedgerOK' /\ Reconciles'
<1>1. LedgerOK'
  BY AppendBooked
<1>2. ASSUME NEW a \in Holdings
      PROVE  Booked(a, Types)' = balances'[a]
  <2>1. Booked(a, Types) = balances[a]
    BY DEF Reconciles, Types
  <2>2. /\ balances'[account] = balances[account] + amount
        /\ a # account => balances'[a] = balances[a]
        /\ Booked(a, Types)' = Booked(a, Types) + (IF a = account /\ type \in Types THEN amount ELSE 0)
    BY AppendBooked
  <2>3. balances[a] \in Int
    BY DEF LedgerOK
  <2> QED BY <2>1, <2>2, <2>3
<1> QED BY <1>1, <1>2 DEF Reconciles, Types

LEMMA LedgerKept ==
  ASSUME LedgerOK, Reconciles, UNCHANGED <<ledger, balances>>, time' \in 0 .. Last
  PROVE  LedgerOK' /\ Reconciles'
<1>1. LedgerOK'
  BY DEF LedgerOK
<1>2. \A a \in Holdings : Booked(a, Types)' = Booked(a, Types)
  BY BookedKept
<1> QED BY <1>1, <1>2 DEF Reconciles, Types

-----------------------------------------------------------------------------
(* The faucet.                                                             *)

ClaimRow == [user : Owners, at : 0 .. Last, checked : 0 .. Last, seen : Nat]

Handler == [pc : {"over", "credit", "record"}, user : SUBSET Owners, checked : 0 .. Last, seen : Nat]

LEMMA ClaimRowFacts ==
  ASSUME NEW r \in ClaimRow
  PROVE  r.user \in Owners /\ r.at \in Nat /\ r.checked \in Nat /\ r.seen \in Nat
  BY WalletAssumption DEF ClaimRow

\* Claims are recorded in the order of time, after they were checked.
ClaimsOK ==
  /\ faucet_claims \in Seq(ClaimRow)
  /\ \A i, j \in DOMAIN faucet_claims : i <= j => faucet_claims[i].at <= faucet_claims[j].at
  /\ \A i \in DOMAIN faucet_claims : faucet_claims[i].at <= time /\ faucet_claims[i].seen < i

\* A claim under way was checked a cooldown after every one its user had then.
Rationed(h) ==
  \A i \in DOMAIN faucet_claims :
    (faucet_claims[i].user \in h.user /\ i <= h.seen) => h.checked >= faucet_claims[i].at + Day

HandlersOK ==
  /\ claim \in [Claims -> Handler]
  /\ \A c \in Claims : claim[c].pc # "over" =>
       /\ \E u \in Owners : claim[c].user = {u}
       /\ claim[c].seen <= Len(faucet_claims)
       /\ Rationed(claim[c])

FaucetOK == ClaimsOK /\ HandlersOK /\ FaucetIsRationed

LEMMA FaucetKept ==
  ASSUME FaucetOK, UNCHANGED <<faucet_claims, claim>>, time \in Nat, time' \in Nat, time <= time'
  PROVE  FaucetOK'
<1>1. ClaimsOK'
  <2>1. \A i \in DOMAIN faucet_claims : faucet_claims[i].at \in Int
    BY RowFacts, ClaimRowFacts DEF FaucetOK, ClaimsOK
  <2> QED BY <2>1 DEF FaucetOK, ClaimsOK
<1> QED BY <1>1 DEF FaucetOK, HandlersOK, Rationed, FaucetIsRationed

\* A handler goes on, or ends.
LEMMA HandlerTaken ==
  ASSUME FaucetOK, UNCHANGED <<time, faucet_claims>>, NEW c \in Claims, NEW h \in Handler,
         claim' = [claim EXCEPT ![c] = h],
         h.pc # "over" => /\ \E u \in Owners : h.user = {u}
                          /\ h.seen <= Len(faucet_claims)
                          /\ Rationed(h)
  PROVE  FaucetOK'
<1>1. claim' \in [Claims -> Handler] /\ \A d \in Claims : claim'[d] = IF d = c THEN h ELSE claim[d]
  BY DEF FaucetOK, HandlersOK
<1>2. \A d \in Claims : claim'[d].pc # "over" =>
        /\ \E u \in Owners : claim'[d].user = {u}
        /\ claim'[d].seen <= Len(faucet_claims)
        /\ Rationed(claim'[d])
  BY <1>1 DEF FaucetOK, HandlersOK
<1>3. HandlersOK'
  BY <1>1, <1>2 DEF HandlersOK, Rationed
<1> QED BY <1>3 DEF FaucetOK, ClaimsOK, FaucetIsRationed

\* The last claim of a user is a cooldown ago when the check lets him pass, and so are those
\* before it.
LEMMA CheckedClaims ==
  ASSUME FaucetOK, time \in Nat, NEW u, ~OnCooldown(u), NEW i \in ClaimsOf(u)
  PROVE  time >= faucet_claims[i].at + Day
<1>1. /\ Len(faucet_claims) \in Nat /\ DOMAIN faucet_claims = 1 .. Len(faucet_claims)
      /\ \A j \in DOMAIN faucet_claims : faucet_claims[j] \in ClaimRow
  BY RowFacts DEF FaucetOK, ClaimsOK
<1>2. PICK n \in Nat : n = Len(faucet_claims)
  BY <1>1
<1> DEFINE K == {n - j : j \in ClaimsOf(u)}
<1>3. \A j \in ClaimsOf(u) : j \in 1 .. n
  BY <1>1, <1>2 DEF ClaimsOf
<1>4. K \in SUBSET Nat /\ K # {}
  BY <1>3
<1>5. PICK m \in K : \A k \in K : m <= k
  <2> HIDE DEF K
  <2> QED BY <1>4, LeastNumber
<1>6. PICK last \in ClaimsOf(u) : m = n - last
  OBVIOUS
<1>7. \A j \in ClaimsOf(u) : j <= last
  BY <1>3, <1>5, <1>6
<1>8. ~(time < faucet_claims[last].at + Day)
  BY <1>7 DEF OnCooldown
<1>9. faucet_claims[i].at <= faucet_claims[last].at
  <2>1. i <= last /\ i \in DOMAIN faucet_claims /\ last \in DOMAIN faucet_claims
    BY <1>7 DEF ClaimsOf
  <2> QED BY <2>1 DEF FaucetOK, ClaimsOK
<1>10. faucet_claims[i].at \in Int /\ faucet_claims[last].at \in Int /\ Day \in Int
  BY <1>1, ClaimRowFacts, WalletAssumption DEF ClaimsOf
<1> QED BY <1>8, <1>9, <1>10

LEMMA ClaimChecked ==
  ASSUME FaucetOK, time \in 0 .. Last, NEW c \in Claims, NEW u \in Owners, CheckClaim(c, u)
  PROVE  FaucetOK'
<1>1. Len(faucet_claims) \in Nat /\ time \in Nat
  BY RowFacts, WalletAssumption DEF FaucetOK, ClaimsOK
<1>2. PICK h : h = [pc |-> "credit", user |-> {u}, checked |-> time, seen |-> Len(faucet_claims)]
  OBVIOUS
<1>3. h \in Handler /\ h.user = {u} /\ h.seen <= Len(faucet_claims)
  BY <1>1, <1>2 DEF Handler
<1>4. Rationed(h)
  <2>1. \A i \in ClaimsOf(u) : time >= faucet_claims[i].at + Day
    BY <1>1, CheckedClaims DEF CheckClaim
  <2> QED BY <1>2, <2>1 DEF Rationed, ClaimsOf
<1>5. claim' = [claim EXCEPT ![c] = h] /\ UNCHANGED <<time, faucet_claims>>
  BY <1>2 DEF CheckClaim, tables
<1> QED BY <1>3, <1>4, <1>5, HandlerTaken

LEMMA ClaimCredited ==
  ASSUME FaucetOK, NEW c \in Claims, CreditClaim(c)
  PROVE  FaucetOK'
<1>1. PICK h : h = [claim[c] EXCEPT !.pc = "record"]
  OBVIOUS
<1>2. claim[c] \in Handler /\ claim[c].pc # "over"
  BY DEF FaucetOK, HandlersOK, CreditClaim
<1>3. /\ h \in Handler /\ h.user = claim[c].user /\ h.seen = claim[c].seen
      /\ h.checked = claim[c].checked
  BY <1>1, <1>2 DEF Handler
<1>4. claim' = [claim EXCEPT ![c] = h] /\ UNCHANGED <<time, faucet_claims>>
  BY <1>1 DEF CreditClaim, FaucetOK, HandlersOK
<1>5. /\ \E u \in Owners : h.user = {u}
      /\ h.seen <= Len(faucet_claims)
      /\ Rationed(h)
  BY <1>2, <1>3 DEF FaucetOK, HandlersOK, Rationed
<1> QED BY <1>3, <1>4, <1>5, HandlerTaken

LEMMA NoClaimFacts == NoClaim \in Handler /\ NoClaim.pc = "over"
  BY WalletAssumption DEF NoClaim, Handler

LEMMA ClaimRecorded ==
  ASSUME FaucetOK, time \in 0 .. Last, NEW c \in Claims, RecordClaim(c)
  PROVE  FaucetOK'
<1>1. claim[c] \in Handler /\ claim[c].pc # "over"
  BY DEF FaucetOK, HandlersOK, RecordClaim
<1>2. PICK u \in Owners : claim[c].user = {u}
  BY <1>1 DEF FaucetOK, HandlersOK
<1>3. PICK r : r = [user |-> u, at |-> time, checked |-> claim[c].checked, seen |-> claim[c].seen]
  OBVIOUS
<1>4. /\ faucet_claims' = Append(faucet_claims, r)
      /\ claim' = [claim EXCEPT ![c] = NoClaim] /\ UNCHANGED time
  BY <1>2, <1>3 DEF RecordClaim
<1>5. PICK n \in Nat : n = Len(faucet_claims)
  BY RowFacts DEF FaucetOK, ClaimsOK
<1>6. /\ r \in ClaimRow /\ r.user = u /\ r.at = time /\ r.seen <= n
      /\ r.checked = claim[c].checked /\ r.seen = claim[c].seen
  BY <1>1, <1>3, <1>5 DEF Handler, ClaimRow, FaucetOK, HandlersOK
<1>7. /\ DOMAIN faucet_claims = 1 .. n /\ DOMAIN faucet_claims' = 1 .. n + 1
      /\ Len(faucet_claims') = n + 1 /\ faucet_claims' \in Seq(ClaimRow)
      /\ \A i \in 1 .. n : faucet_claims'[i] = faucet_claims[i] /\ faucet_claims[i] \in ClaimRow
      /\ faucet_claims'[n + 1] = r
  <2>1. faucet_claims \in Seq(ClaimRow)
    BY DEF FaucetOK, ClaimsOK
  <2> QED BY <1>4, <1>5, <1>6, <2>1, RowFacts
<1>8. \A i \in 1 .. n : /\ faucet_claims[i].at \in Nat /\ faucet_claims[i].seen \in Nat
                        /\ faucet_claims[i].at <= time /\ faucet_claims[i].seen < i
                        /\ faucet_claims[i].checked \in Nat
  BY <1>7, ClaimRowFacts DEF FaucetOK, ClaimsOK
<1>9. ClaimsOK'
  <2>1. ASSUME NEW i \in 1 .. n + 1, NEW j \in 1 .. n + 1, i <= j
        PROVE  faucet_claims'[i].at <= faucet_claims'[j].at
    <3>1. CASE j = n + 1
      <4>1. CASE i = n + 1
        BY <1>6, <1>7, <3>1, <4>1
      <4>2. CASE i \in 1 .. n
        BY <1>6, <1>7, <1>8, <3>1, <4>2
      <4> QED BY <4>1, <4>2
    <3>2. CASE j \in 1 .. n
      <4>1. i \in 1 .. n
        BY <2>1, <3>2
      <4> QED BY <1>7, <2>1, <3>2, <4>1 DEF FaucetOK, ClaimsOK
    <3> QED BY <3>1, <3>2
  <2>2. ASSUME NEW i \in 1 .. n + 1
        PROVE  faucet_claims'[i].at <= time' /\ faucet_claims'[i].seen < i
    <3>1. CASE i = n + 1
      <4>1. r.seen \in Nat
        BY <1>6, ClaimRowFacts
      <4> QED BY <1>4, <1>6, <1>7, <3>1, <4>1
    <3>2. CASE i \in 1 .. n
      BY <1>4, <1>7, <1>8, <3>2
    <3> QED BY <3>1, <3>2
  <2> QED BY <1>7, <2>1, <2>2 DEF ClaimsOK
<1>10. ASSUME NEW h \in Handler, h.seen <= n, Rationed(h)
       PROVE  Rationed(h)'
  <2>1. h.seen \in Nat
    BY DEF Handler
  <2>2. \A i \in 1 .. n + 1 : i <= h.seen => i \in 1 .. n
    BY <1>10, <2>1
  <2> QED BY <1>7, <1>10, <2>2 DEF Rationed
<1>11. HandlersOK'
  <2>1. /\ claim' \in [Claims -> Handler]
        /\ \A d \in Claims : claim'[d] = IF d = c THEN NoClaim ELSE claim[d]
    BY <1>4, NoClaimFacts DEF FaucetOK, HandlersOK
  <2>2. ASSUME NEW d \in Claims, claim'[d].pc # "over"
        PROVE  /\ \E v \in Owners : claim'[d].user = {v}
               /\ claim'[d].seen <= Len(faucet_claims')
               /\ Rationed(claim[d])'
    <3>1. PICK h \in Handler : h = claim[d] /\ claim'[d] = h /\ h.pc # "over"
      BY <2>1, <2>2, NoClaimFacts DEF FaucetOK, HandlersOK
    <3>2. h.seen <= n /\ Rationed(h) /\ \E v \in Owners : h.user = {v}
      BY <1>5, <3>1 DEF FaucetOK, HandlersOK
    <3>3. h.seen <= n + 1
      BY <3>2 DEF Handler
    <3> QED BY <1>7, <1>10, <3>1, <3>2, <3>3
  <2> QED BY <2>1, <2>2 DEF HandlersOK
<1>12. FaucetIsRationed'
  <2>1. ASSUME NEW i \in 1 .. n + 1, NEW j \in 1 .. n + 1,
               faucet_claims'[i].user = faucet_claims'[j].user, i <= faucet_claims'[j].seen
        PROVE  faucet_claims'[j].checked >= faucet_claims'[i].at + Day
    <3>1. CASE j = n + 1
      <4>1. i \in 1 .. n
        <5>1. r.seen \in Nat
          BY <1>6, ClaimRowFacts
        <5> QED BY <1>6, <1>7, <2>1, <3>1, <5>1
      <4>2. faucet_claims[i].user \in claim[c].user /\ i <= claim[c].seen
        BY <1>2, <1>6, <1>7, <2>1, <3>1, <4>1
      <4>3. Rationed(claim[c])
        BY <1>1 DEF FaucetOK, HandlersOK
      <4> QED BY <1>6, <1>7, <3>1, <4>1, <4>2, <4>3 DEF Rationed
    <3>2. CASE j \in 1 .. n
      <4>1. i \in 1 .. n
        BY <1>7, <1>8, <2>1, <3>2
      <4> QED BY <1>7, <2>1, <3>2, <4>1 DEF FaucetOK, FaucetIsRationed
    <3> QED BY <3>1, <3>2
  <2> QED BY <1>7, <2>1 DEF FaucetIsRationed
<1> QED BY <1>9, <1>11, <1>12 DEF FaucetOK
-----------------------------------------------------------------------------
(* The public orders.                                                      *)

Order == [user : Owners, side : {"bid", "ask"}, price : Int, quantity : Nat,
          status : {"pending", "cancelled"}, spends : Given(Amounts)]

Placed(o) ==
  \A amount \in o.spends : /\ o.side = "bid" /\ o.price > 0 /\ amount > 0
                           /\ o.quantity = Bought(amount, o.price)

OrdersOK == orders \in Seq(Order) /\ \A i \in DOMAIN orders : Placed(orders[i])

HoldersOf(a) == {i \in DOMAIN orders : Holds(orders[i]) /\ LockAccount(orders[i]) = a}

LockAmounts == [i \in DOMAIN orders |-> LockAmount(orders[i])]

Held(a) == SumOver(LockAmounts, HoldersOf(a))

LocksHeld == \A a \in Holdings : Booked(a, {"lock", "unlock"}) + Held(a) = 0

LEMMA OrderFacts ==
  ASSUME NEW o \in Order
  PROVE  /\ LockAmount(o) \in Int /\ LockAccount(o) \in Holdings /\ o.user \in Owners
         /\ o.price \in Int /\ o.quantity \in Nat
<1>1. o.price \in Int /\ o.quantity \in Nat /\ o.user \in Owners /\ o.side \in {"bid", "ask"}
  BY DEF Order
<1>2. LockAmount(o) \in Int
  <2>1. PICK n \in Int : n = o.price * o.quantity
    BY <1>1
  <2>2. UnitsPerBase \in Nat \ {0}
    BY WalletAssumption
  <2>3. RoundDp(n, UnitsPerBase) \in Int
    BY <2>2, RoundDpFacts
  <2> QED BY <1>1, <2>1, <2>3 DEF LockAmount
<1> QED BY <1>1, <1>2 DEF LockAccount, Holdings

\* An order that spends an amount of money locks that amount, but for half a cent and half the
\* price of the smallest quantity.
LEMMA SpentAmount ==
  ASSUME NEW o \in Order, Placed(o), NEW amount \in o.spends
  PROVE  LET roundings == UnitsPerBase + o.price
         IN  2 * (10 * LockAmount(o) - amount) * (UnitsPerBase \div 10) \in -roundings .. roundings
<1>1. PICK p \in Nat \ {0} : p = o.price
  BY OrderFacts DEF Placed
<1>2. PICK a \in Nat : a = amount
  BY WalletAssumption DEF Order, Given, Placed
<1>3. PICK u \in Nat \ {0} : u = UnitsPerBase
  BY WalletAssumption
<1>4. PICK t \in Nat : t = UnitsPerBase \div 10
  BY <1>3
<1>5. u = 10 * t
  BY <1>3, <1>4, PublicOrdersAssumption
<1>6. PICK n \in Nat : n = a * t
  BY <1>2, <1>4
<1>7. PICK q \in Int : q = RoundDp(n, p)
  BY RoundDpFacts
<1>8. o.quantity = q /\ o.side = "bid"
  BY <1>1, <1>2, <1>4, <1>6, <1>7 DEF Placed, Bought
<1>9. PICK m \in Int : m = p * q
  BY <1>1, <1>7
<1>10. -p <= 2 * m - 2 * n /\ 2 * m - 2 * n <= p
  BY <1>7, <1>9, RoundDpFacts
<1>11. PICK l \in Int : l = RoundDp(m, u)
  BY RoundDpFacts
<1>12. LockAmount(o) = l
  BY <1>1, <1>3, <1>8, <1>9, <1>11 DEF LockAmount
<1>13. -u <= 2 * (u * l) - 2 * m /\ 2 * (u * l) - 2 * m <= u
  BY <1>11, RoundDpFacts
<1>14. PICK k \in Int : k = l * t
  BY <1>4, <1>11
<1>15. u * l = 10 * k
  BY <1>5, <1>14
<1>16. 2 * (10 * l - a) * t = 20 * k - 2 * n
  BY <1>6, <1>14
<1>17. /\ -(u + p) <= 20 * k - 2 * n /\ 20 * k - 2 * n <= u + p
       /\ 20 * k - 2 * n \in Int /\ u + p \in Int
  BY <1>10, <1>13, <1>15
<1> QED BY <1>1, <1>2, <1>3, <1>4, <1>12, <1>16, <1>17

LEMMA HeldFacts ==
  ASSUME OrdersOK, NEW a
  PROVE  /\ IsFiniteSet(HoldersOf(a)) /\ HoldersOf(a) \subseteq DOMAIN orders
         /\ \A i \in DOMAIN orders : LockAmounts[i] = LockAmount(orders[i]) /\ LockAmounts[i] \in Int
         /\ Held(a) \in Int
<1>1. PICK n \in Nat : n = Len(orders) /\ DOMAIN orders = 1 .. n
  BY RowFacts DEF OrdersOK
<1>2. IsFiniteSet(HoldersOf(a)) /\ HoldersOf(a) \subseteq DOMAIN orders
  <2>1. IsFiniteSet(1 .. n)
    BY FS_Interval
  <2>2. HoldersOf(a) \subseteq 1 .. n
    BY <1>1 DEF HoldersOf
  <2> QED BY <1>1, <2>1, <2>2, FS_Subset
<1>3. \A i \in DOMAIN orders : LockAmounts[i] = LockAmount(orders[i]) /\ LockAmounts[i] \in Int
  BY RowFacts, OrderFacts DEF OrdersOK, LockAmounts
<1>4. \A i \in HoldersOf(a) : LockAmounts[i] \in Int
  BY <1>2, <1>3
<1> QED BY <1>2, <1>3, <1>4, SumType DEF Held

LEMMA HeldKept ==
  ASSUME UNCHANGED orders, NEW a
  PROVE  Held(a)' = Held(a)
  BY DEF Held, HoldersOf, LockAmounts

\* Deposits and withdrawals leave the locks alone.
LEMMA LocksKept ==
  ASSUME LedgerOK, LocksHeld, UNCHANGED <<orders, time>>,
         NEW account \in Holdings, NEW amount \in Int, NEW type \in {"deposit", "withdrawal"},
         AppendEntry(account, amount, type)
  PROVE  LocksHeld'
<1>1. type \in Types /\ type \notin {"lock", "unlock"}
  BY DEF Types
<1>2. ASSUME NEW a \in Holdings
      PROVE  Booked(a, {"lock", "unlock"})' = Booked(a, {"lock", "unlock"})
  BY <1>1, AppendBooked, BookedType
<1> QED BY <1>2, HeldKept DEF LocksHeld

LEMMA LocksRest ==
  ASSUME LocksHeld, UNCHANGED <<orders, ledger>>
  PROVE  LocksHeld'
  BY BookedKept, HeldKept DEF LocksHeld

\* An order is placed, with its lock.
LEMMA LockPlaced ==
  ASSUME LedgerOK, OrdersOK, LocksHeld, UNCHANGED time, NEW o \in Order, Placed(o),
         o.status = "pending", orders' = Append(orders, o),
         AppendEntry(LockAccount(o), -LockAmount(o), "lock")
  PROVE  OrdersOK' /\ LocksHeld'
<1>1. PICK n \in Nat : n = Len(orders)
  BY RowFacts DEF OrdersOK
<1>2. /\ DOMAIN orders = 1 .. n /\ DOMAIN orders' = 1 .. n + 1 /\ orders' \in Seq(Order)
      /\ \A i \in 1 .. n : orders'[i] = orders[i]
      /\ orders'[n + 1] = o
  <2>1. orders \in Seq(Order)
    BY DEF OrdersOK
  <2> QED BY <1>1, <2>1, RowFacts
<1>3. OrdersOK'
  <2>1. \A i \in 1 .. n + 1 : Placed(orders'[i])
    <3>1. \A i \in 1 .. n + 1 : i \in 1 .. n \/ i = n + 1
      OBVIOUS
    <3> QED BY <1>2, <3>1 DEF OrdersOK
  <2> QED BY <1>2, <2>1 DEF OrdersOK, Placed
<1>4. PICK m \in Int : m = LockAmount(o) /\ LockAccount(o) \in Holdings
  BY OrderFacts
<1>5. ASSUME NEW a \in Holdings
      PROVE  Held(a)' = Held(a) + (IF a = LockAccount(o) THEN m ELSE 0) /\ Held(a) \in Int
  <2>1. PICK S, T, f, g : /\ S = HoldersOf(a) /\ T = HoldersOf(a)'
                          /\ f = LockAmounts /\ g = LockAmounts'
    OBVIOUS
  <2>2. /\ IsFiniteSet(S) /\ S \subseteq 1 .. n
        /\ \A i \in 1 .. n : f[i] = LockAmount(orders[i]) /\ f[i] \in Int
        /\ Held(a) = SumOver(f, S) /\ Held(a) \in Int
    BY <1>2, <2>1, HeldFacts DEF Held
  <2>3. Held(a)' = SumOver(g, T)
    BY <2>1 DEF Held
  <2>4. \A i \in 1 .. n + 1 : g[i] = LockAmount(orders'[i])
    BY <1>2, <2>1 DEF LockAmounts, LockAmount
  <2>5. g[n + 1] = m /\ \A i \in S : f[i] = g[i] /\ g[i] \in Int
    BY <1>2, <1>4, <2>2, <2>4, SMTT(30)
  <2>6. T = {i \in 1 .. n + 1 : Holds(orders'[i]) /\ LockAccount(orders'[i]) = a}
    BY <1>2, <2>1 DEF HoldersOf, LockAccount, Holds, LockAmount
  <2>7. S = {i \in 1 .. n : Holds(orders[i]) /\ LockAccount(orders[i]) = a}
    BY <1>2, <2>1 DEF HoldersOf
  <2>8. SumOver(f, S) = SumOver(g, S)
    BY ONLY <2>2, <2>5, SumEqual
  <2>9. CASE a = LockAccount(o)
    <3>1. T = S \cup {n + 1} /\ n + 1 \notin S
      <4>1. Holds(o)
        BY DEF Holds
      <4> QED BY <1>2, <2>6, <2>7, <2>9, <4>1
    <3>2. \A i \in S \cup {n + 1} : g[i] \in Int
      BY <2>5
    <3>3. SumOver(g, S \cup {n + 1}) = g[n + 1] + SumOver(g, S)
      BY ONLY <2>2, <3>1, <3>2, SumAdd
    <3> QED BY <2>2, <2>3, <2>5, <2>8, <2>9, <3>1, <3>3
  <2>10. CASE a # LockAccount(o)
    <3>1. T = S
      BY <1>2, <2>6, <2>7, <2>10
    <3> QED BY <2>2, <2>3, <2>8, <2>10, <3>1
  <2> QED BY <2>9, <2>10
<1>6. ASSUME NEW a \in Holdings
      PROVE  Booked(a, {"lock", "unlock"})' + Held(a)' = 0
  <2>1. Booked(a, {"lock", "unlock"}) + Held(a) = 0 /\ Booked(a, {"lock", "unlock"}) \in Int
    BY BookedType DEF LocksHeld
  <2>2. "lock" \in Types /\ -m \in Int
    BY <1>4 DEF Types
  <2>3. Booked(a, {"lock", "unlock"})' = Booked(a, {"lock", "unlock"})
          + (IF a = LockAccount(o) /\ "lock" \in {"lock", "unlock"} THEN -m ELSE 0)
    BY <1>4, <2>2, AppendBooked
  <2> QED BY <1>5, <2>1, <2>3
<1> QED BY <1>3, <1>6 DEF LocksHeld

\* An order is cancelled, and what it held comes back.
LEMMA LockReleased ==
  ASSUME LedgerOK, OrdersOK, LocksHeld, UNCHANGED time, NEW i \in DOMAIN orders,
         orders[i].status = "pending", orders' = [orders EXCEPT ![i].status = "cancelled"],
         IF LockAmount(orders[i]) > 0
         THEN AppendEntry(LockAccount(orders[i]), LockAmount(orders[i]), "unlock")
         ELSE UNCHANGED <<ledger, balances>>
  PROVE  OrdersOK' /\ LocksHeld'
<1>1. PICK n \in Nat : n = Len(orders) /\ DOMAIN orders = 1 .. n
  BY RowFacts DEF OrdersOK
<1>2. PICK o \in Order : o = orders[i] /\ o.status = "pending"
  BY RowFacts DEF OrdersOK
<1>3. /\ DOMAIN orders' = 1 .. n /\ orders' = [j \in 1 .. n |-> orders'[j]]
      /\ \A j \in 1 .. n : j # i => orders'[j] = orders[j]
      /\ orders'[i] = [o EXCEPT !.status = "cancelled"]
  BY <1>1, <1>2
<1>4. PICK p \in Order : /\ p = orders'[i] /\ p.status = "cancelled"
                         /\ p.side = o.side /\ p.user = o.user /\ p.price = o.price
                         /\ p.quantity = o.quantity /\ p.spends = o.spends
  BY <1>2, <1>3 DEF Order
<1>5. LockAmount(p) = LockAmount(o) /\ LockAccount(p) = LockAccount(o) /\ (Placed(o) => Placed(p))
  BY <1>4 DEF LockAmount, LockAccount, Placed
<1>6. OrdersOK'
  <2>1. orders \in Seq(Order) /\ \A j \in 1 .. n : orders[j] \in Order /\ Placed(orders[j])
    BY <1>1, RowFacts DEF OrdersOK
  <2>2. \A j \in 1 .. n : orders'[j] \in Order /\ Placed(orders'[j])
    BY <1>1, <1>2, <1>3, <1>4, <1>5, <2>1
  <2>3. orders' \in Seq(Order)
    <3>1. orders' \in [1 .. n -> Order]
      BY <1>3, <2>2
    <3> QED BY ONLY <3>1, n \in Nat, FunctionIsSeq
  <2> QED BY <1>3, <2>2, <2>3 DEF OrdersOK, Placed
<1>7. PICK m \in Nat, l \in Int : /\ l = LockAmount(o) /\ LockAccount(o) \in Holdings
                                /\ m = IF l > 0 THEN l ELSE 0
  BY OrderFacts
<1>8. ASSUME NEW a \in Holdings
      PROVE  Held(a)' = Held(a) - (IF a = LockAccount(o) THEN m ELSE 0) /\ Held(a) \in Int
  <2>1. PICK S, T, f, g : /\ S = HoldersOf(a) /\ T = HoldersOf(a)'
                          /\ f = LockAmounts /\ g = LockAmounts'
    OBVIOUS
  <2>2. /\ IsFiniteSet(S) /\ S \subseteq 1 .. n
        /\ \A j \in 1 .. n : f[j] = LockAmount(orders[j]) /\ f[j] \in Int
        /\ Held(a) = SumOver(f, S) /\ Held(a) \in Int
    BY <1>1, <2>1, HeldFacts DEF Held
  <2>3. Held(a)' = SumOver(g, T)
    BY <2>1 DEF Held
  <2>4. \A j \in 1 .. n : g[j] = LockAmount(orders'[j])
    BY <1>3, <2>1 DEF LockAmounts, LockAmount
  <2>5. f[i] = l /\ \A j \in S : f[j] = g[j] /\ g[j] \in Int
    <3>1. i \in 1 .. n /\ orders[i] = o /\ orders'[i] = p
      BY <1>1, <1>2, <1>4
    <3>2. f[i] = l /\ g[i] = l
      BY <1>5, <1>7, <2>2, <2>4, <3>1
    <3>3. ASSUME NEW j \in S, j # i PROVE f[j] = g[j]
      <4>1. j \in 1 .. n /\ orders'[j] = orders[j]
        BY <1>3, <2>2, <3>3
      <4> QED BY <2>2, <2>4, <4>1
    <3> QED BY <2>2, <3>2, <3>3
  <2>6. T = {j \in 1 .. n : Holds(orders'[j]) /\ LockAccount(orders'[j]) = a}
    BY <1>3, <2>1 DEF HoldersOf, LockAccount, Holds, LockAmount
  <2>7. S = {j \in 1 .. n : Holds(orders[j]) /\ LockAccount(orders[j]) = a}
    BY <1>1, <2>1 DEF HoldersOf
  <2>8. /\ T = (IF l < 0 THEN S ELSE S \ {i})
        /\ i \in S <=> a = LockAccount(o)
    <3>1. Holds(o) /\ (Holds(p) <=> l < 0)
      BY <1>2, <1>4, <1>5, <1>7 DEF Holds
    <3>2. \A j \in 1 .. n : j # i => orders'[j] = orders[j]
      BY <1>3
    <3>3. i \in 1 .. n /\ orders[i] = o /\ orders'[i] = p /\ LockAccount(p) = LockAccount(o)
      BY <1>1, <1>2, <1>4, <1>5
    <3> QED BY <2>6, <2>7, <3>1, <3>2, <3>3
  <2>9. IsFiniteSet(T) /\ \A j \in T : f[j] = g[j]
    BY <2>2, <2>5, <2>8, FS_Subset
  <2>10. SumOver(f, T) = SumOver(g, T)
    BY ONLY <2>9, SumEqual
  <2>11. CASE a = LockAccount(o) /\ l >= 0
    <3>1. i \in S /\ \A j \in S : f[j] \in Int
      BY <2>2, <2>8, <2>11
    <3>2. SumOver(f, S) = f[i] + SumOver(f, S \ {i})
      BY ONLY <2>2, <3>1, SumRemove
    <3>3. T = S \ {i} /\ m = l
      BY <1>7, <2>8, <2>11
    <3>4. SumOver(f, T) \in Int
      BY <2>9, <3>1, <3>3, SumType
    <3> QED BY <2>2, <2>3, <2>5, <2>10, <2>11, <3>2, <3>3, <3>4
  <2>12. CASE a # LockAccount(o) \/ l < 0
    <3>1. T = S
      BY <2>8, <2>12
    <3>2. l < 0 => m = 0
      BY <1>7
    <3> QED BY <2>2, <2>3, <2>10, <2>12, <3>1, <3>2
  <2> QED BY <1>7, <2>11, <2>12
<1>9. ASSUME NEW a \in Holdings
      PROVE  Booked(a, {"lock", "unlock"})' + Held(a)' = 0
  <2>1. Booked(a, {"lock", "unlock"}) + Held(a) = 0 /\ Booked(a, {"lock", "unlock"}) \in Int
    BY BookedType DEF LocksHeld
  <2>2. Booked(a, {"lock", "unlock"})' = Booked(a, {"lock", "unlock"})
          + (IF a = LockAccount(o) THEN m ELSE 0)
    <3>1. CASE m > 0
      <4>1. "unlock" \in Types /\ m \in Int
        BY DEF Types
      <4>2. AppendEntry(LockAccount(o), m, "unlock")
        BY <1>2, <1>7, <3>1
      <4>3. Booked(a, {"lock", "unlock"})' = Booked(a, {"lock", "unlock"})
              + (IF a = LockAccount(o) /\ "unlock" \in {"lock", "unlock"} THEN m ELSE 0)
        BY <1>7, <4>1, <4>2, AppendBooked
      <4> QED BY <4>3
    <3>2. CASE m = 0
      <4>1. UNCHANGED ledger
        BY <1>2, <1>7, <3>2
      <4> QED BY <2>1, <3>2, <4>1, BookedKept
    <3> QED BY <3>1, <3>2
  <2> QED BY <1>8, <2>1, <2>2
<1> QED BY <1>6, <1>9 DEF LocksHeld

-----------------------------------------------------------------------------
(* Every step of a user, of the clock and of the clean-up job.             *)

WalletInv ==
  /\ LedgerOK /\ Reconciles /\ FaucetOK /\ OrdersOK /\ LocksHeld
  /\ ledger_immutable \in BOOLEAN /\ cleaning \in BOOLEAN

LEMMA WalletInvType == WalletInv => PublicOrdersTypeOK
  BY DEF WalletInv, PublicOrdersTypeOK, WalletTypeOK, LedgerOK, Entry, Types, FaucetOK, ClaimsOK,
         ClaimRow, HandlersOK, Handler, OrdersOK, Order

LEMMA WalletInvLocks == WalletInv => LocksAddUp
<1> SUFFICES ASSUME WalletInv PROVE LocksAddUp
  OBVIOUS
<1>1. \A i \in DOMAIN orders : orders[i] \in Order /\ Placed(orders[i])
  BY RowFacts DEF WalletInv, OrdersOK
<1>2. \A i \in DOMAIN orders : \A amount \in orders[i].spends :
        LET roundings == UnitsPerBase + orders[i].price
        IN  2 * (10 * LockAmount(orders[i]) - amount) * (UnitsPerBase \div 10) \in -roundings .. roundings
  BY <1>1, SpentAmount
<1>3. \A a \in Holdings : Booked(a, {"lock", "unlock"}) + Held(a) = 0
  BY DEF WalletInv, LocksHeld
<1> QED BY <1>2, <1>3 DEF LocksAddUp, Held, HoldersOf, LockAmounts

LEMMA WalletStarts == PublicOrdersInit => WalletInv
<1> SUFFICES ASSUME PublicOrdersInit PROVE WalletInv
  OBVIOUS
<1>1. /\ time = 0 /\ ledger = {} /\ faucet_claims = << >> /\ orders = << >>
      /\ balances = [a \in Holdings |-> 0] /\ claim = [c \in Claims |-> NoClaim]
      /\ ledger_immutable = TRUE /\ cleaning = FALSE
  BY DEF PublicOrdersInit, WalletInit
<1>2. LedgerOK
  BY <1>1, FS_EmptySet, WalletAssumption DEF LedgerOK
<1>3. \A a, types : Booked(a, types) = 0
  <2> TAKE a, types
  <2>1. {r \in ledger : r.account = a /\ r.type \in types} = {}
    BY <1>1
  <2> QED BY <2>1, SumEmpty DEF Booked
<1>4. Reconciles
  BY <1>1, <1>3 DEF Reconciles
<1>5. FaucetOK
  BY <1>1, NoClaimFacts DEF FaucetOK, ClaimsOK, HandlersOK, FaucetIsRationed
<1>6. OrdersOK
  BY <1>1 DEF OrdersOK
<1>7. LocksHeld
  <2>1. ASSUME NEW a PROVE Held(a) = 0
    <3>1. HoldersOf(a) = {}
      BY <1>1 DEF HoldersOf
    <3> QED BY <3>1, SumEmpty DEF Held
  <2> QED BY <1>3, <2>1 DEF LocksHeld
<1> QED BY <1>1, <1>2, <1>4, <1>5, <1>6, <1>7 DEF WalletInv

LEMMA WalletRests == WalletInv /\ UNCHANGED orderVars => WalletInv'
<1> SUFFICES ASSUME WalletInv, UNCHANGED orderVars PROVE WalletInv'
  OBVIOUS
<1>1. UNCHANGED <<time, ledger, balances, faucet_claims, claim, ledger_immutable, cleaning, orders>>
  BY DEF orderVars, walletVars
<1>2. time \in 0 .. Last /\ time \in Nat /\ time <= time
  BY WalletAssumption DEF WalletInv, LedgerOK
<1>3. LedgerOK' /\ Reconciles' /\ FaucetOK' /\ LocksHeld'
  BY <1>1, <1>2, LedgerKept, FaucetKept, LocksRest DEF WalletInv
<1> QED BY <1>1, <1>3 DEF WalletInv, OrdersOK

\* Money moves, and nothing else happens.
LEMMA MoneyMoves ==
  ASSUME WalletInv, UNCHANGED <<time, faucet_claims, claim, job, orders>>,
         NEW account \in Holdings, NEW amount \in Int, NEW type \in {"deposit", "withdrawal"},
         AppendEntry(account, amount, type)
  PROVE  WalletInv'
<1>1. type \in Types /\ UNCHANGED <<ledger_immutable, cleaning>> /\ time \in Nat /\ time <= time
  BY WalletAssumption DEF Types, job, WalletInv, LedgerOK
<1>2. LedgerOK' /\ Reconciles' /\ FaucetOK' /\ LocksHeld'
  BY <1>1, ReconcilesAfter, FaucetKept, LocksKept DEF WalletInv
<1> QED BY <1>1, <1>2 DEF WalletInv, OrdersOK

LEMMA RequestsStep ==
  ASSUME WalletInv, WalletRequests, UNCHANGED orders
  PROVE  WalletInv'
<1>1. ASSUME NEW u \in Owners, NEW a \in Amounts, Deposit(u, a) \/ Withdraw(u, a)
      PROVE  WalletInv'
  <2>1. Cents(a) \in Int /\ -Cents(a) \in Int /\ <<u, "EUR">> \in Holdings
    <3>1. PICK b \in Int : b = a
      BY WalletAssumption
    <3>2. RoundDp(b, 10) \in Int
      BY RoundDpFacts
    <3> QED BY <3>1, <3>2 DEF Cents, Holdings
  <2>2. CASE Deposit(u, a)
    BY <2>1, <2>2, MoneyMoves DEF Deposit
  <2>3. CASE Withdraw(u, a)
    BY <2>1, <2>3, MoneyMoves DEF Withdraw
  <2> QED BY <1>1, <2>2, <2>3
<1>2. ASSUME NEW a \in Holdings, NEW x \in Minted, Mint(a, x) PROVE WalletInv'
  <2>1. x \in Int
    BY WalletAssumption
  <2> QED BY <1>2, <2>1, MoneyMoves DEF Mint
<1>3. ASSUME UNCHANGED <<time, tables, job>>, FaucetOK' PROVE WalletInv'
  <2>1. UNCHANGED <<time, ledger, balances, faucet_claims, ledger_immutable, cleaning>>
    BY <1>3 DEF tables, job
  <2>2. time \in 0 .. Last
    BY DEF WalletInv, LedgerOK
  <2>3. LedgerOK' /\ Reconciles' /\ LocksHeld'
    BY <2>1, <2>2, LedgerKept, LocksRest DEF WalletInv
  <2> QED BY <1>3, <2>1, <2>3 DEF WalletInv, OrdersOK
<1>4. FaucetOK /\ time \in 0 .. Last
  BY DEF WalletInv, LedgerOK
<1>5. ASSUME NEW c \in Claims, NEW u \in Owners, CheckClaim(c, u) PROVE WalletInv'
  BY <1>3, <1>4, <1>5, ClaimChecked DEF CheckClaim
<1>6. ASSUME NEW c \in Claims, CreditClaim(c) PROVE WalletInv'
  <2>1. PICK u \in Owners : AppendEntry(<<u, "KCN">>, FaucetAmount, "deposit")
    <3>1. claim[c] \in Handler
      BY DEF WalletInv, FaucetOK, HandlersOK
    <3> QED BY <1>6, <3>1 DEF CreditClaim, Handler
  <2>2. FaucetAmount \in Int /\ <<u, "KCN">> \in Holdings /\ "deposit" \in Types
    BY WalletAssumption DEF FaucetAmount, Holdings, Types
  <2>3. UNCHANGED <<time, ledger_immutable, cleaning>>
    BY <1>6 DEF CreditClaim, job
  <2>4. LedgerOK' /\ Reconciles' /\ LocksHeld'
    BY <2>1, <2>2, <2>3, ReconcilesAfter, LocksKept DEF WalletInv
  <2>5. FaucetOK'
    BY <1>4, <1>6, ClaimCredited
  <2> QED BY <2>3, <2>4, <2>5 DEF WalletInv, OrdersOK
<1>7. ASSUME NEW c \in Claims, RecordClaim(c) PROVE WalletInv'
  <2>1. UNCHANGED <<time, ledger, balances, ledger_immutable, cleaning>>
    BY <1>7 DEF RecordClaim, job
  <2>2. LedgerOK' /\ Reconciles' /\ LocksHeld'
    BY <1>4, <2>1, LedgerKept, LocksRest DEF WalletInv
  <2>3. FaucetOK'
    BY <1>4, <1>7, ClaimRecorded
  <2> QED BY <2>1, <2>2, <2>3 DEF WalletInv, OrdersOK
<1>8. ASSUME NEW c \in Claims, ClaimFails(c) PROVE WalletInv'
  <2>1. UNCHANGED <<time, faucet_claims>>
    BY <1>8 DEF ClaimFails, tables
  <2>2. FaucetOK'
    BY <1>4, <1>8, <2>1, HandlerTaken, NoClaimFacts DEF ClaimFails
  <2> QED BY <1>3, <1>8, <2>2 DEF ClaimFails
<1> QED BY <1>1, <1>5, <1>6, <1>7, <1>8, <1>2 DEF WalletRequests

LEMMA WalletStep ==
  ASSUME WalletInv, WalletNext, UNCHANGED orders
  PROVE  WalletInv'
<1>1. FaucetOK /\ time \in 0 .. Last /\ time \in Nat
  BY WalletAssumption DEF WalletInv, LedgerOK
<1>2. ASSUME UNCHANGED tables, time' \in 0 .. Last, FaucetOK',
             ledger_immutable' \in BOOLEAN, cleaning' \in BOOLEAN
      PROVE  WalletInv'
  <2>1. UNCHANGED <<ledger, balances>>
    BY <1>2 DEF tables
  <2>2. LedgerOK' /\ Reconciles' /\ LocksHeld'
    BY <1>2, <2>1, LedgerKept, LocksRest DEF WalletInv
  <2> QED BY <1>2, <2>2 DEF WalletInv, OrdersOK
<1>3. CASE TimePasses
  <2>1. time' \in 0 .. Last /\ time' \in Nat /\ time <= time'
    BY <1>1, <1>3, WalletAssumption DEF TimePasses
  <2>2. FaucetOK'
    BY <1>1, <1>3, <2>1, FaucetKept DEF TimePasses, tables
  <2> QED BY <1>2, <1>3, <2>1, <2>2 DEF TimePasses, job, WalletInv
<1>4. CASE StartCleanup
  <2>1. FaucetOK'
    BY <1>1, <1>4, FaucetKept DEF StartCleanup, tables
  <2> QED BY <1>1, <1>2, <1>4, <2>1 DEF StartCleanup, WalletInv
<1>5. CASE CleanTrades
  <2>1. FaucetOK'
    BY <1>1, <1>5, FaucetKept DEF CleanTrades, tables
  <2> QED BY <1>1, <1>2, <1>5, <2>1 DEF CleanTrades, WalletInv
<1>6. CASE RestartAccounts
  <2>1. UNCHANGED <<time, faucet_claims>> /\ claim' = [c \in Claims |-> NoClaim]
    BY <1>6 DEF RestartAccounts, tables
  <2>2. FaucetOK'
    BY <1>1, <2>1, NoClaimFacts DEF FaucetOK, ClaimsOK, HandlersOK, FaucetIsRationed
  <2> QED BY <1>1, <1>2, <1>6, <2>1, <2>2 DEF RestartAccounts
<1> QED BY <1>3, <1>4, <1>5, <1>6, RequestsStep DEF WalletNext

\* What place_order makes of a request is an order.
LEMMA RequestMakesOrder ==
  ASSUME NEW u \in Owners, NEW req \in PlaceOrderHttpRequest, Acceptable(req),
         NEW o, o = [user |-> u, side |-> req.side, price |-> StoredPrice(req),
                     quantity |-> Quantity(req), status |-> "pending",
                     spends |-> IF Spends(req) THEN req.quote_amount ELSE {}]
  PROVE  o \in Order /\ Placed(o) /\ o.status = "pending"
<1>1. /\ req.side \in {"bid", "ask"} /\ req.order_type \in {"limit", "market"}
      /\ req.price \in Given(LimitPrices) /\ req.quantity \in Given(Quantities)
      /\ req.quote_amount \in Given(Amounts) /\ req.max_slippage_price \in Given(SlippagePrices)
  BY DEF PlaceOrderHttpRequest
<1>2. SlippagePrice(req) \in Int
  BY <1>1, PublicOrdersAssumption DEF SlippagePrice, FallbackPrice, Given
<1>3. StoredPrice(req) \in Int
  <2>1. CASE req.order_type = "limit"
    <3>1. PICK p \in LimitPrices : req.price = {p} /\ p > 0
      BY <1>1, <2>1 DEF Acceptable, Given
    <3> QED BY <2>1, <3>1, PublicOrdersAssumption DEF StoredPrice
  <2>2. CASE req.order_type = "market"
    BY <1>1, <1>2, <2>2 DEF StoredPrice
  <2> QED BY <1>1, <2>1, <2>2
<1>4. CASE Spends(req)
  <2>1. PICK a \in Amounts : req.quote_amount = {a} /\ a > 0
    BY <1>1, <1>4 DEF Spends, Acceptable, Given
  <2>2. PICK p \in Nat \ {0} : p = SlippagePrice(req)
    BY <1>2, <1>4 DEF Acceptable
  <2>3. req.order_type = "market" /\ req.side = "bid" /\ StoredPrice(req) = p
    BY <1>4, <2>2 DEF Acceptable, StoredPrice
  <2>4. Quantity(req) = Bought(a, p)
    BY <1>4, <2>1, <2>2 DEF Quantity
  <2>5. PICK t \in Nat : t = UnitsPerBase \div 10
    BY WalletAssumption
  <2>6. PICK n \in Nat : n = a * t
    BY <2>1, <2>5, WalletAssumption
  <2>7. Bought(a, p) \in Nat
    <3>1. RoundDp(n, p) \in Int /\ RoundDp(n, p) >= 0
      BY RoundDpFacts
    <3> QED BY <2>5, <2>6, <3>1 DEF Bought
  <2> QED BY <1>1, <1>4, <2>1, <2>3, <2>4, <2>7 DEF Order, Placed
<1>5. CASE ~Spends(req)
  <2>1. PICK q \in Quantities : req.quantity = {q} /\ q > 0
    BY <1>1, <1>5 DEF Acceptable, Given
  <2>2. Quantity(req) \in Nat
    BY <1>5, <2>1, PublicOrdersAssumption DEF Quantity
  <2> QED BY <1>1, <1>3, <1>5, <2>2 DEF Order, Placed, Given
<1> QED BY <1>4, <1>5

LEMMA OrdersStep ==
  ASSUME WalletInv, PublicOrdersNext
  PROVE  WalletInv'
<1>1. ASSUME NEW u \in Owners, NEW req \in PlaceOrderHttpRequest, PlaceOrder(u, req)
      PROVE  WalletInv'
  <2>1. PICK o : /\ o = [user |-> u, side |-> req.side, price |-> StoredPrice(req),
                         quantity |-> Quantity(req), status |-> "pending",
                         spends |-> IF Spends(req) THEN req.quote_amount ELSE {}]
                 /\ AppendEntry(LockAccount(o), -LockAmount(o), "lock")
                 /\ orders' = Append(orders, o)
    BY <1>1 DEF PlaceOrder
  <2>2. o \in Order /\ Placed(o) /\ o.status = "pending"
    BY <1>1, <2>1, RequestMakesOrder DEF PlaceOrder
  <2>3. UNCHANGED <<time, faucet_claims, claim, ledger_immutable, cleaning>>
    BY <1>1 DEF PlaceOrder, job
  <2>4. LockAccount(o) \in Holdings /\ -LockAmount(o) \in Int /\ "lock" \in Types
    BY <2>2, OrderFacts DEF Types
  <2>5. LedgerOK' /\ Reconciles' /\ OrdersOK' /\ LocksHeld'
    BY <2>1, <2>2, <2>3, <2>4, ReconcilesAfter, LockPlaced DEF WalletInv
  <2>6. time \in Nat /\ time <= time
    BY WalletAssumption DEF WalletInv, LedgerOK
  <2>7. FaucetOK'
    BY <2>3, <2>6, FaucetKept DEF WalletInv
  <2> QED BY <2>3, <2>5, <2>7 DEF WalletInv
<1>2. ASSUME NEW u \in Owners, NEW i, CancelOrder(u, i)
      PROVE  WalletInv'
  <2>1. /\ i \in DOMAIN orders /\ orders[i].status = "pending"
        /\ orders' = [orders EXCEPT ![i].status = "cancelled"]
        /\ UNCHANGED <<time, faucet_claims, claim, ledger_immutable, cleaning>>
        /\ IF LockAmount(orders[i]) > 0
           THEN AppendEntry(LockAccount(orders[i]), LockAmount(orders[i]), "unlock")
           ELSE UNCHANGED <<ledger, balances>>
    BY <1>2 DEF CancelOrder, job
  <2>2. OrdersOK' /\ LocksHeld'
    BY <2>1, LockReleased DEF WalletInv
  <2>3. LedgerOK' /\ Reconciles'
    <3>1. CASE LockAmount(orders[i]) > 0
      <4>1. orders[i] \in Order
        BY <2>1, RowFacts DEF WalletInv, OrdersOK
      <4>2. LockAccount(orders[i]) \in Holdings /\ LockAmount(orders[i]) \in Int /\ "unlock" \in Types
        BY <4>1, OrderFacts DEF Types
      <4> QED BY <2>1, <3>1, <4>2, ReconcilesAfter DEF WalletInv
    <3>2. CASE ~(LockAmount(orders[i]) > 0)
      <4>1. UNCHANGED <<ledger, balances>> /\ time' \in 0 .. Last
        BY <2>1, <3>2 DEF WalletInv, LedgerOK
      <4> QED BY <4>1, LedgerKept DEF WalletInv
    <3> QED BY <3>1, <3>2
  <2>4. time \in Nat /\ time <= time
    BY WalletAssumption DEF WalletInv, LedgerOK
  <2>5. FaucetOK'
    BY <2>1, <2>4, FaucetKept DEF WalletInv
  <2> QED BY <2>1, <2>2, <2>3, <2>5 DEF WalletInv
<1> QED BY <1>1, <1>2, RequestsStep DEF PublicOrdersNext

-----------------------------------------------------------------------------
(* Intervals: an interval of a length opens at a multiple of it, and every *)
(* length is a multiple of the first.                                      *)

First == Min(Lengths)

LEMMA MinFacts ==
  ASSUME NEW S \in SUBSET Nat, S # {}
  PROVE  Min(S) \in S /\ \A n \in S : Min(S) <= n
<1>1. \E m \in S : \A n \in S : m <= n
  BY LeastNumber
<1> QED BY <1>1 DEF Min

LEMMA FirstFacts ==
  /\ First \in Lengths /\ Lengths \subseteq Nat \ {0}
  /\ \A l \in Lengths : First <= l /\ l % First = 0
<1>1. PICK f \in Lengths : \A l \in Lengths : f <= l /\ l % f = 0
  BY CandlesAssumption
<1>2. Lengths \in SUBSET Nat /\ Lengths # {} /\ Lengths \subseteq Nat \ {0}
  BY <1>1, CandlesAssumption
<1>3. First \in Lengths /\ \A l \in Lengths : First <= l
  BY <1>2, MinFacts DEF First
<1>4. First = f
  <2>1. First <= f /\ f <= First /\ First \in Nat /\ f \in Nat
    BY <1>1, <1>2, <1>3
  <2> QED BY <2>1
<1> QED BY <1>1, <1>2, <1>3, <1>4

\* The same product by a larger factor is larger by the other one at least.
LEMMA Larger ==
  ASSUME NEW d \in Nat \ {0}, NEW a \in Int, NEW b \in Int, a < b
  PROVE  d * a + d <= d * b
<1>1. PICK c \in Nat : b = a + 1 + c
  <2>1. b - a - 1 \in Nat /\ b = a + 1 + (b - a - 1)
    OBVIOUS
  <2> QED BY <2>1
<1>2. d * b = d * a + d + d * c
  BY <1>1
<1>3. d * c >= 0
  OBVIOUS
<1>4. PICK x \in Int, y \in Int, z \in Int : x = d * a /\ y = d * b /\ z = d * c
  OBVIOUS
<1> QED BY <1>2, <1>3, <1>4

LEMMA MultipleMod ==
  ASSUME NEW d \in Nat \ {0}, NEW a \in Int
  PROVE  (d * a) % d = 0
<1>1. PICK m \in Int : m = d * a
  OBVIOUS
<1>2. PICK e \in Int, r \in Int : e = m \div d /\ r = m % d
  BY <1>1
<1>3. m = d * e + r /\ 0 <= r /\ r < d
  BY <1>2
<1>4. ~(a < e)
  <2>1. ASSUME a < e PROVE FALSE
    <3>1. d * a + d <= d * e
      BY <2>1, Larger
    <3>2. PICK x \in Int : x = d * e
      OBVIOUS
    <3> QED BY <1>1, <1>3, <3>1, <3>2
  <2> QED BY <2>1
<1>5. ~(e < a)
  <2>1. ASSUME e < a PROVE FALSE
    <3>1. d * e + d <= d * a
      BY <2>1, Larger
    <3>2. PICK x \in Int : x = d * e
      OBVIOUS
    <3> QED BY <1>1, <1>3, <3>1, <3>2
  <2> QED BY <2>1
<1>6. a = e
  BY <1>4, <1>5
<1> QED BY <1>1, <1>2, <1>3, <1>6

LEMMA OpenTimeFacts ==
  ASSUME NEW t \in Nat, NEW d \in Nat \ {0}
  PROVE  /\ OpenTime(t, d) \in Nat /\ OpenTime(t, d) % d = 0
         /\ OpenTime(t, d) <= t /\ t < OpenTime(t, d) + d
<1>1. PICK q \in Nat : q = t \div d
  OBVIOUS
<1>2. PICK o \in Nat : o = d * q
  OBVIOUS
<1>3. OpenTime(t, d) = o
  BY <1>1, <1>2 DEF OpenTime
<1>4. o <= t /\ t < o + d
  BY <1>1, <1>2
<1>5. o % d = 0
  BY <1>2, MultipleMod
<1> QED BY <1>3, <1>4, <1>5

\* A multiple is a product.
LEMMA Divides ==
  ASSUME NEW d \in Nat \ {0}, NEW n \in Nat, n % d = 0
  PROVE  \E a \in Nat : n = d * a
<1>1. PICK a \in Nat : a = n \div d
  OBVIOUS
<1>2. n = d * a
  BY <1>1
<1> QED BY <1>2

\* Only one interval of a length has the time in it.
LEMMA OneInterval ==
  ASSUME NEW t \in Nat, NEW d \in Nat \ {0}, NEW o \in Nat, o % d = 0, o <= t, t < o + d
  PROVE  o = OpenTime(t, d)
<1>1. PICK p \in Nat : p = OpenTime(t, d)
  BY OpenTimeFacts
<1>2. p % d = 0 /\ p <= t /\ t < p + d
  BY <1>1, OpenTimeFacts
<1>3. PICK a \in Nat : o = d * a
  BY Divides
<1>4. PICK b \in Nat : p = d * b
  BY <1>2, Divides
<1>5. ~(a < b)
  <2>1. ASSUME a < b PROVE FALSE
    <3>1. d * a + d <= d * b
      BY <2>1, Larger
    <3> QED BY <1>2, <1>3, <1>4, <3>1
  <2> QED BY <2>1
<1>6. ~(b < a)
  <2>1. ASSUME b < a PROVE FALSE
    <3>1. d * b + d <= d * a
      BY <2>1, Larger
    <3> QED BY <1>2, <1>3, <1>4, <3>1
  <2> QED BY <2>1
<1>7. a = b
  BY <1>5, <1>6
<1> QED BY <1>1, <1>3, <1>4, <1>7

\* Keys of the table.
Grid == {k \in Lengths \X Nat : k[2] % k[1] = 0}

\* A longer interval has a time in it when it has the first interval of that time in it.
LEMMA Aligned ==
  ASSUME NEW t \in Nat, NEW k \in Grid
  PROVE  Within(OpenTime(t, First), k) <=> Within(t, k)
<1>1. PICK d \in Nat \ {0} : d = First
  BY FirstFacts
<1>2. PICK l \in Nat, o \in Nat : l = k[1] /\ o = k[2] /\ l \in Lengths /\ l \in Nat \ {0} /\ o % l = 0
  BY FirstFacts DEF Grid
<1>3. PICK c \in Nat : l = d * c
  BY <1>1, <1>2, FirstFacts, Divides
<1>4. PICK e \in Nat : o = l * e
  BY <1>2, Divides
<1>5. PICK b \in Nat : b = c * e
  OBVIOUS
<1>6. o = d * b
  BY <1>3, <1>4, <1>5
<1>7. PICK p \in Nat : p = OpenTime(t, d) /\ p % d = 0 /\ p <= t /\ t < p + d
  BY OpenTimeFacts
<1>8. PICK a \in Nat : p = d * a
  BY <1>7, Divides
<1>9. PICK n \in Nat : n = b + c
  OBVIOUS
<1>10. o + l = d * n
  BY <1>3, <1>6, <1>9
<1>11. ASSUME o <= p, p < o + l PROVE o <= t /\ t < o + l
  <2>1. a < n
    <3>1. ASSUME n <= a PROVE FALSE
      <4>1. CASE n = a
        BY <1>8, <1>10, <1>11, <4>1
      <4>2. CASE n < a
        <5>1. d * n + d <= d * a
          BY <4>2, Larger
        <5> QED BY <1>8, <1>10, <1>11, <5>1
      <4> QED BY <3>1, <4>1, <4>2
    <3> QED BY <3>1
  <2>2. d * a + d <= d * n
    BY <2>1, Larger
  <2> QED BY <1>7, <1>8, <1>10, <1>11, <2>2
<1>12. ASSUME o <= t, t < o + l PROVE o <= p /\ p < o + l
  <2>1. ASSUME a < b PROVE FALSE
    <3>1. d * a + d <= d * b
      BY <2>1, Larger
    <3> QED BY <1>6, <1>7, <1>8, <1>12, <3>1
  <2>2. b <= a
    BY <2>1
  <2>3. CASE b = a
    BY <1>6, <1>7, <1>8, <1>12, <2>3
  <2>4. CASE b < a
    <3>1. d * b + d <= d * a
      BY <2>4, Larger
    <3> QED BY <1>6, <1>7, <1>8, <1>12, <3>1
  <2> QED BY <2>2, <2>3, <2>4
<1> QED BY <1>1, <1>2, <1>7, <1>11, <1>12 DEF Within
-----------------------------------------------------------------------------
(* A settlement updates the first interval first, and then the longer      *)
(* ones: until it has come to a longer interval, what it brings is in the  *)
(* parts of that interval only.  Tables and settlements are parameters     *)
(* here, so that one lemma serves every column.                            *)

PartsIn(D, k) == {j \in D : j[1] = First /\ Within(j[2], k)}

\* Settlements that have updated the first interval and are still to update this one.
PendingIn(st, k) ==
  {s \in Settlements : /\ First \notin st[s].left /\ k[1] \in st[s].left
                       /\ Within(st[s].time, k)}

Trade == [price : Costs \cup {0}, quantity : Sizes \cup {0}, time : Times \cup {0},
          left : SUBSET Lengths]

\* The intervals that are left to update are the longer ones.
LongerLeft(r) == \A l \in r.left, m \in Lengths : l <= m => m \in r.left

\* st becomes st2 when s updates the next interval, which is the one of key, at time t.
Upsert(st, st2, s, l, t, key) ==
  /\ l \in Lengths /\ t \in Nat /\ key = <<l, OpenTime(t, l)>>
  /\ l \in st[s].left /\ st[s].left \subseteq Lengths /\ st[s].time = t /\ LongerLeft(st[s])
  /\ \A m \in st[s].left : l <= m
  /\ st2[s].left = st[s].left \ {l}
  /\ st2[s].left # {} => st2[s].time = t
  /\ \A r \in Settlements \ {s} : st2[r] = st[r]

LEMMA UpsertKey ==
  ASSUME NEW st, NEW st2, NEW s \in Settlements, NEW l, NEW t, NEW key, Upsert(st, st2, s, l, t, key)
  PROVE  /\ key \in Grid /\ key[1] = l /\ Within(t, key)
         /\ \A k \in Grid : (k[1] = l /\ Within(t, k)) => k = key
         /\ \A k \in Grid : (l = First) => (Within(key[2], k) <=> Within(t, k))
<1>1. l \in Lengths /\ l \in Nat \ {0} /\ t \in Nat /\ key = <<l, OpenTime(t, l)>>
  BY FirstFacts DEF Upsert
<1>2. /\ OpenTime(t, l) \in Nat /\ OpenTime(t, l) % l = 0
      /\ OpenTime(t, l) <= t /\ t < OpenTime(t, l) + l
  BY <1>1, OpenTimeFacts
<1>3. key \in Grid /\ key[1] = l /\ Within(t, key)
  BY <1>1, <1>2 DEF Grid, Within
<1>4. ASSUME NEW k \in Grid, k[1] = l, Within(t, k) PROVE k = key
  <2>1. k = <<l, k[2]>> /\ k[2] \in Nat /\ k[2] % l = 0 /\ k[2] <= t /\ t < k[2] + l
    BY <1>4 DEF Grid, Within
  <2>2. k[2] = OpenTime(t, l)
    BY <1>1, <2>1, OneInterval
  <2> QED BY <1>1, <2>1, <2>2
<1>5. ASSUME NEW k \in Grid, l = First PROVE Within(key[2], k) <=> Within(t, k)
  <2>1. Within(OpenTime(t, First), k) <=> Within(t, k)
    BY <1>1, Aligned
  <2> QED BY <1>1, <1>5, <2>1
<1> QED BY <1>3, <1>4, <1>5

\* What the update means for the parts of an interval, and for what it still waits for.
UpsertEffect(st, st2, s, key, D, k) ==
  \/ /\ k = key /\ PartsIn(D \cup {key}, k) = PartsIn(D, k) \cup {key}
     /\ s \notin PendingIn(st, k) /\ PendingIn(st2, k) = PendingIn(st, k)
  \/ /\ k # key /\ PartsIn(D \cup {key}, k) = PartsIn(D, k) \cup {key}
     /\ s \notin PendingIn(st, k) /\ PendingIn(st2, k) = PendingIn(st, k) \cup {s}
     /\ st2[s].left # {} /\ (key \in D => key \in PartsIn(D, k))
  \/ /\ k = key /\ PartsIn(D \cup {key}, k) = PartsIn(D, k) /\ key \notin PartsIn(D, k)
     /\ s \in PendingIn(st, k) /\ PendingIn(st2, k) = PendingIn(st, k) \ {s}
  \/ /\ k # key /\ PartsIn(D \cup {key}, k) = PartsIn(D, k) /\ key \notin PartsIn(D, k)
     /\ PendingIn(st2, k) = PendingIn(st, k)
     /\ s \in PendingIn(st, k) => st2[s].left # {}

LEMMA UpsertSets ==
  ASSUME NEW st, NEW st2, NEW s \in Settlements, NEW l, NEW t, NEW key, Upsert(st, st2, s, l, t, key),
         NEW D \in SUBSET Grid, NEW k \in Grid
  PROVE  UpsertEffect(st, st2, s, key, D, k)
<1>1. /\ key \in Grid /\ key[1] = l /\ Within(t, key)
      /\ (k[1] = l /\ Within(t, k)) => k = key
      /\ (l = First) => (Within(key[2], k) <=> Within(t, k))
  BY UpsertKey
<1>2. /\ First \in Lengths /\ First \in Nat /\ \A m \in Lengths : m \in Nat /\ First <= m
      /\ k[1] \in Lengths
  BY FirstFacts DEF Grid
<1>3. /\ l \in st[s].left /\ st[s].left \subseteq Lengths /\ st[s].time = t
      /\ \A m \in st[s].left : l <= m
      /\ st2[s].left = st[s].left \ {l}
      /\ st2[s].left # {} => st2[s].time = t
      /\ \A r \in Settlements \ {s} : st2[r] = st[r]
      /\ \A m \in Lengths : l <= m => m \in st[s].left
  BY DEF Upsert, LongerLeft
<1>4. First \in st[s].left <=> l = First
  <2>1. First <= l /\ l \in Nat
    BY <1>2, <1>3
  <2>2. First \in st[s].left => l <= First
    BY <1>3
  <2> QED BY <1>2, <1>3, <2>1, <2>2
<1>5. l = First => st[s].left = Lengths
  BY <1>2, <1>3
<1>6. First \notin st2[s].left
  BY <1>2, <1>3, <1>4
<1>7. \A r \in Settlements \ {s} : r \in PendingIn(st, k) <=> r \in PendingIn(st2, k)
  BY <1>3 DEF PendingIn
<1>8. PendingIn(st, k) \subseteq Settlements /\ PendingIn(st2, k) \subseteq Settlements
  BY DEF PendingIn
<1>9. s \in PendingIn(st, k) <=> l # First /\ k[1] \in st[s].left /\ Within(t, k)
  BY <1>3, <1>4 DEF PendingIn
<1>10. s \in PendingIn(st2, k) <=> k[1] \in st[s].left /\ k[1] # l /\ Within(t, k)
  BY <1>3, <1>6 DEF PendingIn
<1>11. CASE l = First /\ Within(t, k)
  <2>1. PartsIn(D \cup {key}, k) = PartsIn(D, k) \cup {key} /\ (key \in D => key \in PartsIn(D, k))
    BY <1>1, <1>11 DEF PartsIn
  <2>2. s \notin PendingIn(st, k)
    BY <1>9, <1>11
  <2>3. CASE k[1] = First
    <3>1. k = key /\ s \notin PendingIn(st2, k)
      BY <1>1, <1>10, <1>11, <2>3
    <3>2. PendingIn(st2, k) = PendingIn(st, k)
      BY <1>7, <1>8, <2>2, <3>1
    <3> QED BY <2>1, <2>2, <3>1, <3>2 DEF UpsertEffect
  <2>4. CASE k[1] # First
    <3>1. k # key /\ s \in PendingIn(st2, k) /\ st2[s].left # {}
      BY <1>1, <1>2, <1>3, <1>5, <1>10, <1>11, <2>4
    <3>2. PendingIn(st2, k) = PendingIn(st, k) \cup {s}
      BY <1>7, <1>8, <2>2, <3>1
    <3> QED BY <2>1, <2>2, <3>1, <3>2 DEF UpsertEffect
  <2> QED BY <2>3, <2>4
<1>12. CASE ~(l = First /\ Within(t, k))
  <2>1. PartsIn(D \cup {key}, k) = PartsIn(D, k) /\ key \notin PartsIn(D, k)
    BY <1>1, <1>12 DEF PartsIn
  <2>2. CASE k = key
    <3>1. l # First /\ s \in PendingIn(st, k) /\ s \notin PendingIn(st2, k)
      BY <1>1, <1>3, <1>9, <1>10, <1>12, <2>2
    <3>2. PendingIn(st2, k) = PendingIn(st, k) \ {s}
      BY <1>7, <1>8, <3>1
    <3> QED BY <2>1, <2>2, <3>1, <3>2 DEF UpsertEffect
  <2>3. CASE k # key
    <3>1. s \in PendingIn(st, k) <=> s \in PendingIn(st2, k)
      BY <1>1, <1>9, <1>10, <1>12, <2>3
    <3>2. PendingIn(st2, k) = PendingIn(st, k)
      BY <1>7, <1>8, <3>1
    <3>3. s \in PendingIn(st, k) => st2[s].left # {}
      BY <3>1, <1>10, <1>3
    <3> QED BY <2>1, <2>3, <3>2, <3>3 DEF UpsertEffect
  <2> QED BY <2>2, <2>3
<1> QED BY <1>11, <1>12 DEF UpsertEffect

\* A column that adds up: an interval has the sum of its parts, but for what it waits for.
Column(D, F, k) == IF k \in D THEN F[k] ELSE 0

SumsMatch(D, F, st, w, k) ==
  SumOver(F, PartsIn(D, k)) = Column(D, F, k) + SumOver(w, PendingIn(st, k))

LEMMA UpsertSums ==
  ASSUME NEW st, NEW st2, NEW s \in Settlements, NEW l, NEW t, NEW key, Upsert(st, st2, s, l, t, key),
         NEW D \in SUBSET Grid, IsFiniteSet(D), NEW k \in Grid, NEW q \in Int,
         NEW F, NEW G, \A j \in D : F[j] \in Int, \A j \in D \ {key} : G[j] = F[j],
         G[key] = Column(D, F, key) + q,
         NEW v, NEW w, \A r \in Settlements : v[r] \in Int,
         \A r \in Settlements \ {s} : w[r] = v[r],
         v[s] = q, st2[s].left # {} => w[s] = q,
         SumsMatch(D, F, st, v, k)
  PROVE  SumsMatch(D \cup {key}, G, st2, w, k)
<1>1. PICK P, W : P = PartsIn(D, k) /\ W = PendingIn(st, k)
  OBVIOUS
<1>2. P \subseteq D /\ W \subseteq Settlements
  BY <1>1 DEF PartsIn, PendingIn
<1>3. IsFiniteSet(P) /\ IsFiniteSet(W)
  BY <1>2, FS_Subset, CandlesAssumption
<1>4. /\ \A j \in P : F[j] \in Int
      /\ \A j \in P \ {key} : G[j] = F[j]
      /\ \A r \in W : v[r] \in Int
      /\ \A r \in W \ {s} : w[r] = v[r]
  BY <1>2
<1>5. PICK x \in Int : x = SumOver(F, P)
  BY <1>3, <1>4, SumType
<1>6. PICK y \in Int : y = SumOver(v, W)
  BY <1>3, <1>4, SumType
<1>7. PICK c \in Int : c = Column(D, F, k)
  BY DEF Column
<1>8. x = c + y
  BY <1>1, <1>5, <1>6, <1>7 DEF SumsMatch
<1>9. k = key => Column(D \cup {key}, G, k) = c + q
  BY <1>7 DEF Column
<1>10. k # key => Column(D \cup {key}, G, k) = c
  BY <1>7 DEF Column
<1>11. ASSUME key \in D => key \in P PROVE SumOver(G, P \cup {key}) = x + q
  <2>1. G[key] = (IF key \in P THEN F[key] ELSE 0) + q
    BY <1>2, <1>11 DEF Column
  <2>2. SumOver(G, P \cup {key}) = SumOver(F, P) + q
    <3>1. \A j \in P : F[j] \in Int
      BY <1>4
    <3>2. \A j \in P \ {key} : G[j] = F[j]
      BY <1>4
    <3>3. IsFiniteSet(P)
      BY <1>3
    <3> QED BY ONLY q \in Int, <2>1, <3>1, <3>2, <3>3, SumPut
  <2> QED BY <1>5, <2>2
<1>12. ASSUME key \notin P PROVE SumOver(G, P) = x
  <2>1. \A j \in P : F[j] = G[j]
    BY <1>4, <1>12
  <2>2. SumOver(F, P) = SumOver(G, P)
    BY ONLY <1>3, <2>1, SumEqual
  <2> QED BY <1>5, <2>2
<1>13. ASSUME s \notin W \/ w[s] = q PROVE SumOver(w, W) = y
  <2>1. \A r \in W : v[r] = w[r]
    BY <1>4, <1>13
  <2>2. SumOver(v, W) = SumOver(w, W)
    BY ONLY <1>3, <2>1, SumEqual
  <2> QED BY <1>6, <2>2
<1>14. CASE /\ k = key /\ PartsIn(D \cup {key}, k) = P \cup {key}
            /\ s \notin W /\ PendingIn(st2, k) = W
  <2>1. key \in D => key \in P
    <3>1. \/ key \in P \/ key \notin D \/ PartsIn(D \cup {key}, k) = PartsIn(D, k)
      <4>1. key \in D => D \cup {key} = D
        OBVIOUS
      <4> QED BY <4>1
    <3> QED BY <1>1, <1>14, <3>1
  <2> QED BY <1>8, <1>9, <1>11, <1>13, <1>14, <2>1 DEF SumsMatch
<1>15. CASE /\ k # key /\ PartsIn(D \cup {key}, k) = P \cup {key}
            /\ s \notin W /\ PendingIn(st2, k) = W \cup {s}
            /\ st2[s].left # {} /\ (key \in D => key \in P)
  <2>1. \A r \in W : v[r] = w[r]
    BY <1>4, <1>15
  <2>2. \A r \in W \cup {s} : w[r] \in Int
    BY <1>4, <1>15, <2>1
  <2>3. SumOver(w, W \cup {s}) = w[s] + SumOver(w, W)
    BY ONLY <1>3, <1>15, <2>2, SumAdd
  <2>4. SumOver(w, W \cup {s}) = q + y
    BY <1>13, <1>15, <2>3
  <2>5. SumOver(G, PartsIn(D \cup {key}, k)) = x + q
    BY <1>11, <1>15
  <2>6. SumOver(w, PendingIn(st2, k)) = q + y
    BY <1>15, <2>4
  <2> QED BY <1>8, <1>10, <1>15, <2>5, <2>6 DEF SumsMatch
<1>16. CASE /\ k = key /\ PartsIn(D \cup {key}, k) = P /\ key \notin P
            /\ s \in W /\ PendingIn(st2, k) = W \ {s}
  <2>1. SumOver(v, W) = v[s] + SumOver(v, W \ {s})
    BY ONLY <1>3, <1>4, <1>16, SumRemove
  <2>2. IsFiniteSet(W \ {s}) /\ \A r \in W \ {s} : v[r] \in Int /\ v[r] = w[r]
    BY <1>3, <1>4, FS_Subset
  <2>3. SumOver(v, W \ {s}) = SumOver(w, W \ {s})
    BY ONLY <2>2, SumEqual
  <2>4. SumOver(v, W \ {s}) \in Int
    BY <2>2, SumType
  <2>5. SumOver(w, W \ {s}) = y - q
    BY <1>6, <2>1, <2>3, <2>4
  <2>6. SumOver(G, PartsIn(D \cup {key}, k)) = x
    BY <1>12, <1>16
  <2>7. SumOver(w, PendingIn(st2, k)) = y - q
    BY <1>16, <2>5
  <2> QED BY <1>8, <1>9, <1>16, <2>6, <2>7 DEF SumsMatch
<1>17. CASE /\ k # key /\ PartsIn(D \cup {key}, k) = P /\ key \notin P
            /\ PendingIn(st2, k) = W
            /\ s \in W => st2[s].left # {}
  <2>1. s \notin W \/ w[s] = q
    BY <1>17
  <2>2. SumOver(G, PartsIn(D \cup {key}, k)) = x
    BY <1>12, <1>17
  <2>3. SumOver(w, PendingIn(st2, k)) = y
    BY <1>13, <1>17, <2>1
  <2>4. Column(D \cup {key}, G, k) = c
    BY <1>10, <1>17
  <2> QED BY <1>8, <2>2, <2>3, <2>4 DEF SumsMatch
<1>18. UpsertEffect(st, st2, s, key, D, k)
  BY UpsertSets
<1> QED BY <1>1, <1>14, <1>15, <1>16, <1>17, <1>18 DEF UpsertEffect

\* A column of peaks: an interval is as high as the highest of its parts, but for what it
\* waits for.
PeaksMatch(D, H, st, p, k) ==
  /\ \A j \in PartsIn(D, k) :
       (k \in D /\ H[j] <= H[k]) \/ \E r \in PendingIn(st, k) : H[j] <= p[r]
  /\ k \in D => \E j \in PartsIn(D, k) : H[k] <= H[j]
  /\ \A r \in PendingIn(st, k) : \E j \in PartsIn(D, k) : p[r] <= H[j]

LEMMA UpsertPeaks ==
  ASSUME NEW st, NEW st2, NEW s \in Settlements, NEW l, NEW t, NEW key, Upsert(st, st2, s, l, t, key),
         NEW D \in SUBSET Grid, NEW k \in Grid, NEW q \in Int,
         NEW H, NEW G, \A j \in D : H[j] \in Int, \A j \in D \ {key} : G[j] = H[j],
         G[key] \in Int, q <= G[key], key \in D => H[key] <= G[key],
         G[key] = q \/ (key \in D /\ G[key] = H[key]),
         NEW p, NEW w, \A r \in Settlements : p[r] \in Int,
         \A r \in Settlements \ {s} : w[r] = p[r],
         p[s] = q, st2[s].left # {} => w[s] = q,
         PeaksMatch(D, H, st, p, k)
  PROVE  PeaksMatch(D \cup {key}, G, st2, w, k)
<1>1. PICK E, P, Q, W, X : /\ E = D \cup {key} /\ P = PartsIn(D, k) /\ Q = PartsIn(D \cup {key}, k)
                           /\ W = PendingIn(st, k) /\ X = PendingIn(st2, k)
  OBVIOUS
<1>2. P \subseteq D /\ W \subseteq Settlements
  BY <1>1 DEF PartsIn, PendingIn
<1>3. /\ \A j \in D : H[j] \in Int /\ G[j] \in Int /\ H[j] <= G[j]
      /\ \A j \in D \ {key} : G[j] = H[j]
      /\ \A r \in W : p[r] \in Int
      /\ \A r \in W \ {s} : w[r] = p[r]
  <2>1. ASSUME NEW j \in D PROVE H[j] \in Int /\ G[j] \in Int /\ H[j] <= G[j]
    <3>1. CASE j = key
      BY <3>1
    <3>2. CASE j # key
      BY <3>2
    <3> QED BY <3>1, <3>2
  <2> QED BY <1>2, <2>1
<1>4. /\ \A j \in P : (k \in D /\ H[j] <= H[k]) \/ \E r \in W : H[j] <= p[r]
      /\ k \in D => \E j \in P : H[k] <= H[j]
      /\ \A r \in W : \E j \in P : p[r] <= H[j]
  BY <1>1 DEF PeaksMatch
<1> SUFFICES /\ \A j \in Q : (k \in E /\ G[j] <= G[k]) \/ \E r \in X : G[j] <= w[r]
             /\ k \in E => \E j \in Q : G[k] <= G[j]
             /\ \A r \in X : \E j \in Q : w[r] <= G[j]
  BY <1>1 DEF PeaksMatch
<1>5. CASE k = key /\ Q = P \cup {key} /\ s \notin W /\ X = W
  <2>1. ASSUME NEW j \in Q PROVE (k \in E /\ G[j] <= G[k]) \/ \E r \in X : G[j] <= w[r]
    <3>1. CASE j = key
      BY <1>1, <1>5, <3>1
    <3>2. CASE j \in P /\ j # key
      <4>1. CASE k \in D /\ H[j] <= H[k]
        BY <1>1, <1>2, <1>3, <1>5, <3>2, <4>1
      <4>2. CASE \E r \in W : H[j] <= p[r]
        BY <1>2, <1>3, <1>5, <3>2, <4>2
      <4> QED BY <1>4, <3>2, <4>1, <4>2
    <3> QED BY <1>5, <3>1, <3>2
  <2>2. ASSUME NEW r \in X PROVE \E j \in Q : w[r] <= G[j]
    <3>1. PICK j \in P : p[r] <= H[j]
      BY <1>4, <1>5
    <3> QED BY <1>2, <1>3, <1>5, <3>1
  <2> QED BY <1>1, <1>5, <2>1, <2>2
<1>6. CASE /\ k # key /\ Q = P \cup {key} /\ s \notin W /\ X = W \cup {s}
           /\ st2[s].left # {} /\ (key \in D => key \in P)
  <2>1. w[s] = q
    BY <1>6
  <2>2. ASSUME NEW j \in P, G[j] = H[j]
        PROVE  (k \in E /\ G[j] <= G[k]) \/ \E r \in X : G[j] <= w[r]
    <3>1. CASE k \in D /\ H[j] <= H[k]
      BY <1>1, <1>3, <1>6, <2>2, <3>1
    <3>2. CASE \E r \in W : H[j] <= p[r]
      BY <1>3, <1>6, <2>2, <3>2
    <3> QED BY <1>4, <2>2, <3>1, <3>2
  <2>3. ASSUME NEW j \in Q PROVE (k \in E /\ G[j] <= G[k]) \/ \E r \in X : G[j] <= w[r]
    <3>1. CASE j = key /\ G[key] = q
      <4>1. G[j] <= w[s]
        BY <2>1, <3>1
      <4> QED BY <1>6, <4>1
    <3>2. CASE j = key /\ key \in D /\ G[key] = H[key]
      BY <1>6, <2>2, <3>2
    <3>3. CASE j \in P /\ j # key
      BY <1>2, <1>3, <2>2, <3>3
    <3> QED BY <1>6, <3>1, <3>2, <3>3
  <2>4. ASSUME NEW r \in X PROVE \E j \in Q : w[r] <= G[j]
    <3>1. CASE r = s
      BY <1>6, <2>1, <3>1
    <3>2. CASE r \in W
      <4>1. PICK j \in P : p[r] <= H[j]
        BY <1>4, <3>2
      <4> QED BY <1>2, <1>3, <1>6, <3>2, <4>1
    <3> QED BY <1>6, <3>1, <3>2
  <2>5. k \in E => \E j \in Q : G[k] <= G[j]
    <3>1. SUFFICES ASSUME k \in D PROVE \E j \in Q : G[k] <= G[j]
      BY <1>1, <1>6
    <3>2. PICK j \in P : H[k] <= H[j]
      BY <1>4, <3>1
    <3> QED BY <1>2, <1>3, <1>6, <3>1, <3>2
  <2> QED BY <2>3, <2>4, <2>5
<1>7. CASE k = key /\ Q = P /\ key \notin P /\ s \in W /\ X = W \ {s}
  <2>1. \A j \in P : G[j] = H[j] /\ H[j] \in Int
    BY <1>2, <1>3, <1>7
  <2>2. ASSUME NEW j \in Q PROVE (k \in E /\ G[j] <= G[k]) \/ \E r \in X : G[j] <= w[r]
    <3>1. CASE k \in D /\ H[j] <= H[k]
      BY <1>1, <1>3, <1>7, <2>1, <3>1
    <3>2. ASSUME NEW r \in W, H[j] <= p[r]
          PROVE  (k \in E /\ G[j] <= G[k]) \/ \E i \in X : G[j] <= w[i]
      <4>1. CASE r = s
        BY <1>1, <1>7, <2>1, <3>2, <4>1
      <4>2. CASE r # s
        BY <1>3, <1>7, <2>1, <3>2, <4>2
      <4> QED BY <4>1, <4>2
    <3> QED BY <1>4, <1>7, <3>1, <3>2
  <2>3. \E j \in Q : G[k] <= G[j]
    <3>1. CASE G[key] = q
      <4>1. PICK j \in P : p[s] <= H[j]
        BY <1>4, <1>7
      <4> QED BY <1>7, <2>1, <3>1, <4>1
    <3>2. CASE key \in D /\ G[key] = H[key]
      <4>1. PICK j \in P : H[k] <= H[j]
        BY <1>4, <1>7, <3>2
      <4> QED BY <1>7, <2>1, <3>2, <4>1
    <3> QED BY <3>1, <3>2
  <2>4. ASSUME NEW r \in X PROVE \E j \in Q : w[r] <= G[j]
    <3>1. PICK j \in P : p[r] <= H[j]
      BY <1>4, <1>7
    <3> QED BY <1>3, <1>7, <2>1, <3>1
  <2> QED BY <2>2, <2>3, <2>4
<1>8. CASE k # key /\ Q = P /\ key \notin P /\ X = W /\ (s \in W => st2[s].left # {})
  <2>1. \A j \in P : G[j] = H[j]
    BY <1>2, <1>3, <1>8
  <2>2. \A r \in W : w[r] = p[r]
    BY <1>3, <1>8
  <2>3. k \in E <=> k \in D
    BY <1>1, <1>8
  <2>4. k \in D => G[k] = H[k]
    BY <1>8
  <2>5. ASSUME NEW j \in Q PROVE (k \in E /\ G[j] <= G[k]) \/ \E r \in X : G[j] <= w[r]
    BY <1>4, <1>8, <2>1, <2>2, <2>3, <2>4
  <2>6. k \in E => \E j \in Q : G[k] <= G[j]
    BY <1>4, <1>8, <2>1, <2>3, <2>4
  <2>7. ASSUME NEW r \in X PROVE \E j \in Q : w[r] <= G[j]
    <3>1. PICK j \in P : p[r] <= H[j]
      BY <1>4, <1>8
    <3> QED BY <1>8, <2>1, <2>2, <3>1
  <2> QED BY <2>5, <2>6, <2>7
<1>9. UpsertEffect(st, st2, s, key, D, k)
  BY UpsertSets
<1> QED BY <1>1, <1>5, <1>6, <1>7, <1>8, <1>9 DEF UpsertEffect

-----------------------------------------------------------------------------
(* The columns of the table, and what the settlements that are under way   *)
(* bring to them.  The lowest price is the highest of the negated ones.    *)

Highs == [k \in DOMAIN ohlcv |-> ohlcv[k].high]
Lows == [k \in DOMAIN ohlcv |-> -ohlcv[k].low]
Incoming == [s \in Settlements |-> settling[s].quantity]
Ones == [s \in Settlements |-> 1]
Prices == [s \in Settlements |-> settling[s].price]
Discounts == [s \in Settlements |-> -settling[s].price]

Matched(k) ==
  /\ SumsMatch(DOMAIN ohlcv, Volumes, settling, Incoming, k)
  /\ SumsMatch(DOMAIN ohlcv, TradeCounts, settling, Ones, k)
  /\ PeaksMatch(DOMAIN ohlcv, Highs, settling, Prices, k)
  /\ PeaksMatch(DOMAIN ohlcv, Lows, settling, Discounts, k)

Untorn(k) == \A t \in torn : ~Within(t, k)

OfLength(D, l) == {k \in D : k[1] = l}

StillToUpdate(st, l) == {s \in Settlements : l \in st[s].left}

\* A settlement that is still to update a length has not been counted in it.
LengthCounted(l) ==
  SumOver(TradeCounts, OfLength(DOMAIN ohlcv, l)) + Cardinality(StillToUpdate(settling, l)) <= settlements

TableShape ==
  /\ DOMAIN ohlcv \subseteq Grid /\ IsFiniteSet(DOMAIN ohlcv)
  /\ ohlcv \in [DOMAIN ohlcv -> Candle]

SettlingShape ==
  /\ settling \in [Settlements -> Trade]
  /\ \A s \in Settlements :
       /\ LongerLeft(settling[s])
       /\ settling[s].left # {} =>
            settling[s].price \in Costs /\ settling[s].quantity \in Sizes /\ settling[s].time \in Times
  /\ settlements \in 0 .. MaxSettlements /\ torn \subseteq Times

CandlesOK ==
  /\ TableShape /\ SettlingShape
  /\ \A k \in Grid : Untorn(k) => Matched(k)
  /\ \A l \in Lengths : LengthCounted(l)

CandlesInv ==
  /\ CandlesOK
  /\ notices \subseteq [price : Costs, quantity : Sizes, time : Times]
  /\ consumer \in {"open", "closed"}

\* What is not an integer is none of the columns.
LEMMA ColumnsType ==
  ASSUME TableShape, SettlingShape
  PROVE  /\ \A k \in DOMAIN ohlcv : /\ Volumes[k] \in Int /\ TradeCounts[k] \in Nat
                                    /\ Highs[k] \in Int /\ Lows[k] \in Int
         /\ \A s \in Settlements : /\ Incoming[s] \in Int /\ Ones[s] \in Int
                                   /\ Prices[s] \in Int /\ Discounts[s] \in Int
<1>1. \A k \in DOMAIN ohlcv : ohlcv[k] \in Candle
  BY DEF TableShape
<1>2. \A s \in Settlements : settling[s] \in Trade
  BY DEF SettlingShape
<1>3. Costs \subseteq Int /\ Sizes \subseteq Int
  BY CandlesAssumption
<1>4. ASSUME NEW k \in DOMAIN ohlcv
      PROVE  Volumes[k] \in Int /\ TradeCounts[k] \in Nat /\ Highs[k] \in Int /\ Lows[k] \in Int
  <2>1. /\ ohlcv[k].volume \in Int /\ ohlcv[k].trade_count \in Nat
        /\ ohlcv[k].high \in Costs /\ ohlcv[k].low \in Costs
    BY <1>1 DEF Candle
  <2>2. PICK h \in Int, n \in Int : h = ohlcv[k].high /\ n = ohlcv[k].low
    <3>1. Costs \subseteq Int
      BY <1>3
    <3> QED BY <2>1, <3>1
  <2>3. Highs[k] = h /\ Lows[k] = -n /\ Volumes[k] = ohlcv[k].volume /\ TradeCounts[k] = ohlcv[k].trade_count
    BY <2>2 DEF Volumes, TradeCounts, Highs, Lows
  <2> QED BY <2>1, <2>2, <2>3
<1>5. ASSUME NEW s \in Settlements
      PROVE  Incoming[s] \in Int /\ Ones[s] \in Int /\ Prices[s] \in Int /\ Discounts[s] \in Int
  <2>1. settling[s].price \in Costs \cup {0} /\ settling[s].quantity \in Sizes \cup {0}
    BY <1>2 DEF Trade
  <2>2. PICK p \in Int, q \in Int : p = settling[s].price /\ q = settling[s].quantity
    <3>1. Costs \cup {0} \subseteq Int /\ Sizes \cup {0} \subseteq Int
      BY <1>3
    <3> QED BY <2>1, <3>1
  <2>3. Prices[s] = p /\ Discounts[s] = -p /\ Incoming[s] = q /\ Ones[s] = 1
    BY <2>2 DEF Incoming, Ones, Prices, Discounts
  <2> QED BY <2>2, <2>3
<1> QED BY <1>4, <1>5

LEMMA MaxIs ==
  ASSUME NEW S \in SUBSET Int, NEW m \in S, \A n \in S : n <= m
  PROVE  Max(S) = m
<1>1. Max(S) \in S /\ \A n \in S : Max(S) >= n
  <2>1. \E x \in S : \A n \in S : x >= n
    <3>1. \A n \in S : m >= n
      OBVIOUS
    <3> QED BY <3>1
  <2> QED BY <2>1 DEF Max
<1>2. Max(S) \in Int /\ m \in Int /\ Max(S) >= m /\ Max(S) <= m
  BY <1>1
<1> QED BY <1>2

LEMMA MinIs ==
  ASSUME NEW S \in SUBSET Int, NEW m \in S, \A n \in S : m <= n
  PROVE  Min(S) = m
<1>1. Min(S) \in S /\ \A n \in S : Min(S) <= n
  <2>1. \E x \in S : \A n \in S : x <= n
    OBVIOUS
  <2> QED BY <2>1 DEF Min
<1>2. Min(S) \in Int /\ m \in Int /\ Min(S) >= m /\ Min(S) <= m
  BY <1>1
<1> QED BY <1>2

LEMMA CandlesInvType == CandlesInv => CandlesTypeOK
<1> SUFFICES ASSUME CandlesInv PROVE CandlesTypeOK
  OBVIOUS
<1>1. \A k \in DOMAIN ohlcv : k[1] \in Lengths /\ k[2] % k[1] = 0 /\ ohlcv[k] \in Candle
  BY DEF CandlesInv, CandlesOK, TableShape, Grid
<1> QED BY <1>1 DEF CandlesInv, CandlesOK, SettlingShape, Trade, CandlesTypeOK

LEMMA CandlesInvAddUp == CandlesInv => CandlesAddUp
<1> SUFFICES ASSUME CandlesInv PROVE CandlesAddUp
  OBVIOUS
<1> USE DEF CandlesInv, CandlesOK
<1>1. ASSUME NEW k \in DOMAIN ohlcv, Whole(k)
      PROVE  /\ Parts(k) # {}
             /\ ohlcv[k].volume = SumOver(Volumes, Parts(k))
             /\ ohlcv[k].trade_count = SumOver(TradeCounts, Parts(k))
             /\ ohlcv[k].high = Max({ohlcv[j].high : j \in Parts(k)})
             /\ ohlcv[k].low = Min({ohlcv[j].low : j \in Parts(k)})
  <2>1. k \in Grid /\ Untorn(k)
    BY <1>1 DEF TableShape, Whole, Untorn
  <2>2. PendingIn(settling, k) = {}
    BY <1>1 DEF Whole, PendingIn
  <2>3. Matched(k)
    BY <2>1
  <2>4. PICK P \in SUBSET DOMAIN ohlcv : P = Parts(k) /\ P = PartsIn(DOMAIN ohlcv, k)
    BY DEF Parts, PartsIn, First
  <2>5. Volumes[k] = SumOver(Volumes, P)
    <3>1. Volumes[k] \in Int
      BY <1>1, ColumnsType
    <3>2. SumOver(Volumes, P) = Volumes[k] + 0
      BY <1>1, <2>2, <2>3, <2>4, SumEmpty DEF Matched, SumsMatch, Column
    <3> QED BY <3>1, <3>2
  <2>6. TradeCounts[k] = SumOver(TradeCounts, P)
    <3>1. TradeCounts[k] \in Int
      BY <1>1, ColumnsType
    <3>2. SumOver(TradeCounts, P) = TradeCounts[k] + 0
      BY <1>1, <2>2, <2>3, <2>4, SumEmpty DEF Matched, SumsMatch, Column
    <3> QED BY <3>1, <3>2
  <2>7. (\A j \in P : Highs[j] <= Highs[k]) /\ \E j \in P : Highs[k] <= Highs[j]
    BY <1>1, <2>2, <2>3, <2>4 DEF Matched, PeaksMatch
  <2>8. (\A j \in P : Lows[j] <= Lows[k]) /\ \E j \in P : Lows[k] <= Lows[j]
    BY <1>1, <2>2, <2>3, <2>4 DEF Matched, PeaksMatch
  <2>9. \A j \in DOMAIN ohlcv : /\ Highs[j] = ohlcv[j].high /\ Lows[j] = -ohlcv[j].low
                                /\ ohlcv[j].high \in Int /\ ohlcv[j].low \in Int
    BY CandlesAssumption DEF TableShape, Candle, Highs, Lows
  <2>10. ohlcv[k].high = Max({ohlcv[j].high : j \in P})
    <3>1. PICK S \in SUBSET Int : S = {ohlcv[j].high : j \in P}
      BY <2>9
    <3>2. PICK m \in Int : m = ohlcv[k].high
      BY <1>1, <2>9
    <3>3. \A n \in S : n <= m
      BY <1>1, <2>7, <2>9, <3>1, <3>2
    <3>4. m \in S
      <4>1. PICK j \in P : m <= ohlcv[j].high
        BY <1>1, <2>7, <2>9, <3>2
      <4>2. ohlcv[j].high <= m /\ ohlcv[j].high \in Int /\ ohlcv[j].high \in S
        BY <2>9, <3>1, <3>3
      <4> QED BY <4>1, <4>2
    <3> QED BY <3>1, <3>2, <3>3, <3>4, MaxIs
  <2>11. ohlcv[k].low = Min({ohlcv[j].low : j \in P})
    <3>1. PICK S \in SUBSET Int : S = {ohlcv[j].low : j \in P}
      BY <2>9
    <3>2. PICK m \in Int : m = ohlcv[k].low
      BY <1>1, <2>9
    <3>3. \A n \in S : m <= n
      <4>1. \A j \in P : m <= ohlcv[j].low
        BY <1>1, <2>8, <2>9, <3>2
      <4> QED BY <3>1, <4>1
    <3>4. m \in S
      <4>1. PICK j \in P : ohlcv[j].low <= m
        BY <1>1, <2>8, <2>9, <3>2
      <4>2. m <= ohlcv[j].low /\ ohlcv[j].low \in Int /\ ohlcv[j].low \in S
        BY <2>9, <3>1, <3>3
      <4> QED BY <4>1, <4>2
    <3> QED BY <3>1, <3>2, <3>3, <3>4, MinIs
  <2>12. ohlcv[k].volume = Volumes[k] /\ ohlcv[k].trade_count = TradeCounts[k]
    BY <1>1 DEF Volumes, TradeCounts
  <2> QED BY <2>4, <2>5, <2>6, <2>7, <2>10, <2>11, <2>12
<1>2. ASSUME NEW l \in Lengths
      PROVE  SumOver(TradeCounts, {k \in DOMAIN ohlcv : k[1] = l}) <= settlements
  <2>1. IsFiniteSet(StillToUpdate(settling, l)) /\ IsFiniteSet(OfLength(DOMAIN ohlcv, l))
    BY CandlesAssumption, FS_Subset DEF StillToUpdate, OfLength, TableShape
  <2>2. PICK c \in Nat : c = Cardinality(StillToUpdate(settling, l))
    BY <2>1, FS_CardinalityType
  <2>3. PICK x \in Int : x = SumOver(TradeCounts, OfLength(DOMAIN ohlcv, l))
    <3>1. \A k \in OfLength(DOMAIN ohlcv, l) : TradeCounts[k] \in Int
      BY ColumnsType DEF OfLength
    <3> QED BY <2>1, <3>1, SumType
  <2>4. x + c <= settlements /\ settlements \in Int
    BY <2>2, <2>3 DEF LengthCounted, SettlingShape
  <2>5. x <= settlements
    BY <2>4
  <2> QED BY <2>3, <2>5 DEF OfLength
<1> QED BY <1>1, <1>2 DEF CandlesAddUp

LEMMA CandlesStart == CandlesInit => CandlesInv
<1> SUFFICES ASSUME CandlesInit PROVE CandlesInv
  OBVIOUS
<1>1. ohlcv = << >> /\ settling = [s \in Settlements |-> Idle] /\ settlements = 0 /\ torn = {} /\ notices = {}
      /\ consumer = "closed"
  BY DEF CandlesInit
<1>2. DOMAIN ohlcv = {}
  BY <1>1
<1>3. Idle \in Trade /\ Idle.left = {} /\ LongerLeft(Idle)
  BY DEF Idle, Trade, LongerLeft
<1>4. TableShape
  BY <1>2, FS_EmptySet, <1>1 DEF TableShape
<1>5. SettlingShape
  BY <1>1, <1>3, CandlesAssumption DEF SettlingShape
<1>6. ASSUME NEW k \in Grid PROVE Matched(k)
  <2>1. PartsIn(DOMAIN ohlcv, k) = {}
    BY <1>2 DEF PartsIn
  <2>2. PendingIn(settling, k) = {}
    BY <1>1, <1>3 DEF PendingIn
  <2>3. \A F, w : SumsMatch(DOMAIN ohlcv, F, settling, w, k)
    <3>1. ASSUME NEW F, NEW w PROVE SumsMatch(DOMAIN ohlcv, F, settling, w, k)
      <4>1. SumOver(F, {}) = 0 /\ SumOver(w, {}) = 0
        BY SumEmpty
      <4>2. Column(DOMAIN ohlcv, F, k) = 0
        BY <1>2 DEF Column
      <4> QED BY <2>1, <2>2, <4>1, <4>2 DEF SumsMatch
    <3> QED BY <3>1
  <2>4. \A H, p : PeaksMatch(DOMAIN ohlcv, H, settling, p, k)
    BY <1>2, <2>1, <2>2 DEF PeaksMatch
  <2> QED BY <2>3, <2>4 DEF Matched
<1>7. ASSUME NEW l \in Lengths PROVE LengthCounted(l)
  <2>1. OfLength(DOMAIN ohlcv, l) = {} /\ StillToUpdate(settling, l) = {}
    BY <1>1, <1>2, <1>3 DEF OfLength, StillToUpdate
  <2>2. SumOver(TradeCounts, {}) = 0
    BY SumEmpty
  <2>3. Cardinality({}) = 0
    BY FS_EmptySet
  <2>4. SumOver(TradeCounts, OfLength(DOMAIN ohlcv, l)) + Cardinality(StillToUpdate(settling, l)) = 0 + 0
    BY <2>1, <2>2, <2>3
  <2> QED BY <1>1, <2>4 DEF LengthCounted
<1> QED BY <1>1, <1>4, <1>5, <1>6, <1>7 DEF CandlesInv, CandlesOK

\* Settlements that come and go without a change of the table and of what it waits for.
LEMMA MatchedKept ==
  ASSUME TableShape, SettlingShape, NEW k \in Grid, Matched(k), UNCHANGED ohlcv,
         PendingIn(settling', k) = PendingIn(settling, k),
         \A s \in PendingIn(settling, k) : settling'[s] = settling[s]
  PROVE  Matched(k)'
<1>1. PICK W \in SUBSET Settlements : W = PendingIn(settling, k)
  BY DEF PendingIn
<1>2. IsFiniteSet(W)
  BY FS_Subset, CandlesAssumption
<1>3. /\ Volumes' = Volumes /\ TradeCounts' = TradeCounts /\ Highs' = Highs /\ Lows' = Lows
      /\ Ones' = Ones
  BY DEF Volumes, TradeCounts, Highs, Lows, Ones
<1>4. \A s \in W : Incoming[s] = Incoming'[s] /\ Prices[s] = Prices'[s] /\ Discounts[s] = Discounts'[s]
  BY <1>1 DEF Incoming, Prices, Discounts
<1>5. SumOver(Incoming, W) = SumOver(Incoming', W)
  BY ONLY <1>2, <1>4, SumEqual
<1>6. SumsMatch(DOMAIN ohlcv, Volumes, settling', Incoming', k)
  BY <1>1, <1>5 DEF Matched, SumsMatch
<1>7. SumsMatch(DOMAIN ohlcv, TradeCounts, settling', Ones, k)
  BY DEF Matched, SumsMatch
<1>8. PeaksMatch(DOMAIN ohlcv, Highs, settling', Prices', k)
  BY <1>1, <1>4 DEF Matched, PeaksMatch
<1>9. PeaksMatch(DOMAIN ohlcv, Lows, settling', Discounts', k)
  BY <1>1, <1>4 DEF Matched, PeaksMatch
<1> QED BY <1>3, <1>6, <1>7, <1>8, <1>9 DEF Matched

LEMMA SettleFillStep ==
  ASSUME CandlesInv, NEW s \in Settlements, NEW p \in Costs, NEW q \in Sizes, NEW t \in Times,
         SettleFill(s, p, q, t)
  PROVE  CandlesInv'
<1> USE DEF CandlesInv, CandlesOK
<1>1. PICK n : n = [price |-> p, quantity |-> q, time |-> t, left |-> Lengths]
  OBVIOUS
<1>2. /\ settling[s] = Idle /\ settlements < MaxSettlements /\ settlements' = settlements + 1
      /\ settling' = [settling EXCEPT ![s] = n]
      /\ notices' = notices \cup {[price |-> p, quantity |-> q, time |-> t]}
      /\ UNCHANGED <<ohlcv, torn, consumer>>
  BY <1>1 DEF SettleFill
<1>3. n \in Trade /\ n.left = Lengths /\ n.price \in Costs /\ n.quantity \in Sizes /\ n.time \in Times
      /\ LongerLeft(n)
  BY <1>1 DEF Trade, LongerLeft
<1>4. Idle.left = {}
  BY DEF Idle
<1>5. settling \in [Settlements -> Trade]
  BY DEF SettlingShape
<1>6. settling'[s] = n /\ \A r \in Settlements \ {s} : settling'[r] = settling[r]
  BY <1>2, <1>5
<1>7. TableShape'
  BY <1>2 DEF TableShape
<1>8. SettlingShape'
  <2>1. settling' \in [Settlements -> Trade]
    BY <1>2, <1>3, <1>5
  <2>2. ASSUME NEW r \in Settlements
        PROVE  /\ LongerLeft(settling'[r])
               /\ settling'[r].left # {} =>
                    settling'[r].price \in Costs /\ settling'[r].quantity \in Sizes /\ settling'[r].time \in Times
    BY <1>3, <1>6 DEF SettlingShape
  <2>3. settlements' \in 0 .. MaxSettlements
    BY <1>2, CandlesAssumption DEF SettlingShape
  <2>4. torn' \subseteq Times
    BY <1>2 DEF SettlingShape
  <2> QED BY <2>1, <2>2, <2>3, <2>4 DEF SettlingShape
<1>9. ASSUME NEW k \in Grid, Untorn(k)' PROVE Matched(k)'
  <2>1. Matched(k)
    BY <1>2, <1>9 DEF Untorn
  <2>2. s \notin PendingIn(settling, k) /\ s \notin PendingIn(settling', k)
    BY <1>2, <1>3, <1>4, <1>6, FirstFacts DEF PendingIn
  <2>3. PendingIn(settling', k) = PendingIn(settling, k)
    BY <1>6, <2>2 DEF PendingIn
  <2>4. \A r \in PendingIn(settling, k) : settling'[r] = settling[r]
    BY <1>6, <2>2 DEF PendingIn
  <2> QED BY <1>2, <2>1, <2>3, <2>4, MatchedKept
<1>10. ASSUME NEW l \in Lengths PROVE LengthCounted(l)'
  <2>1. PICK S, S2 : S = StillToUpdate(settling, l) /\ S2 = StillToUpdate(settling', l)
    OBVIOUS
  <2>2. S2 = S \cup {s} /\ s \notin S
    BY <1>2, <1>3, <1>4, <1>6, <2>1 DEF StillToUpdate
  <2>3. IsFiniteSet(S)
    BY <2>1, CandlesAssumption, FS_Subset DEF StillToUpdate
  <2>4. Cardinality(S2) = Cardinality(S) + 1 /\ Cardinality(S) \in Nat
    BY <2>2, <2>3, FS_AddElement, FS_CardinalityType
  <2>5. PICK x \in Int : x = SumOver(TradeCounts, OfLength(DOMAIN ohlcv, l))
    <3>1. \A k \in OfLength(DOMAIN ohlcv, l) : TradeCounts[k] \in Int
      BY ColumnsType DEF OfLength
    <3>2. IsFiniteSet(OfLength(DOMAIN ohlcv, l))
      BY FS_Subset DEF TableShape, OfLength
    <3> QED BY <3>1, <3>2, SumType
  <2>6. x + Cardinality(S) <= settlements /\ settlements \in Int
    BY <2>1, <2>5 DEF LengthCounted, SettlingShape
  <2>7. SumOver(TradeCounts', OfLength(DOMAIN ohlcv', l)) = x
    BY <1>2, <2>5 DEF TradeCounts
  <2>8. x + Cardinality(S2) <= settlements'
    BY <1>2, <2>4, <2>6
  <2> QED BY <2>1, <2>7, <2>8 DEF LengthCounted
<1>11. /\ notices' \subseteq [price : Costs, quantity : Sizes, time : Times]
       /\ consumer' \in {"open", "closed"}
  BY <1>2
<1> QED BY <1>7, <1>8, <1>9, <1>10, <1>11

LEMMA UpdateFailsStep ==
  ASSUME CandlesInv, NEW s \in Settlements, UpdateFails(s)
  PROVE  CandlesInv'
<1> USE DEF CandlesInv, CandlesOK
<1>1. /\ settling[s].left # {} /\ torn' = torn \cup {settling[s].time}
      /\ settling' = [settling EXCEPT ![s] = Idle]
      /\ UNCHANGED <<ohlcv, settlements, notices, consumer>>
  BY DEF UpdateFails
<1>2. Idle \in Trade /\ Idle.left = {} /\ LongerLeft(Idle)
  BY DEF Idle, Trade, LongerLeft
<1>3. settling \in [Settlements -> Trade]
  BY DEF SettlingShape
<1>4. settling'[s] = Idle /\ \A r \in Settlements \ {s} : settling'[r] = settling[r]
  BY <1>1, <1>3
<1>5. TableShape'
  BY <1>1 DEF TableShape
<1>6. SettlingShape'
  <2>1. settling' \in [Settlements -> Trade]
    BY <1>1, <1>2, <1>3
  <2>2. ASSUME NEW r \in Settlements
        PROVE  /\ LongerLeft(settling'[r])
               /\ settling'[r].left # {} =>
                    settling'[r].price \in Costs /\ settling'[r].quantity \in Sizes /\ settling'[r].time \in Times
    BY <1>2, <1>4 DEF SettlingShape
  <2>3. torn' \subseteq Times
    BY <1>1 DEF SettlingShape
  <2> QED BY <1>1, <2>1, <2>2, <2>3 DEF SettlingShape
<1>7. ASSUME NEW k \in Grid, Untorn(k)' PROVE Matched(k)'
  <2>1. Untorn(k) /\ ~Within(settling[s].time, k)
    <3>1. \A u \in torn \cup {settling[s].time} : ~Within(u, k)
      BY <1>1, <1>7 DEF Untorn, Within
    <3> QED BY <3>1 DEF Untorn
  <2>2. s \notin PendingIn(settling, k) /\ s \notin PendingIn(settling', k)
    BY <1>2, <1>4, <2>1 DEF PendingIn
  <2>3. PendingIn(settling', k) = PendingIn(settling, k)
    BY <1>4, <2>2 DEF PendingIn
  <2>4. \A r \in PendingIn(settling, k) : settling'[r] = settling[r]
    BY <1>4, <2>2 DEF PendingIn
  <2> QED BY <1>1, <2>1, <2>3, <2>4, MatchedKept
<1>8. ASSUME NEW l \in Lengths PROVE LengthCounted(l)'
  <2>1. PICK S, S2 : S = StillToUpdate(settling, l) /\ S2 = StillToUpdate(settling', l)
    OBVIOUS
  <2>2. S2 \subseteq S
    BY <1>2, <1>4, <2>1 DEF StillToUpdate
  <2>3. IsFiniteSet(S)
    BY <2>1, CandlesAssumption, FS_Subset DEF StillToUpdate
  <2>4. Cardinality(S2) <= Cardinality(S) /\ Cardinality(S) \in Nat /\ Cardinality(S2) \in Nat
    BY <2>2, <2>3, FS_Subset, FS_CardinalityType
  <2>5. PICK x \in Int : x = SumOver(TradeCounts, OfLength(DOMAIN ohlcv, l))
    <3>1. \A k \in OfLength(DOMAIN ohlcv, l) : TradeCounts[k] \in Int
      BY ColumnsType DEF OfLength
    <3>2. IsFiniteSet(OfLength(DOMAIN ohlcv, l))
      BY FS_Subset DEF TableShape, OfLength
    <3> QED BY <3>1, <3>2, SumType
  <2>6. x + Cardinality(S) <= settlements /\ settlements \in Int
    BY <2>1, <2>5 DEF LengthCounted, SettlingShape
  <2>7. SumOver(TradeCounts', OfLength(DOMAIN ohlcv', l)) = x
    BY <1>1, <2>5 DEF TradeCounts
  <2>8. x + Cardinality(S2) <= settlements'
    BY <1>1, <2>4, <2>6
  <2> QED BY <2>1, <2>7, <2>8 DEF LengthCounted
<1> QED BY <1>1, <1>5, <1>6, <1>7, <1>8

LEMMA CandlesRest == CandlesInv /\ UNCHANGED candleVars => CandlesInv'
<1> SUFFICES ASSUME CandlesInv, UNCHANGED candleVars PROVE CandlesInv'
  OBVIOUS
<1>1. UNCHANGED <<ohlcv, settling, settlements, torn, notices, consumer>>
  BY DEF candleVars
<1>2. CandlesOK'
  <2>1. TableShape' /\ SettlingShape'
    BY <1>1 DEF CandlesInv, CandlesOK, TableShape, SettlingShape
  <2>2. ASSUME NEW k \in Grid, Untorn(k)' PROVE Matched(k)'
    BY <1>1, <2>2, MatchedKept DEF CandlesInv, CandlesOK, Untorn
  <2>3. ASSUME NEW l \in Lengths PROVE LengthCounted(l)'
    BY <1>1 DEF CandlesInv, CandlesOK, LengthCounted, TradeCounts
  <2> QED BY <2>1, <2>2, <2>3 DEF CandlesOK
<1> QED BY <1>1, <1>2 DEF CandlesInv

\* Nothing of the table and of the settlements: the consumer, and what it is not told.
LEMMA NoticeStep ==
  ASSUME CandlesInv, UNCHANGED <<ohlcv, settling, settlements, torn>>, notices' \subseteq notices,
         consumer' \in {"open", "closed"}
  PROVE  CandlesInv'
<1>1. TableShape' /\ SettlingShape'
  BY DEF CandlesInv, CandlesOK, TableShape, SettlingShape
<1>2. ASSUME NEW k \in Grid, Untorn(k)' PROVE Matched(k)'
  BY <1>2, MatchedKept DEF CandlesInv, CandlesOK, Untorn
<1>3. ASSUME NEW l \in Lengths PROVE LengthCounted(l)'
  BY DEF CandlesInv, CandlesOK, LengthCounted, TradeCounts
<1> QED BY <1>1, <1>2, <1>3 DEF CandlesInv, CandlesOK

LEMMA TwoMax ==
  ASSUME NEW a \in Int, NEW b \in Int
  PROVE  /\ Max({a, b}) = IF b <= a THEN a ELSE b
         /\ Min({a, b}) = IF a <= b THEN a ELSE b
<1>1. CASE a <= b
  <2>1. Max({a, b}) = b
    BY <1>1, MaxIs
  <2>2. Min({a, b}) = a
    BY <1>1, MinIs
  <2> QED BY <1>1, <2>1, <2>2
<1>2. CASE b <= a
  <2>1. Max({a, b}) = a
    BY <1>2, MaxIs
  <2>2. Min({a, b}) = b
    BY <1>2, MinIs
  <2> QED BY <1>2, <2>1, <2>2
<1> QED BY <1>1, <1>2

\* The row of a key after the upsert of a trade.
Row(new, old, key, D, p, q) ==
  /\ new \in Candle
  /\ new.volume = (IF key \in D THEN old.volume ELSE 0) + q
  /\ new.trade_count = (IF key \in D THEN old.trade_count ELSE 0) + 1
  /\ p <= new.high /\ new.low <= p
  /\ key \in D => old.high <= new.high /\ new.low <= old.low
  /\ new.high = p \/ (key \in D /\ new.high = old.high)
  /\ new.low = p \/ (key \in D /\ new.low = old.low)

LEMMA UpsertedFacts ==
  ASSUME NEW table, table \in [DOMAIN table -> Candle], NEW key, NEW p \in Costs, NEW q \in Sizes,
         NEW after, after = Upserted(table, key, p, q)
  PROVE  /\ after \in [DOMAIN after -> Candle] /\ DOMAIN after = DOMAIN table \cup {key}
         /\ \A k \in DOMAIN table \ {key} : after[k] = table[k]
         /\ Row(after[key], table[key], key, DOMAIN table, p, q)
<1>1. PICK row : row = IF key \notin DOMAIN table
                       THEN [open |-> p, high |-> p, low |-> p, close |-> p, volume |-> q, trade_count |-> 1]
                       ELSE [open |-> table[key].open, high |-> Max({table[key].high, p}),
                             low |-> Min({table[key].low, p}), close |-> p,
                             volume |-> table[key].volume + q, trade_count |-> table[key].trade_count + 1]
  OBVIOUS
<1>2. after = [k \in DOMAIN table \cup {key} |-> IF k = key THEN row ELSE table[k]]
  BY <1>1 DEF Upserted
<1>3. Costs \subseteq Int /\ Sizes \subseteq Int /\ p \in Int /\ q \in Int
  BY CandlesAssumption
<1>4. Row(row, table[key], key, DOMAIN table, p, q)
  <2>1. CASE key \notin DOMAIN table
    BY <1>1, <1>3, <2>1 DEF Row, Candle
  <2>2. CASE key \in DOMAIN table
    <3>1. PICK o \in Candle : o = table[key]
      BY <2>2
    <3>2. PICK h \in Int, n \in Int : h = o.high /\ n = o.low
      BY <1>3 DEF Candle
    <3>3. PICK H, N : H = Max({h, p}) /\ N = Min({n, p})
      OBVIOUS
    <3>4. H = (IF p <= h THEN h ELSE p) /\ N = (IF n <= p THEN n ELSE p)
      BY <1>3, <3>2, <3>3, TwoMax
    <3>5. H \in Costs /\ N \in Costs
      BY <3>2, <3>4 DEF Candle
    <3>6. row = [open |-> o.open, high |-> H, low |-> N, close |-> p,
                 volume |-> o.volume + q, trade_count |-> o.trade_count + 1]
      BY <1>1, <2>2, <3>1, <3>2, <3>3
    <3>7. row \in Candle
      BY <1>3, <3>5, <3>6 DEF Candle
    <3>8. p <= H /\ h <= H /\ N <= p /\ N <= n /\ (H = p \/ H = h) /\ (N = p \/ N = n)
      BY <1>3, <3>2, <3>4
    <3> QED BY <2>2, <3>1, <3>2, <3>6, <3>7, <3>8 DEF Row
  <2> QED BY <2>1, <2>2
<1>5. row \in Candle
  BY <1>4 DEF Row
<1> QED BY <1>2, <1>4, <1>5

LEMMA UpdateStep ==
  ASSUME CandlesInv, NEW s \in Settlements, UpdateFromTrade(s)
  PROVE  CandlesInv'
<1> USE DEF CandlesInv, CandlesOK
<1>1. PICK D, r, l : D = DOMAIN ohlcv /\ r = settling[s] /\ l = Min(r.left)
  OBVIOUS
<1>2. r \in Trade /\ LongerLeft(r) /\ r.left # {} /\ r.left \subseteq Lengths
      /\ r.price \in Costs /\ r.quantity \in Sizes /\ r.time \in Times
  BY <1>1 DEF UpdateFromTrade, SettlingShape, Trade
<1>3. l \in r.left /\ \A m \in r.left : l <= m
  <2>1. r.left \in SUBSET Nat
    BY <1>2, FirstFacts
  <2> QED BY <1>1, <1>2, <2>1, MinFacts
<1>4. PICK p \in Costs, q \in Sizes, t \in Times : p = r.price /\ q = r.quantity /\ t = r.time
  BY <1>2
<1>5. PICK key, next : /\ key = <<l, OpenTime(t, l)>>
                       /\ next = IF r.left = {l} THEN Idle ELSE [r EXCEPT !.left = @ \ {l}]
  OBVIOUS
<1>6. /\ ohlcv' = Upserted(ohlcv, key, p, q)
      /\ settling' = [settling EXCEPT ![s] = next]
      /\ UNCHANGED <<settlements, torn, notices, consumer>>
  BY <1>1, <1>4, <1>5 DEF UpdateFromTrade
<1>7. settling \in [Settlements -> Trade]
  BY DEF SettlingShape
<1>8. settling'[s] = next /\ \A i \in Settlements \ {s} : settling'[i] = settling[i]
  BY <1>6, <1>7
<1>9. /\ next \in Trade /\ LongerLeft(next) /\ next.left = r.left \ {l}
      /\ next.left # {} => next.price = p /\ next.quantity = q /\ next.time = t
  <2>1. CASE r.left = {l}
    BY <1>5, <2>1 DEF Idle, Trade, LongerLeft
  <2>2. CASE r.left # {l}
    <3>1. next = [price |-> p, quantity |-> q, time |-> t, left |-> r.left \ {l}]
      BY <1>2, <1>4, <1>5, <2>2 DEF Trade
    <3>2. next \in Trade /\ next.left = r.left \ {l} /\ next.price = p /\ next.quantity = q /\ next.time = t
      BY <1>2, <3>1 DEF Trade
    <3>3. ASSUME NEW i \in r.left \ {l}, NEW m \in Lengths, i <= m PROVE m \in r.left \ {l}
      <4>1. m \in r.left
        BY <1>2, <3>3 DEF LongerLeft
      <4>2. l <= i /\ l \in Lengths /\ i \in Lengths /\ i # l
        BY <1>2, <1>3, <3>3
      <4>3. l \in Int /\ i \in Int /\ m \in Int
        BY <4>2, FirstFacts
      <4>4. m # l
        BY <3>3, <4>2, <4>3
      <4> QED BY <4>1, <4>4
    <3> QED BY <3>2, <3>3 DEF LongerLeft
  <2> QED BY <2>1, <2>2
<1>10. PICK st2 : st2 = settling'
  OBVIOUS
<1>11. Upsert(settling, st2, s, l, t, key)
  <2>1. l \in Lengths /\ t \in Nat
    BY <1>2, <1>3, CandlesAssumption
  <2> QED BY <1>1, <1>2, <1>3, <1>4, <1>5, <1>8, <1>9, <1>10, <2>1 DEF Upsert
<1>12. key \in Grid /\ key[1] = l
  BY <1>11, UpsertKey
<1>13. PICK after : after = ohlcv'
  OBVIOUS
<1>14. /\ after \in [DOMAIN after -> Candle] /\ DOMAIN after = D \cup {key}
       /\ \A k \in D \ {key} : after[k] = ohlcv[k]
       /\ Row(after[key], ohlcv[key], key, D, p, q)
  <2>1. ohlcv \in [DOMAIN ohlcv -> Candle]
    BY DEF TableShape
  <2>2. after = Upserted(ohlcv, key, p, q)
    BY <1>6, <1>13
  <2>3. /\ after \in [DOMAIN after -> Candle] /\ DOMAIN after = DOMAIN ohlcv \cup {key}
        /\ \A k \in DOMAIN ohlcv \ {key} : after[k] = ohlcv[k]
        /\ Row(after[key], ohlcv[key], key, DOMAIN ohlcv, p, q)
    BY <2>1, <2>2, UpsertedFacts, SMTT(30)
  <2> QED BY <1>1, <2>3
<1>15. D \in SUBSET Grid /\ IsFiniteSet(D)
  BY <1>1 DEF TableShape
<1>16. TableShape'
  <2>1. IsFiniteSet(D \cup {key})
    BY <1>15, FS_AddElement
  <2>2. D \cup {key} \subseteq Grid
    BY <1>12, <1>15
  <2> QED BY <1>13, <1>14, <2>1, <2>2 DEF TableShape
<1>17. SettlingShape'
  <2>1. settling' \in [Settlements -> Trade]
    BY <1>6, <1>7, <1>9
  <2>2. ASSUME NEW i \in Settlements
        PROVE  /\ LongerLeft(settling'[i])
               /\ settling'[i].left # {} =>
                    settling'[i].price \in Costs /\ settling'[i].quantity \in Sizes /\ settling'[i].time \in Times
    BY <1>8, <1>9 DEF SettlingShape
  <2> QED BY <1>6, <2>1, <2>2 DEF SettlingShape
<1>18. /\ \A k \in D : Volumes[k] \in Int /\ TradeCounts[k] \in Int /\ Highs[k] \in Int /\ Lows[k] \in Int
       /\ \A i \in Settlements : /\ Incoming[i] \in Int /\ Ones[i] \in Int
                                 /\ Prices[i] \in Int /\ Discounts[i] \in Int
  BY <1>1, ColumnsType
<1>19. PICK V, C, H, L : V = Volumes' /\ C = TradeCounts' /\ H = Highs' /\ L = Lows'
  OBVIOUS
<1>20. \A k \in D \cup {key} : /\ V[k] = after[k].volume /\ C[k] = after[k].trade_count
                               /\ H[k] = after[k].high /\ L[k] = -after[k].low
  BY <1>13, <1>14, <1>19 DEF Volumes, TradeCounts, Highs, Lows
<1>21. \A k \in D : /\ Volumes[k] = ohlcv[k].volume /\ TradeCounts[k] = ohlcv[k].trade_count
                    /\ Highs[k] = ohlcv[k].high /\ Lows[k] = -ohlcv[k].low
  BY <1>1 DEF Volumes, TradeCounts, Highs, Lows
<1>22. \A k \in D \ {key} : V[k] = Volumes[k] /\ C[k] = TradeCounts[k] /\ H[k] = Highs[k] /\ L[k] = Lows[k]
  BY <1>14, <1>20, <1>21
<1>23. V[key] = Column(D, Volumes, key) + q /\ C[key] = Column(D, TradeCounts, key) + 1
  BY <1>14, <1>20, <1>21 DEF Row, Column
<1>24. p \in Int /\ q \in Int /\ -p \in Int
  BY CandlesAssumption
<1>25. /\ H[key] \in Int /\ p <= H[key]
       /\ key \in D => Highs[key] <= H[key]
       /\ H[key] = p \/ (key \in D /\ H[key] = Highs[key])
  <2>1. after[key].high \in Int
    BY <1>14, CandlesAssumption DEF Row, Candle
  <2> QED BY <1>14, <1>20, <1>21, <2>1 DEF Row
<1>26. /\ L[key] \in Int /\ -p <= L[key]
       /\ key \in D => Lows[key] <= L[key]
       /\ L[key] = -p \/ (key \in D /\ L[key] = Lows[key])
  <2>1. PICK n \in Int : n = after[key].low
    BY <1>14, CandlesAssumption DEF Row, Candle
  <2>2. n <= p /\ (n = p \/ (key \in D /\ n = ohlcv[key].low)) /\ (key \in D => n <= ohlcv[key].low)
    BY <1>14, <2>1 DEF Row
  <2>3. key \in D => ohlcv[key].low \in Int
    BY <1>1, CandlesAssumption DEF TableShape, Candle
  <2> QED BY <1>20, <1>21, <1>24, <2>1, <2>2, <2>3
<1>27. PICK wq, wp, wd : wq = Incoming' /\ wp = Prices' /\ wd = Discounts'
  OBVIOUS
<1>28. /\ \A i \in Settlements \ {s} : wq[i] = Incoming[i] /\ wp[i] = Prices[i] /\ wd[i] = Discounts[i]
       /\ st2[s].left # {} => wq[s] = q /\ wp[s] = p /\ wd[s] = -p
       /\ Incoming[s] = q /\ Prices[s] = p /\ Discounts[s] = -p
       /\ Ones[s] = 1 /\ Ones' = Ones
  BY <1>1, <1>4, <1>8, <1>9, <1>10, <1>27 DEF Incoming, Prices, Discounts, Ones
<1>29. ASSUME NEW k \in Grid, Untorn(k)' PROVE Matched(k)'
  <2>1. /\ SumsMatch(D, Volumes, settling, Incoming, k) /\ SumsMatch(D, TradeCounts, settling, Ones, k)
        /\ PeaksMatch(D, Highs, settling, Prices, k) /\ PeaksMatch(D, Lows, settling, Discounts, k)
    <3>1. Untorn(k)
      BY <1>6, <1>29 DEF Untorn
    <3> QED BY <1>1, <3>1 DEF Matched
  <2>2. SumsMatch(D \cup {key}, V, st2, wq, k)
    BY <1>11, <1>15, <1>18, <1>22, <1>23, <1>24, <1>28, <2>1, UpsertSums
  <2>3. SumsMatch(D \cup {key}, C, st2, Ones, k)
    BY <1>11, <1>15, <1>18, <1>22, <1>23, <1>28, <2>1, UpsertSums
  <2>4. PeaksMatch(D \cup {key}, H, st2, wp, k)
    <3>1. /\ \A j \in D : Highs[j] \in Int
          /\ \A j \in D \ {key} : H[j] = Highs[j]
          /\ \A i \in Settlements : Prices[i] \in Int
          /\ \A i \in Settlements \ {s} : wp[i] = Prices[i]
          /\ Prices[s] = p
          /\ st2[s].left # {} => wp[s] = p
      BY <1>18, <1>22, <1>28
    <3> QED BY ONLY s \in Settlements, k \in Grid, <1>11, <1>15, <1>24, <1>25, <2>1, <3>1, UpsertPeaks, ZenonT(60)
  <2>5. PeaksMatch(D \cup {key}, L, st2, wd, k)
    <3>1. /\ \A j \in D : Lows[j] \in Int
          /\ \A j \in D \ {key} : L[j] = Lows[j]
          /\ \A i \in Settlements : Discounts[i] \in Int
          /\ \A i \in Settlements \ {s} : wd[i] = Discounts[i]
          /\ Discounts[s] = -p
          /\ st2[s].left # {} => wd[s] = -p
      BY <1>18, <1>22, <1>28
    <3> QED BY ONLY s \in Settlements, k \in Grid, <1>11, <1>15, <1>24, <1>26, <2>1, <3>1, UpsertPeaks, ZenonT(60)
  <2>6. DOMAIN ohlcv' = D \cup {key}
    BY <1>13, <1>14
  <2> QED BY <1>10, <1>19, <1>27, <1>28, <2>2, <2>3, <2>4, <2>5, <2>6 DEF Matched
<1>30. ASSUME NEW m \in Lengths PROVE LengthCounted(m)'
  <2>1. PICK S, S2, E : /\ S = StillToUpdate(settling, m) /\ S2 = StillToUpdate(st2, m)
                        /\ E = OfLength(D, m)
    OBVIOUS
  <2>2. IsFiniteSet(S) /\ IsFiniteSet(E) /\ E \subseteq D
    BY <1>15, <2>1, CandlesAssumption, FS_Subset DEF StillToUpdate, OfLength
  <2>3. PICK x \in Int : x = SumOver(TradeCounts, E)
    <3>1. \A k \in E : TradeCounts[k] \in Int
      BY <1>18, <2>2
    <3> QED BY <2>2, <3>1, SumType
  <2>4. x + Cardinality(S) <= settlements /\ Cardinality(S) \in Int /\ settlements \in Int
    BY <1>1, <2>1, <2>2, <2>3, FS_CardinalityType DEF LengthCounted, SettlingShape
  <2>5. SumOver(C, OfLength(D \cup {key}, m)) + Cardinality(S2) <= settlements
    <3>1. CASE m = l
      <4>1. OfLength(D \cup {key}, m) = E \cup {key}
        BY <1>12, <2>1, <3>1 DEF OfLength
      <4>2. C[key] = (IF key \in E THEN TradeCounts[key] ELSE 0) + 1
        BY <1>12, <1>23, <2>1, <3>1 DEF OfLength, Column
      <4>3. \A k \in E : TradeCounts[k] \in Int
        BY <1>18, <2>2
      <4>4. \A k \in E \ {key} : C[k] = TradeCounts[k]
        BY <1>22, <2>2
      <4>5. SumOver(C, E \cup {key}) = SumOver(TradeCounts, E) + 1
        <5>1. 1 \in Int
          OBVIOUS
        <5> QED BY ONLY <2>2, <4>2, <4>3, <4>4, <5>1, SumPut
      <4>6. s \in S /\ S2 = S \ {s}
        BY <1>1, <1>3, <1>8, <1>9, <1>10, <2>1, <3>1 DEF StillToUpdate
      <4>7. Cardinality(S2) = Cardinality(S) - 1
        BY <2>2, <4>6, FS_RemoveElement
      <4>8. PICK c \in Int : c = Cardinality(S)
        BY <2>4
      <4>9. SumOver(C, OfLength(D \cup {key}, m)) = x + 1 /\ Cardinality(S2) = c - 1
        BY <2>3, <4>1, <4>5, <4>7, <4>8
      <4> QED BY <2>4, <4>8, <4>9
    <3>2. CASE m # l
      <4>1. OfLength(D \cup {key}, m) = E /\ key \notin E
        BY <1>12, <2>1, <3>2 DEF OfLength
      <4>2. \A k \in E : TradeCounts[k] = C[k]
        BY <1>22, <2>2, <4>1
      <4>3. SumOver(TradeCounts, E) = SumOver(C, E)
        BY ONLY <2>2, <4>2, SumEqual
      <4>4. S2 = S
        BY <1>1, <1>8, <1>9, <1>10, <2>1, <3>2 DEF StillToUpdate
      <4> QED BY <2>3, <2>4, <4>1, <4>3, <4>4
    <3> QED BY <3>1, <3>2
  <2>6. DOMAIN ohlcv' = D \cup {key}
    BY <1>13, <1>14
  <2> QED BY <1>6, <1>10, <1>19, <2>1, <2>5, <2>6 DEF LengthCounted
<1> QED BY <1>6, <1>16, <1>17, <1>29, <1>30

LEMMA CandlesSteps == CandlesInv /\ CandlesNext => CandlesInv'
<1> SUFFICES ASSUME CandlesInv, CandlesNext PROVE CandlesInv'
  OBVIOUS
<1>1. CASE ConsumerConnects
  BY <1>1, NoticeStep DEF ConsumerConnects
<1>2. CASE ConsumerLoses
  BY <1>2, NoticeStep DEF ConsumerLoses
<1>3. ASSUME NEW trade \in notices, TradeNotified(trade) PROVE CandlesInv'
  <2>1. ~Hears
    BY DEF Hears, ClientRequest, SubscribeMessage
  <2>2. UNCHANGED <<ohlcv, settling, settlements, torn, consumer>> /\ notices' \subseteq notices
    BY <1>3, <2>1 DEF TradeNotified
  <2> QED BY <2>2, NoticeStep DEF CandlesInv
<1>4. ASSUME NEW s \in Settlements, NEW p \in Costs, NEW q \in Sizes, NEW t \in Times,
             SettleFill(s, p, q, t)
      PROVE  CandlesInv'
  BY <1>4, SettleFillStep
<1>5. ASSUME NEW s \in Settlements, UpdateFromTrade(s) PROVE CandlesInv'
  BY <1>5, UpdateStep
<1>6. ASSUME NEW s \in Settlements, UpdateFails(s) PROVE CandlesInv'
  BY <1>6, UpdateFailsStep
<1> QED BY <1>1, <1>2, <1>3, <1>4, <1>5, <1>6 DEF CandlesNext

-----------------------------------------------------------------------------
(* All parts together.                                                     *)

BackInv == SInv /\ WalletInv /\ CandlesInv

LEMMA BackStarts == Init => BackInv
  BY SignInStarts, WalletStarts, CandlesStart DEF Init, BackInv

LEMMA BackRests ==
  BackInv /\ UNCHANGED <<part, signInVars, orderVars, candleVars>> => BackInv'
  BY SignInRests, WalletRests, CandlesRest DEF BackInv

LEMMA BackSteps == BackInv /\ Next => BackInv'
<1> SUFFICES ASSUME BackInv, Next PROVE BackInv'
  OBVIOUS
<1> USE DEF BackInv
<1>1. CASE SignInNext /\ UNCHANGED <<orderVars, candleVars>>
  BY <1>1, SignInSteps, WalletRests, CandlesRest
<1>2. CASE WalletNext /\ UNCHANGED <<orders, signInVars, candleVars>>
  BY <1>2, WalletStep, SignInRests, CandlesRest
<1>3. CASE PublicOrdersNext /\ UNCHANGED <<signInVars, candleVars>>
  BY <1>3, OrdersStep, SignInRests, CandlesRest
<1>4. CASE CandlesNext /\ UNCHANGED <<signInVars, orderVars>>
  BY <1>4, CandlesSteps, SignInRests, WalletRests
<1> QED BY <1>1, <1>2, <1>3, <1>4 DEF Next

LEMMA BackAlways == Spec => []BackInv
<1>1. BackInv /\ [Next]_<<part, signInVars, orderVars, candleVars>> => BackInv'
  BY BackRests, BackSteps
<1> QED BY <1>1, BackStarts, PTL DEF Spec

\* Every table of routes/auth.rs, balances.rs, faucet.rs, orders.rs and ohlcv.rs keeps to its
\* columns: no balance is negative, a session is one of an account that exists, and a candle
\* opens at a multiple of its length.
THEOREM BackOfficeTypeCorrect == Spec => []TypeOK
<1>1. BackInv => TypeOK
  BY SInvType, WalletInvType, CandlesInvType DEF BackInv, TypeOK
<1> QED BY <1>1, BackAlways, PTL

\* The ledger is the source of truth: what LedgerEntry::append, the locks and the unlocks of
\* orders, the faucet and run_cleanup leave in it adds up to the balances.
THEOREM LedgerReconciles == Spec => []Reconciles
<1>1. BackInv => Reconciles
  BY DEF BackInv, WalletInv
<1> QED BY <1>1, BackAlways, PTL

\* claim_faucet gives a user who waited for the answer one claim in a cooldown, however many
\* handlers run, fail or are cut short.
THEOREM FaucetRationed == Spec => []FaucetIsRationed
<1>1. BackInv => FaucetIsRationed
  BY DEF BackInv, WalletInv, FaucetOK
<1> QED BY <1>1, BackAlways, PTL

\* place_order and cancel_order: the lock entries of an account are what its pending orders
\* hold, less what orders of a negative price were credited with, and an order that was to
\* spend an amount of money locks it up to the two roundings.  No sign of a price or a quantity
\* is assumed.
THEOREM LocksAlwaysAddUp == Spec => []LocksAddUp
<1>1. BackInv => LocksAddUp
  BY WalletInvLocks DEF BackInv
<1> QED BY <1>1, BackAlways, PTL

\* update_from_trade outside of the transaction of the settlement: however the upserts of
\* concurrent settlements mix, a candle is what the shortest candles within it add up to, once
\* no update of it is under way and when none was cut short.
THEOREM CandlesAlwaysAddUp == Spec => []CandlesAddUp
<1>1. BackInv => CandlesAddUp
  BY CandlesInvAddUp DEF BackInv
<1> QED BY <1>1, BackAlways, PTL

\* No handler of routes/auth.rs begins to go by a code that another one used, nor by a refresh
\* token that was revoked.
THEOREM SpentStaysSpent == Spec => SpentIsSpent
<1>1. BackInv /\ [Next]_<<part, signInVars, orderVars, candleVars>> => [SpentStep]_signInVars
  BY SpentSteps DEF BackInv, Next
<1> QED BY <1>1, BackAlways, PTL DEF Spec, SpentIsSpent, SpentStep
=============================================================================
