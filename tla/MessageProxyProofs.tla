------------------------- MODULE MessageProxyProofs -------------------------
(***************************************************************************)
(* What holds of connections, tokens and memberships for every number of   *)
(* them.  The types hold of all that the instance does.  The lists of      *)
(* tokens, and the rights of members, are followed through updates where   *)
(* no token is switched (with both, a switched connection stays in its old *)
(* token's list); through switches, where no token is updated.  Closed     *)
(* connections are followed where no token is updated: a detach may take   *)
(* the index entries away that their close would have gone by.             *)
(***************************************************************************)
EXTENDS MessageProxy, SequenceTheorems, WellFoundedInduction, TLAPS

\* A set of naturals has a smallest element.
LEMMA SmallestOf ==
    ASSUME NEW I \in SUBSET Nat, I # {}
    PROVE  \E i \in I : \A j \in I : i <= j
<1>1. PICK i \in I : \A j \in I : ~(<<j, i>> \in OpToRel(<, Nat))
  BY NatLessThanWellFounded, WFMin, Zenon
<1>2. ASSUME NEW j \in I PROVE i <= j
  <2>1. <<j, i>> \in OpToRel(<, Nat) <=> <<j, i>> \in Nat \X Nat /\ j < i
    BY Zenon DEF OpToRel
  <2>2. ~(j < i)
    BY <1>1, <2>1, Zenon
  <2> QED BY <2>2
<1> QED BY <1>2

\* splice(indexOf(conn), 1) takes nothing but conn out of a list, and adds nothing.
LEMMA RemoveFirstProperties ==
    ASSUME NEW S, NEW s \in Seq(S), NEW e
    PROVE  /\ Lists!RemoveFirst(s, e) \in Seq(S)
           /\ Lists!ToSet(Lists!RemoveFirst(s, e)) \subseteq Lists!ToSet(s)
           /\ Lists!ToSet(s) \ {e} \subseteq Lists!ToSet(Lists!RemoveFirst(s, e))
<1> DEFINE I == {i \in 1 .. Len(s) : s[i] = e}
           n == Lists!Min(I)
           r == Lists!RemoveAt(s, n)
<1>1. CASE I = {}
  BY <1>1 DEF Lists!RemoveFirst
<1>2. CASE I # {}
  <2>1. n \in 1 .. Len(s) /\ s[n] = e
    <3>1. I \in SUBSET Nat
      OBVIOUS
    <3>2. \E i \in I : \A j \in I : i <= j
      <4> HIDE DEF I
      <4> QED BY <1>2, <3>1, SmallestOf
    <3>3. n \in I
      BY <3>2 DEF Lists!Min
    <3> QED BY <3>3
  <2>2. Lists!RemoveFirst(s, e) = r
    BY <1>2 DEF Lists!RemoveFirst, Lists!SelectInSeq
  <2> HIDE DEF n
  <2> DEFINE a == SubSeq(s, 1, n - 1)
             b == SubSeq(s, n + 1, Len(s))
  <2>3. a \in Seq(S) /\ Len(a) = n - 1 /\ \A i \in 1 .. (n - 1) : a[i] = s[i]
    BY <2>1, SubSeqProperties, SubSeqEmpty
  <2>4. b \in Seq(S) /\ Len(b) = Len(s) - n
        /\ \A i \in 1 .. (Len(s) - n) : b[i] = s[n + i]
    BY <2>1, SubSeqProperties, SubSeqEmpty
  <2>5. r = a \o b
    BY DEF Lists!RemoveAt
  <2> HIDE DEF a, b, r
  <2>6. /\ r \in Seq(S) /\ Len(r) = Len(s) - 1
        /\ \A i \in 1 .. (Len(a) + Len(b)) :
               r[i] = IF i <= Len(a) THEN a[i] ELSE b[i - Len(a)]
    BY <2>1, <2>3, <2>4, <2>5, ConcatProperties
  <2>7. DOMAIN r = 1 .. (Len(s) - 1) /\ DOMAIN s = 1 .. Len(s)
    BY <2>6
  <2>8. ASSUME NEW i \in 1 .. (Len(s) - 1), i < n
        PROVE  r[i] = s[i]
    <3>1. i \in 1 .. (n - 1) /\ i <= Len(a) /\ i \in 1 .. (Len(a) + Len(b))
      BY <2>1, <2>3, <2>4, <2>8
    <3> QED BY <2>3, <2>6, <3>1
  <2>9. ASSUME NEW i \in 1 .. (Len(s) - 1), ~(i < n)
        PROVE  r[i] = s[i + 1]
    <3>1. /\ i \in 1 .. (Len(a) + Len(b)) /\ ~(i <= Len(a))
          /\ i - Len(a) \in 1 .. (Len(s) - n)
          /\ n + (i - Len(a)) = i + 1
      BY <2>1, <2>3, <2>4, <2>9
    <3>2. r[i] = b[i - Len(a)]
      BY <2>6, <3>1
    <3>3. b[i - Len(a)] = s[n + (i - Len(a))]
      BY <2>4, <3>1
    <3> QED BY <3>1, <3>2, <3>3
  <2>10. ASSUME NEW i \in DOMAIN r PROVE r[i] \in Lists!ToSet(s)
    <3>1. i \in 1 .. (Len(s) - 1) /\ i \in DOMAIN s /\ i + 1 \in DOMAIN s
      BY <2>7
    <3>2. r[i] = s[i] \/ r[i] = s[i + 1]
      BY <2>8, <2>9, <3>1
    <3> QED BY <3>1, <3>2 DEF Lists!ToSet
  <2>11. ASSUME NEW i \in DOMAIN s, s[i] # e PROVE s[i] \in Lists!ToSet(r)
    <3>1. CASE i < n
      <4>1. i \in 1 .. (Len(s) - 1)
        BY <2>1, <2>7, <3>1
      <4> QED BY <2>7, <2>8, <3>1, <4>1 DEF Lists!ToSet
    <3>2. CASE i > n
      <4>1. i - 1 \in 1 .. (Len(s) - 1) /\ ~(i - 1 < n) /\ (i - 1) + 1 = i
        BY <2>1, <2>7, <3>2
      <4>2. r[i - 1] = s[i]
        BY <2>9, <4>1
      <4> QED BY <2>7, <4>1, <4>2 DEF Lists!ToSet
    <3> QED BY <2>1, <2>7, <2>11, <3>1, <3>2
  <2>12. Lists!ToSet(s) = {s[i] : i \in DOMAIN s} /\ Lists!ToSet(r) = {r[i] : i \in DOMAIN r}
    BY DEF Lists!ToSet
  <2>13. Lists!ToSet(r) \subseteq Lists!ToSet(s)
    BY <2>10, <2>12
  <2>14. Lists!ToSet(s) \ {e} \subseteq Lists!ToSet(r)
    BY <2>11, <2>12
  <2> QED BY <2>2, <2>6, <2>13, <2>14
<1> QED BY <1>1, <1>2

\* A list with one more connection has it and the others.
LEMMA AppendedList ==
    ASSUME NEW s \in Seq(Connections), NEW e \in Connections, NEW t,
           t = Append(s, e)
    PROVE  Lists!ToSet(t) = Lists!ToSet(s) \cup {e}
<1>1. /\ t \in Seq(Connections) /\ Len(t) = Len(s) + 1
      /\ \A i \in 1 .. Len(s) : t[i] = s[i]
      /\ t[Len(s) + 1] = e
  OBVIOUS
<1>2. DOMAIN t = 1 .. (Len(s) + 1) /\ DOMAIN s = 1 .. Len(s)
  BY <1>1
<1>3. Lists!ToSet(s) = {s[i] : i \in DOMAIN s} /\ Lists!ToSet(t) = {t[i] : i \in DOMAIN t}
  BY DEF Lists!ToSet
<1>4. \A i \in DOMAIN t : t[i] \in Lists!ToSet(s) \cup {e}
  BY <1>1, <1>2, <1>3
<1>5. \A i \in DOMAIN s : i \in DOMAIN t /\ s[i] = t[i]
  BY <1>1, <1>2
<1>6. Len(s) + 1 \in DOMAIN t /\ t[Len(s) + 1] = e
  BY <1>1, <1>2
<1>7. Lists!ToSet(s) \cup {e} \subseteq Lists!ToSet(t)
  BY <1>3, <1>5, <1>6
<1>8. Lists!ToSet(t) \subseteq Lists!ToSet(s) \cup {e}
  BY <1>3, <1>4
<1> QED BY <1>7, <1>8

\* The first connection of a list, which stands for the others, is in it.
LEMMA HeadInList ==
    ASSUME NEW S, NEW s \in Seq(S), s # <<>>
    PROVE  Head(s) \in Lists!ToSet(s) /\ Head(s) \in S
BY DEF Lists!ToSet

LEMMA ToSetType ==
    ASSUME NEW S, NEW s \in Seq(S)
    PROVE  Lists!ToSet(s) \subseteq S /\ Lists!ToSet(<<>>) = {}
BY DEF Lists!ToSet

-----------------------------------------------------------------------------
(***************************************************************************)
(* The types of what the proofs look at, all but the registry.             *)
(***************************************************************************)
ConnTypes ==
    /\ phase \in [Connections -> {"new", "open", "closing", "closed"}]
    /\ tokenOf \in [Connections -> Tokens \cup {NoToken, NoAccess}]
    /\ calls \in [Connections -> SUBSET (TokenCalls \cup JoinCalls)]
    /\ lists \in [Tokens -> Seq(Connections)]
    /\ publicDocs \subseteq PublicDocs
    /\ expired \subseteq Tokens
    /\ tainted \subseteq recorded /\ recorded \subseteq Tokens
    /\ inbox \subseteq TokenUpdates

LEMMA ConnTypesInit == Init => ConnTypes
BY DEF Init, ConnTypes

LEMMA CallTypes ==
    /\ \A kind \in {"connect", "setToken"}, t \in Tokens :
           AskToken(kind, t) \in TokenCalls
    /\ \A kind \in {"connect", "setToken"}, t \in Tokens, a \in {"ok", "err"} :
           [AskToken(kind, t) EXCEPT !.answer = a] \in TokenCalls
    /\ \A d \in Docs : [kind |-> "join", doc |-> d] \in JoinCalls
    /\ \A call \in TokenCalls : call.kind # "join"
    /\ \A call \in JoinCalls : call.kind = "join"
BY DEF AskToken, TokenCalls, JoinCalls

\* The answer that checkClientToken gives, and what it leaves as it was.
LEMMA CheckClientTokenEffect ==
    ASSUME ConnTypes, NEW c \in Connections, NEW kind \in {"connect", "setToken"},
           NEW t \in Tokens, CheckClientToken(c, kind, t)
    PROVE  \E a \in {"ok", "err"} :
               LET answered == [AskToken(kind, t) EXCEPT !.answer = a]
               IN  /\ AskToken(kind, t) \in calls[c]
                   /\ answered.kind = kind
                   /\ calls' = [calls EXCEPT ![c] = (calls[c] \ {AskToken(kind, t)})
                                                       \cup {answered}]
BY DEF CheckClientToken, AskToken, ConnTypes

LEMMA ConnTypesStep == ConnTypes /\ [Next]_vars => ConnTypes'
<1> SUFFICES ASSUME ConnTypes, [Next]_vars PROVE ConnTypes'
  OBVIOUS
<1> USE DEF ConnTypes
<1>1. ASSUME NEW c \in Connections, ConnectAnonymous(c) PROVE ConnTypes'
  BY <1>1 DEF ConnectAnonymous, serviceVars, apiVars
<1>2. ASSUME NEW c \in Connections, NEW t \in ConnectTokens, Connect(c, t)
      PROVE  ConnTypes'
  <2>1. AskToken("connect", t) \in TokenCalls
    BY CallTypes, ProxyAssumption
  <2> QED BY <1>2, <2>1 DEF Connect, Await, serviceVars, apiVars
<1>3. ASSUME NEW c \in Connections, NEW t \in SwitchTokens, SetToken(c, t)
      PROVE  ConnTypes'
  <2>1. AskToken("setToken", t) \in TokenCalls
    BY CallTypes, ProxyAssumption
  <2> QED BY <1>3, <2>1 DEF SetToken, Await, serviceVars, apiVars
<1>4. ASSUME NEW c \in Connections, NEW call \in calls[c], ApplyToken(c, call)
      PROVE  ConnTypes'
  <2>1. call.token \in Tokens
    BY <1>4 DEF ApplyToken, TokenCalls
  <2>2. calls' = [calls EXCEPT ![c] = @ \ {call}]
    BY <1>4 DEF ApplyToken, Settle
  <2>3. UNCHANGED <<phase, publicDocs, apiVars>>
    BY <1>4 DEF ApplyToken
  <2>4. CASE call.answer = "ok"
    <3>1. /\ tokenOf' = [tokenOf EXCEPT ![c] = call.token]
          /\ lists' = [lists EXCEPT ![call.token] = Append(lists[call.token], c)]
      BY <1>4, <2>4 DEF ApplyToken, AddConnection
    <3>2. Append(lists[call.token], c) \in Seq(Connections)
      BY <2>1
    <3> QED BY <2>1, <2>2, <2>3, <3>1, <3>2 DEF apiVars
  <2>5. CASE call.answer # "ok"
    <3>1. UNCHANGED <<tokenOf, lists>>
      BY <1>4, <2>5 DEF ApplyToken
    <3> QED BY <2>2, <2>3, <3>1 DEF apiVars
  <2> QED BY <2>4, <2>5
<1>5. ASSUME NEW c \in Connections, NEW d \in Docs, JoinListed(c, d)
      PROVE  ConnTypes'
  BY <1>5 DEF JoinListed, connVars, apiVars
<1>6. ASSUME NEW c \in Connections, NEW d \in Docs, JoinUnlisted(c, d)
      PROVE  ConnTypes'
  <2>1. [kind |-> "join", doc |-> d] \in JoinCalls
    BY CallTypes
  <2> QED BY <1>6, <2>1 DEF JoinUnlisted, Await, serviceVars, apiVars
<1>7. ASSUME NEW c \in Connections, NEW d \in Docs, JoinAnswered(c, d)
      PROVE  ConnTypes'
  BY <1>7 DEF JoinAnswered, Settle, PublicDocsAfter, apiVars
<1>8. ASSUME NEW c \in Connections, HandleDisconnect(c) PROVE ConnTypes'
  <2>1. lists' \in [Tokens -> Seq(Connections)]
    BY <1>8, RemoveFirstProperties DEF HandleDisconnect, RemoveConnection
  <2> QED BY <1>8, <2>1 DEF HandleDisconnect, apiVars
<1>9. ASSUME NEW c \in Connections, NEW kind \in {"connect", "setToken"},
             NEW t \in Tokens, CheckClientToken(c, kind, t)
      PROVE  ConnTypes'
  <2>1. PICK a \in {"ok", "err"} :
            calls' = [calls EXCEPT ![c] = (calls[c] \ {AskToken(kind, t)})
                                  \cup {[AskToken(kind, t) EXCEPT !.answer = a]}]
    BY <1>9, CheckClientTokenEffect
  <2>2. [AskToken(kind, t) EXCEPT !.answer = a] \in TokenCalls
    BY CallTypes
  <2>3. calls' \in [Connections -> SUBSET (TokenCalls \cup JoinCalls)]
    BY <2>1, <2>2
  <2> QED BY <1>9, <2>3 DEF CheckClientToken, serviceVars
<1>10. ASSUME NEW u \in TokenUpdates, UpdateToken(u[1], u[2]) PROVE ConnTypes'
  <2>1. u[1] \in Tokens /\ u[2] \in Tokens /\ u = <<u[1], u[2]>>
    BY ProxyAssumption
  <2> QED BY <1>10, <2>1 DEF UpdateToken, connVars, serviceVars
<1>11. ASSUME NEW u \in inbox, OnUpdateTokenMessage(u[1], u[2]) PROVE ConnTypes'
  <2>1. u[1] \in Tokens /\ u[2] \in Tokens
    BY ProxyAssumption
  <2>2. /\ inbox' \subseteq inbox
        /\ UNCHANGED <<phase, calls, publicDocs, expired, tainted, recorded>>
    BY <1>11 DEF OnUpdateTokenMessage
  <2>3. CASE lists[u[1]] = <<>>
    BY <1>11, <2>2, <2>3 DEF OnUpdateTokenMessage
  <2>4. CASE lists[u[1]] # <<>>
    <3>1. /\ tokenOf' = [c \in Connections |->
                            IF c \in InList(lists, u[1]) THEN u[2] ELSE tokenOf[c]]
          /\ lists' = Renamed(lists, u[1], u[2])
      BY <1>11, <2>4 DEF OnUpdateTokenMessage
    <3>2. <<>> \in Seq(Connections)
      OBVIOUS
    <3> QED BY <2>1, <2>2, <3>1, <3>2 DEF Renamed
  <2> QED BY <2>3, <2>4
<1>12. CASE CheckTokenExpiration
  <2>1. <<>> \in Seq(Connections)
    OBVIOUS
  <2> QED BY <1>12, <2>1 DEF CheckTokenExpiration, apiVars
<1>13. ASSUME NEW t \in Tokens, TokenExpires(t) PROVE ConnTypes'
  BY <1>13 DEF TokenExpires, connVars, serviceVars
<1>14. CASE UNCHANGED vars
  BY <1>14 DEF vars, connVars, serviceVars, apiVars
<1> QED
  BY <1>1, <1>2, <1>3, <1>4, <1>5, <1>6, <1>7, <1>8, <1>9, <1>10, <1>11, <1>12,
     <1>13, <1>14 DEF Next

-----------------------------------------------------------------------------
(***************************************************************************)
(* Connecting: a connection that waits for the answer to its first token   *)
(* has no access and awaits nothing else, unless its client sends setToken *)
(* early.                                                                  *)
(***************************************************************************)
Fresh ==
    \A c \in Connections : phase[c] = "new" => calls[c] = {} /\ tokenOf[c] = NoAccess

ConnectAlone ==
    \A c \in Connections : \A call \in calls[c] :
        /\ call.kind = "connect" => calls[c] = {call} /\ tokenOf[c] = NoAccess
        /\ call.kind = "setToken" => SwitchTokens # {}

\* Nobody's access appears from nowhere: whoever is listed, and an update
\* therefore reaches, has a token.
ListedHaveTokens ==
    \A t \in Tokens : \A c \in InList(lists, t) : tokenOf[c] \in Tokens

LEMMA HeldTokensAreTokens == ListsHoldTheirToken => ListedHaveTokens
BY DEF ListsHoldTheirToken, ListedHaveTokens

LEMMA UpdateEffect ==
    ASSUME ConnTypes, NEW u \in inbox, OnUpdateTokenMessage(u[1], u[2])
    PROVE  /\ TokenUpdates # {}
           /\ u[1] \in Tokens /\ u[2] \in Tokens
           /\ UNCHANGED <<phase, calls>>
           /\ \A c \in Connections :
                  tokenOf'[c] = IF c \in InList(lists, u[1]) THEN u[2] ELSE tokenOf[c]
<1>1. u \in TokenUpdates /\ u[1] \in Tokens /\ u[2] \in Tokens
  BY ProxyAssumption DEF ConnTypes
<1>2. UNCHANGED <<phase, calls>>
  BY DEF OnUpdateTokenMessage
<1>3. CASE lists[u[1]] = <<>>
  <2>1. tokenOf' = tokenOf
    BY <1>3 DEF OnUpdateTokenMessage
  <2>2. InList(lists, u[1]) = {}
    BY <1>3 DEF InList, Lists!ToSet
  <2> QED BY <1>1, <1>2, <2>1, <2>2
<1>4. CASE lists[u[1]] # <<>>
  <2>1. tokenOf' = [c \in Connections |->
                       IF c \in InList(lists, u[1]) THEN u[2] ELSE tokenOf[c]]
    BY <1>4 DEF OnUpdateTokenMessage
  <2> QED BY <1>1, <1>2, <2>1
<1> QED BY <1>3, <1>4

LEMMA FreshStep ==
    ASSUME ConnTypes, Fresh, ListedHaveTokens, [Next]_vars
    PROVE  Fresh'
<1> USE DEF ConnTypes, Fresh, Receives
<1>1. ASSUME NEW c \in Connections, ConnectAnonymous(c) PROVE Fresh'
  BY <1>1 DEF ConnectAnonymous
<1>2. ASSUME NEW c \in Connections, NEW t \in ConnectTokens, Connect(c, t)
      PROVE  Fresh'
  BY <1>2 DEF Connect, Await
<1>3. ASSUME NEW c \in Connections, NEW t \in SwitchTokens, SetToken(c, t)
      PROVE  Fresh'
  BY <1>3 DEF SetToken, Await
<1>4. ASSUME NEW c \in Connections, NEW call \in calls[c], ApplyToken(c, call)
      PROVE  Fresh'
  <2>1. /\ phase' = phase /\ phase[c] # "new"
        /\ \A e \in Connections \ {c} : calls'[e] = calls[e] /\ tokenOf'[e] = tokenOf[e]
    BY <1>4 DEF ApplyToken, Settle
  <2> QED BY <2>1
<1>5. ASSUME NEW c \in Connections, NEW d \in Docs, JoinListed(c, d)
      PROVE  Fresh'
  BY <1>5 DEF JoinListed, connVars
<1>6. ASSUME NEW c \in Connections, NEW d \in Docs, JoinUnlisted(c, d)
      PROVE  Fresh'
  BY <1>6 DEF JoinUnlisted, Await
<1>7. ASSUME NEW c \in Connections, NEW d \in Docs, JoinAnswered(c, d)
      PROVE  Fresh'
  BY <1>7 DEF JoinAnswered, Settle
<1>8. ASSUME NEW c \in Connections, HandleDisconnect(c) PROVE Fresh'
  BY <1>8 DEF HandleDisconnect
<1>9. ASSUME NEW c \in Connections, NEW kind \in {"connect", "setToken"},
             NEW t \in Tokens, CheckClientToken(c, kind, t)
      PROVE  Fresh'
  <2>1. /\ UNCHANGED <<phase, tokenOf>> /\ calls[c] # {}
        /\ \A e \in Connections \ {c} : calls'[e] = calls[e]
    BY <1>9 DEF CheckClientToken
  <2> QED BY <2>1
<1>10. ASSUME NEW u \in TokenUpdates, UpdateToken(u[1], u[2]) PROVE Fresh'
  BY <1>10 DEF UpdateToken, connVars
<1>11. ASSUME NEW u \in inbox, OnUpdateTokenMessage(u[1], u[2]) PROVE Fresh'
  BY <1>11, UpdateEffect, ProxyAssumption DEF ListedHaveTokens
<1>12. CASE CheckTokenExpiration
  BY <1>12 DEF CheckTokenExpiration
<1>13. ASSUME NEW t \in Tokens, TokenExpires(t) PROVE Fresh'
  BY <1>13 DEF TokenExpires, connVars
<1>14. CASE UNCHANGED vars
  BY <1>14 DEF vars, connVars
<1> QED
  BY <1>1, <1>2, <1>3, <1>4, <1>5, <1>6, <1>7, <1>8, <1>9, <1>10, <1>11, <1>12,
     <1>13, <1>14 DEF Next

LEMMA ConnectAloneStep ==
    ASSUME ConnTypes, Fresh, ConnectAlone, ListedHaveTokens,
           SwitchTokens = {} \/ ~SwitchesEarly, [Next]_vars
    PROVE  ConnectAlone'
<1> USE DEF ConnTypes, ConnectAlone
<1>1. ASSUME NEW c \in Connections, ConnectAnonymous(c) PROVE ConnectAlone'
  BY <1>1 DEF ConnectAnonymous, Fresh
<1>2. ASSUME NEW c \in Connections, NEW t \in ConnectTokens, Connect(c, t)
      PROVE  ConnectAlone'
  <2>1. AskToken("connect", t).kind = "connect"
    BY DEF AskToken
  <2> QED BY <1>2, <2>1 DEF Connect, Await, Fresh
<1>3. ASSUME NEW c \in Connections, NEW t \in SwitchTokens, SetToken(c, t)
      PROVE  ConnectAlone'
  <2>1. AskToken("setToken", t).kind = "setToken"
    BY DEF AskToken
  <2>2. \A call \in calls[c] : call.kind # "connect"
    BY <1>3, ProxyAssumption DEF SetToken
  <2> QED BY <1>3, <2>1, <2>2 DEF SetToken, Await
<1>4. ASSUME NEW c \in Connections, NEW call \in calls[c], ApplyToken(c, call)
      PROVE  ConnectAlone'
  <2>1. /\ calls'[c] = calls[c] \ {call}
        /\ \A e \in Connections \ {c} : calls'[e] = calls[e] /\ tokenOf'[e] = tokenOf[e]
    BY <1>4 DEF ApplyToken, Settle
  <2> QED BY <2>1
<1>5. ASSUME NEW c \in Connections, NEW d \in Docs, JoinListed(c, d)
      PROVE  ConnectAlone'
  BY <1>5 DEF JoinListed, connVars
<1>6. ASSUME NEW c \in Connections, NEW d \in Docs, JoinUnlisted(c, d)
      PROVE  ConnectAlone'
  <2>1. [kind |-> "join", doc |-> d].kind = "join"
    OBVIOUS
  <2> HIDE DEF ConnectAlone
  <2>2. \A call \in calls[c] : call.kind # "connect"
    BY <1>6 DEF JoinUnlisted, ConnectAlone
  <2>3. tokenOf' = tokenOf
        /\ calls' = [calls EXCEPT ![c] = calls[c] \cup {[kind |-> "join", doc |-> d]}]
    BY <1>6 DEF JoinUnlisted, Await
  <2>4. \A call \in calls'[c] : call.kind # "connect" /\
                                (call.kind = "setToken" => SwitchTokens # {})
    BY <2>1, <2>2, <2>3 DEF ConnectAlone
  <2>5. \A e \in Connections \ {c} : calls'[e] = calls[e]
    BY <2>3
  <2> QED BY <2>3, <2>4, <2>5 DEF ConnectAlone
<1>7. ASSUME NEW c \in Connections, NEW d \in Docs, JoinAnswered(c, d)
      PROVE  ConnectAlone'
  <2>1. /\ tokenOf' = tokenOf /\ calls'[c] = calls[c] \ {[kind |-> "join", doc |-> d]}
        /\ [kind |-> "join", doc |-> d] \in calls[c]
        /\ \A e \in Connections \ {c} : calls'[e] = calls[e]
    BY <1>7 DEF JoinAnswered, Settle
  <2> QED BY <2>1
<1>8. ASSUME NEW c \in Connections, HandleDisconnect(c) PROVE ConnectAlone'
  BY <1>8 DEF HandleDisconnect
<1>9. ASSUME NEW c \in Connections, NEW kind \in {"connect", "setToken"},
             NEW t \in Tokens, CheckClientToken(c, kind, t)
      PROVE  ConnectAlone'
  <2>1. \E a \in {"ok", "err"} :
            LET answered == [AskToken(kind, t) EXCEPT !.answer = a]
            IN  /\ AskToken(kind, t) \in calls[c]
                /\ answered.kind = kind
                /\ calls' = [calls EXCEPT ![c] = (calls[c] \ {AskToken(kind, t)})
                                                    \cup {answered}]
    BY <1>9, CheckClientTokenEffect
  <2>2. \E answered :
            /\ answered.kind = kind /\ AskToken(kind, t) \in calls[c]
            /\ calls' = [calls EXCEPT ![c] = (calls[c] \ {AskToken(kind, t)})
                                                \cup {answered}]
    BY <2>1, Zenon
  <2>3. AskToken(kind, t).kind = kind /\ tokenOf' = tokenOf
    BY <1>9 DEF CheckClientToken, AskToken
  <2> QED BY <2>2, <2>3
<1>10. ASSUME NEW u \in TokenUpdates, UpdateToken(u[1], u[2]) PROVE ConnectAlone'
  BY <1>10 DEF UpdateToken, connVars
<1>11. ASSUME NEW u \in inbox, OnUpdateTokenMessage(u[1], u[2]) PROVE ConnectAlone'
  BY <1>11, UpdateEffect, ProxyAssumption DEF ListedHaveTokens
<1>12. CASE CheckTokenExpiration
  BY <1>12 DEF CheckTokenExpiration
<1>13. ASSUME NEW t \in Tokens, TokenExpires(t) PROVE ConnectAlone'
  BY <1>13 DEF TokenExpires, connVars
<1>14. CASE UNCHANGED vars
  BY <1>14 DEF vars, connVars
<1> QED
  BY <1>1, <1>2, <1>3, <1>4, <1>5, <1>6, <1>7, <1>8, <1>9, <1>10, <1>11, <1>12,
     <1>13, <1>14 DEF Next

-----------------------------------------------------------------------------
(***************************************************************************)
(* The lists of connections.                                               *)
(***************************************************************************)
\* Steps that leave tokens, lists and phases alone, or close somebody.
Quiet ==
    /\ UNCHANGED <<tokenOf, lists>>
    /\ \A c \in Connections : phase'[c] = "open" => phase[c] \in {"open", "new"}

LEMMA NextSteps ==
    ASSUME ConnTypes, [Next]_vars
    PROVE  \/ Quiet
           \/ \E c \in Connections :
                  \/ ConnectAnonymous(c)
                  \/ \E call \in calls[c] : ApplyToken(c, call)
                  \/ HandleDisconnect(c)
           \/ \E u \in inbox : OnUpdateTokenMessage(u[1], u[2])
           \/ CheckTokenExpiration
<1> USE DEF Quiet, ConnTypes
<1>1. ASSUME NEW c \in Connections,
             \/ \E t \in ConnectTokens : Connect(c, t)
             \/ \E t \in SwitchTokens : SetToken(c, t)
      PROVE  Quiet
  BY <1>1 DEF Connect, SetToken, serviceVars
<1>2. ASSUME NEW c \in Connections,
             \E d \in Docs : JoinListed(c, d) \/ JoinUnlisted(c, d) \/ JoinAnswered(c, d)
      PROVE  Quiet
  BY <1>2 DEF JoinListed, JoinUnlisted, JoinAnswered, connVars, serviceVars
<1>3. ASSUME NEW c \in Connections,
             \E kind \in {"connect", "setToken"}, t \in Tokens :
                 CheckClientToken(c, kind, t)
      PROVE  Quiet
  BY <1>3 DEF CheckClientToken, serviceVars
<1>4. CASE \/ \E u \in TokenUpdates : UpdateToken(u[1], u[2])
           \/ \E t \in Tokens : TokenExpires(t)
           \/ UNCHANGED vars
  BY <1>4 DEF UpdateToken, TokenExpires, vars, connVars, serviceVars
<1> HIDE DEF Quiet, ConnTypes
<1> QED BY <1>1, <1>2, <1>3, <1>4 DEF Next

\* The token is applied and the connection listed, or nothing is.
LEMMA ApplyTokenEffect ==
    ASSUME ConnTypes, NEW c \in Connections, NEW call \in calls[c], ApplyToken(c, call)
    PROVE  /\ call.kind \in {"connect", "setToken"} /\ call.token \in Tokens
           /\ phase' = phase
           /\ \/ UNCHANGED <<tokenOf, lists, reg>>
              \/ /\ tokenOf' = [tokenOf EXCEPT ![c] = call.token]
                 /\ reg' = MembershipAfter(call, c)
                 /\ InList(lists, call.token)' = InList(lists, call.token) \cup {c}
                 /\ \A t \in Tokens \ {call.token} : lists'[t] = lists[t]
<1>1. /\ call.kind \in {"connect", "setToken"} /\ call.token \in Tokens
      /\ phase' = phase
  BY DEF ApplyToken, TokenCalls
<1>2. CASE call.answer = "ok"
  <2>1. /\ tokenOf' = [tokenOf EXCEPT ![c] = call.token]
        /\ lists' = [lists EXCEPT ![call.token] = Append(lists[call.token], c)]
        /\ reg' = MembershipAfter(call, c)
    BY <1>2 DEF ApplyToken, AddConnection
  <2>2. /\ lists'[call.token] = Append(lists[call.token], c)
        /\ \A t \in Tokens \ {call.token} : lists'[t] = lists[t]
    BY <1>1, <2>1 DEF ConnTypes
  <2>3. lists[call.token] \in Seq(Connections)
    BY <1>1 DEF ConnTypes
  <2>4. InList(lists, call.token)' = InList(lists, call.token) \cup {c}
    <3>1. Lists!ToSet(lists'[call.token]) = Lists!ToSet(lists[call.token]) \cup {c}
      BY <2>2, <2>3, AppendedList
    <3> QED BY <3>1 DEF InList
  <2> QED BY <1>1, <2>1, <2>2, <2>4
<1>3. CASE call.answer # "ok"
  BY <1>1, <1>3 DEF ApplyToken
<1> QED BY <1>2, <1>3

\* A connection that closes leaves a list; nobody else does, and nobody joins one.
LEMMA HandleDisconnectEffect ==
    ASSUME ConnTypes, NEW c \in Connections, HandleDisconnect(c)
    PROVE  /\ tokenOf' = tokenOf /\ phase'[c] = "closed"
           /\ \A e \in Connections \ {c} : phase'[e] = phase[e]
           /\ \A t \in Tokens : /\ InList(lists, t)' \subseteq InList(lists, t)
                                /\ InList(lists, t) \ {c} \subseteq InList(lists, t)'
<1>1. /\ tokenOf' = tokenOf /\ phase'[c] = "closed"
      /\ \A e \in Connections \ {c} : phase'[e] = phase[e]
  BY DEF HandleDisconnect, ConnTypes
<1>2. ASSUME NEW own \in Tokens, tokenOf[c] = own
      PROVE  \A t \in Tokens : /\ InList(lists, t)' \subseteq InList(lists, t)
                               /\ InList(lists, t) \ {c} \subseteq InList(lists, t)'
  <2>1. /\ lists'[own] = Lists!RemoveFirst(lists[own], c)
        /\ \A t \in Tokens \ {own} : lists'[t] = lists[t]
    BY <1>2 DEF HandleDisconnect, RemoveConnection, ConnTypes
  <2>2. lists[own] \in Seq(Connections)
    BY DEF ConnTypes
  <2>3. /\ Lists!ToSet(lists'[own]) \subseteq Lists!ToSet(lists[own])
        /\ Lists!ToSet(lists[own]) \ {c} \subseteq Lists!ToSet(lists'[own])
    BY <2>1, <2>2, RemoveFirstProperties
  <2>4. ASSUME NEW t \in Tokens
        PROVE  /\ InList(lists, t)' \subseteq InList(lists, t)
               /\ InList(lists, t) \ {c} \subseteq InList(lists, t)'
    <3>1. CASE t = own
      BY <2>3, <3>1 DEF InList
    <3>2. CASE t # own
      BY <2>1, <3>2 DEF InList
    <3> QED BY <3>1, <3>2
  <2> QED BY <2>4
<1>3. CASE tokenOf[c] \notin Tokens
  BY <1>1, <1>3 DEF HandleDisconnect, InList
<1> QED BY <1>1, <1>2, <1>3

\* An update empties the old token's list into the new one's, or does nothing.
LEMMA UpdatedLists ==
    ASSUME ConnTypes, NEW u \in inbox, OnUpdateTokenMessage(u[1], u[2])
    PROVE  \A t \in Tokens : InList(lists, t)' =
               IF lists[u[1]] = <<>> THEN InList(lists, t)
               ELSE IF t = u[2] THEN InList(lists, u[1])
               ELSE IF t = u[1] THEN {} ELSE InList(lists, t)
<1>1. u[1] \in Tokens /\ u[2] \in Tokens
  BY UpdateEffect
<1>2. CASE lists[u[1]] = <<>>
  BY <1>2 DEF OnUpdateTokenMessage, InList
<1>3. CASE lists[u[1]] # <<>>
  <2>1. lists' = [lists EXCEPT ![u[1]] = <<>>, ![u[2]] = lists[u[1]]]
    BY <1>3 DEF OnUpdateTokenMessage, Renamed
  <2> QED BY <1>1, <1>3, <2>1 DEF InList, ConnTypes, Lists!ToSet
<1> QED BY <1>2, <1>3

LEMMA ListedHaveTokensStep ==
    ASSUME ConnTypes, Fresh, ListedHaveTokens, [Next]_vars
    PROVE  ListedHaveTokens'
<1>0. \A t \in Tokens : InList(lists, t) \subseteq Connections
  BY ToSetType DEF ConnTypes, InList
<1>1. CASE Quiet
  BY <1>1 DEF Quiet, ListedHaveTokens, InList
<1>2. ASSUME NEW c \in Connections, ConnectAnonymous(c)
      PROVE  ListedHaveTokens'
  <2>1. tokenOf[c] = NoAccess /\ lists' = lists
        /\ \A e \in Connections \ {c} : tokenOf'[e] = tokenOf[e]
    BY <1>2 DEF ConnectAnonymous, serviceVars, Fresh, ConnTypes
  <2> QED BY <1>0, <2>1, ProxyAssumption DEF ListedHaveTokens, InList
<1>3. ASSUME NEW c \in Connections, NEW call \in calls[c], ApplyToken(c, call)
      PROVE  ListedHaveTokens'
  <2>1. CASE UNCHANGED <<tokenOf, lists>>
    BY <2>1 DEF ListedHaveTokens, InList
  <2>2. CASE /\ tokenOf' = [tokenOf EXCEPT ![c] = call.token] /\ call.token \in Tokens
             /\ InList(lists, call.token)' = InList(lists, call.token) \cup {c}
             /\ \A t \in Tokens \ {call.token} : lists'[t] = lists[t]
    <3>1. tokenOf'[c] = call.token
          /\ \A e \in Connections \ {c} : tokenOf'[e] = tokenOf[e]
      BY <2>2 DEF ConnTypes
    <3>2. \A t \in Tokens : InList(lists, t)' \subseteq InList(lists, t) \cup {c}
      BY <2>2 DEF InList
    <3>3. ASSUME NEW t \in Tokens, NEW e \in InList(lists, t)'
          PROVE  tokenOf'[e] \in Tokens
      <4>1. CASE e = c
        BY <2>2, <3>1, <4>1
      <4>2. CASE e # c
        BY <1>0, <3>1, <3>2, <4>2 DEF ListedHaveTokens
      <4> QED BY <4>1, <4>2
    <3> QED BY <3>3 DEF ListedHaveTokens
  <2> QED BY <1>3, <2>1, <2>2, ApplyTokenEffect
<1>4. ASSUME NEW c \in Connections, HandleDisconnect(c)
      PROVE  ListedHaveTokens'
  BY <1>4, HandleDisconnectEffect DEF ListedHaveTokens
<1>5. ASSUME NEW u \in inbox, OnUpdateTokenMessage(u[1], u[2])
      PROVE  ListedHaveTokens'
  <2>1. /\ u[1] \in Tokens /\ u[2] \in Tokens
        /\ \A c \in Connections :
               tokenOf'[c] = IF c \in InList(lists, u[1]) THEN u[2] ELSE tokenOf[c]
    BY <1>5, UpdateEffect
  <2>2. \A t \in Tokens : InList(lists, t)' \subseteq InList(lists, t) \cup InList(lists, u[1])
    BY <1>5, UpdatedLists
  <2>3. ASSUME NEW t \in Tokens, NEW e \in InList(lists, t)'
        PROVE  tokenOf'[e] \in Tokens
    BY <1>0, <2>1, <2>2 DEF ListedHaveTokens
  <2> QED BY <2>3 DEF ListedHaveTokens
<1>6. CASE CheckTokenExpiration
  <2>1. /\ tokenOf' = tokenOf
        /\ \A t \in Tokens : lists'[t] = <<>> \/ lists'[t] = lists[t]
    BY <1>6 DEF CheckTokenExpiration
  <2>2. \A t \in Tokens : InList(lists, t)' \subseteq InList(lists, t)
    BY <2>1 DEF InList, Lists!ToSet
  <2> QED BY <2>1, <2>2 DEF ListedHaveTokens
<1> QED BY <1>1, <1>2, <1>3, <1>4, <1>5, <1>6, NextSteps

\* What holds of the connections whatever is switched or updated.
ConnInv == ConnTypes /\ Fresh /\ ListedHaveTokens

LEMMA NobodyListed == Init => \A t \in Tokens : InList(lists, t) = {}
BY DEF Init, InList, Lists!ToSet

LEMMA ConnInit == Init => ConnInv
<1>1. Init => Fresh
  BY DEF Init, Fresh
<1> QED BY <1>1, ConnTypesInit, NobodyListed DEF ConnInv, ListedHaveTokens

LEMMA ConnStep == ConnInv /\ [Next]_vars => ConnInv'
BY ConnTypesStep, FreshStep, ListedHaveTokensStep DEF ConnInv

ListsInv == ConnTypes /\ Fresh /\ ConnectAlone /\ ListsHoldTheirToken

LEMMA ListsInit == Init => ListsInv
<1>1. Init => Fresh /\ ConnectAlone
  BY DEF Init, Fresh, ConnectAlone
<1>2. Init => ListsHoldTheirToken
  BY NobodyListed DEF ListsHoldTheirToken
<1> QED BY <1>1, <1>2, ConnTypesInit DEF ListsInv

LEMMA ListsStep ==
    ASSUME SwitchTokens = {}, ListsInv, [Next]_vars
    PROVE  ListsInv'
<1> USE DEF ListsInv
<1>1. ConnTypes' /\ Fresh' /\ ConnectAlone'
  BY ConnTypesStep, FreshStep, ConnectAloneStep, HeldTokensAreTokens
<1> SUFFICES ListsHoldTheirToken'
  BY <1>1
<1>2. CASE Quiet
  BY <1>2 DEF Quiet, ListsHoldTheirToken, InList
<1>3. ASSUME NEW c \in Connections, ConnectAnonymous(c)
      PROVE  ListsHoldTheirToken'
  <2>1. tokenOf[c] = NoAccess /\ lists' = lists
        /\ \A e \in Connections \ {c} : tokenOf'[e] = tokenOf[e]
    BY <1>3 DEF ConnectAnonymous, serviceVars, Fresh, ConnTypes
  <2>2. \A t \in Tokens : InList(lists, t) \subseteq Connections
    BY ToSetType DEF ConnTypes, InList
  <2> QED BY <2>1, <2>2, ProxyAssumption DEF ListsHoldTheirToken, InList
<1>4. ASSUME NEW c \in Connections, NEW call \in calls[c], ApplyToken(c, call)
      PROVE  ListsHoldTheirToken'
  <2>1. call.kind = "connect" /\ tokenOf[c] = NoAccess /\ call.token \in Tokens
    BY <1>4, ApplyTokenEffect DEF ConnectAlone
  <2>2. CASE UNCHANGED <<tokenOf, lists>>
    BY <2>2 DEF ListsHoldTheirToken, InList
  <2>3. CASE /\ tokenOf' = [tokenOf EXCEPT ![c] = call.token]
             /\ InList(lists, call.token)' = InList(lists, call.token) \cup {c}
             /\ \A t \in Tokens \ {call.token} : lists'[t] = lists[t]
    <3>1. \A t \in Tokens : InList(lists, t) \subseteq Connections /\ c \notin InList(lists, t)
      BY <2>1, ToSetType, ProxyAssumption DEF ConnTypes, InList, ListsHoldTheirToken
    <3>2. tokenOf'[c] = call.token
          /\ \A e \in Connections \ {c} : tokenOf'[e] = tokenOf[e]
      BY <2>3 DEF ConnTypes
    <3>3. \A t \in Tokens \ {call.token} : InList(lists, t)' = InList(lists, t)
      BY <2>3 DEF InList
    <3>4. ASSUME NEW t \in Tokens, NEW e \in InList(lists, t)'
          PROVE  tokenOf'[e] = t
      BY <2>3, <3>1, <3>2, <3>3, <3>4 DEF ListsHoldTheirToken
    <3> QED BY <3>4 DEF ListsHoldTheirToken
  <2> QED BY <1>4, <2>2, <2>3, ApplyTokenEffect
<1>5. ASSUME NEW c \in Connections, HandleDisconnect(c)
      PROVE  ListsHoldTheirToken'
  BY <1>5, HandleDisconnectEffect DEF ListsHoldTheirToken
<1>6. ASSUME NEW u \in inbox, OnUpdateTokenMessage(u[1], u[2])
      PROVE  ListsHoldTheirToken'
  <2>1. /\ u[1] \in Tokens /\ u[2] \in Tokens
        /\ \A c \in Connections :
               tokenOf'[c] = IF c \in InList(lists, u[1]) THEN u[2] ELSE tokenOf[c]
    BY <1>6, UpdateEffect
  <2>2. \A t \in Tokens : InList(lists, t) \subseteq Connections
    BY ToSetType DEF ConnTypes, InList
  <2>3. CASE lists[u[1]] # <<>>
    <3>2. ASSUME NEW t \in Tokens
          PROVE  InList(lists, t)' = IF t = u[2] THEN InList(lists, u[1])
                                     ELSE IF t = u[1] THEN {} ELSE InList(lists, t)
      BY <1>6, <2>3, UpdatedLists
    <3>3. ASSUME NEW t \in Tokens, NEW e \in InList(lists, t)'
          PROVE  tokenOf'[e] = t
      <4>1. CASE t = u[2]
        BY <2>1, <2>2, <3>2, <3>3, <4>1
      <4>2. CASE t # u[2]
        <5>1. e \in InList(lists, t) /\ t # u[1] /\ e \in Connections
          BY <2>2, <3>2, <3>3, <4>2
        <5>2. tokenOf[e] = t /\ e \notin InList(lists, u[1])
          BY <2>1, <5>1 DEF ListsHoldTheirToken
        <5> QED BY <2>1, <5>1, <5>2
      <4> QED BY <4>1, <4>2
    <3> QED BY <3>3 DEF ListsHoldTheirToken
  <2>4. CASE lists[u[1]] = <<>>
    <3>1. InList(lists, u[1]) = {}
      BY <2>4 DEF InList, Lists!ToSet
    <3>2. \A t \in Tokens : InList(lists, t)' = InList(lists, t)
      BY <1>6, <2>4, UpdatedLists
    <3> QED BY <2>1, <2>2, <3>1, <3>2 DEF ListsHoldTheirToken
  <2> QED BY <2>3, <2>4
<1>7. CASE CheckTokenExpiration
  <2>1. /\ tokenOf' = tokenOf
        /\ \A t \in Tokens : lists'[t] = <<>> \/ lists'[t] = lists[t]
    BY <1>7 DEF CheckTokenExpiration
  <2>2. \A t \in Tokens : InList(lists, t)' \subseteq InList(lists, t)
    BY <2>1 DEF InList, Lists!ToSet
  <2> QED BY <2>1, <2>2 DEF ListsHoldTheirToken
<1>8. \/ Quiet
      \/ \E c \in Connections :
             \/ ConnectAnonymous(c)
             \/ \E call \in calls[c] : ApplyToken(c, call)
             \/ HandleDisconnect(c)
      \/ \E u \in inbox : OnUpdateTokenMessage(u[1], u[2])
      \/ CheckTokenExpiration
  BY NextSteps
<1> QED BY <1>2, <1>3, <1>4, <1>5, <1>6, <1>7, <1>8

\* Without setToken, the connections of a list have the list's token at all
\* times, so that the first tells when all of them expire: through any number
\* of connects, updates that rename lists, answers that come late and closes.
THEOREM ListsHoldTheirTokenHolds ==
    ASSUME SwitchTokens = {}
    PROVE  Spec => []ListsHoldTheirToken
<1>1. ListsInv => ListsHoldTheirToken
  BY DEF ListsInv
<1>2. ListsInv /\ [Next]_vars => ListsInv'
  BY ListsStep
<1> QED BY <1>1, <1>2, ListsInit, PTL DEF Spec

\* Only CheckTokenExpiration closes a connection, for the first of its list.
LEMMA ClosingStep ==
    ASSUME ListsInv, [Next]_vars, NEW c \in Connections,
           phase[c] = "open", phase'[c] = "closing"
    PROVE  tokenOf[c] \in expired
<1> USE DEF ListsInv
<1>1. CASE CheckTokenExpiration
  <2>1. c \in ToClose
    BY <1>1 DEF CheckTokenExpiration, ConnTypes
  <2>2. PICK t \in Tokens : /\ c \in InList(lists, t) /\ lists[t] # <<>>
                            /\ tokenOf[Head(lists[t])] \in expired
    BY <2>1 DEF ToClose, Expirable
  <2>3. Head(lists[t]) \in InList(lists, t)
    BY <2>2, HeadInList DEF InList, ConnTypes
  <2> QED BY <2>2, <2>3 DEF ListsHoldTheirToken
<1>2. CASE ~CheckTokenExpiration
  <2>1. phase'[c] # "closing"
    <3>1. ASSUME NEW e \in Connections, ConnectAnonymous(e) PROVE phase'[c] # "closing"
      BY <3>1 DEF ConnectAnonymous, ConnTypes
    <3>2. ASSUME NEW e \in Connections, NEW t \in ConnectTokens, Connect(e, t)
          PROVE  phase'[c] # "closing"
      BY <3>2 DEF Connect, ConnTypes
    <3>3. ASSUME NEW e \in Connections, HandleDisconnect(e) PROVE phase'[c] # "closing"
      BY <3>3 DEF HandleDisconnect, ConnTypes
    <3>4. ASSUME NEW e \in Connections,
                 \/ \E t \in SwitchTokens : SetToken(e, t)
                 \/ \E call \in calls[e] : ApplyToken(e, call)
                 \/ \E d \in Docs : JoinListed(e, d) \/ JoinUnlisted(e, d) \/ JoinAnswered(e, d)
                 \/ \E kind \in {"connect", "setToken"}, t \in Tokens :
                        CheckClientToken(e, kind, t)
          PROVE  phase' = phase
      BY <3>4 DEF SetToken, ApplyToken, JoinListed, JoinUnlisted, JoinAnswered,
                  CheckClientToken, connVars
    <3>5. CASE \/ \E u \in TokenUpdates : UpdateToken(u[1], u[2])
               \/ \E u \in inbox : OnUpdateTokenMessage(u[1], u[2])
               \/ \E t \in Tokens : TokenExpires(t)
               \/ UNCHANGED vars
      <4>1. phase' = phase
        BY <3>5 DEF UpdateToken, OnUpdateTokenMessage, TokenExpires, vars, connVars
      <4> QED BY <4>1
    <3> QED BY <1>2, <3>1, <3>2, <3>3, <3>4, <3>5 DEF Next
  <2> QED BY <2>1
<1> QED BY <1>1, <1>2

\* Without setToken, the server closes no connection but those whose own token
\* has expired, although it looks at the expiry of the first of a list only.
THEOREM OnlyExpiredClosedHolds ==
    ASSUME SwitchTokens = {}
    PROVE  Spec => OnlyExpiredClosed
<1>1. ListsInv /\ [Next]_vars =>
          [\A c \in Connections :
               phase[c] = "open" /\ phase'[c] = "closing" => tokenOf[c] \in expired]_vars
  BY ClosingStep
<1>2. ListsInv /\ [Next]_vars => ListsInv'
  BY ListsStep
<1> QED BY <1>1, <1>2, ListsInit, PTL DEF Spec, OnlyExpiredClosed

\* The tokens that updates replace others by; who gives such a token to a client
\* that comes with it itself.
UpdateTargets == {u[2] : u \in TokenUpdates}

TargetsKept == (ConnectTokens \cup SwitchTokens) \cap UpdateTargets = {}

\* The answers that are awaited are about other tokens.
TargetsNotAsked ==
    \A c \in Connections : \A call \in calls[c] :
        call \in TokenCalls => call.token \notin UpdateTargets

\* A token is the target of one update only, and nobody is in its list until
\* that update arrives: the API refuses a token id that it has a record of.
TargetsPending ==
    /\ \A u \in inbox : u[2] \in recorded
    /\ \A u, v \in inbox : u[2] = v[2] => u = v
    /\ \A t \in UpdateTargets :
           t \notin recorded \/ (\E u \in inbox : u[2] = t) => InList(lists, t) = {}

PendingInv == TargetsNotAsked /\ TargetsPending

LEMMA PendingInit == Init => PendingInv
<1>1. UpdateTargets \subseteq Tokens
  BY ProxyAssumption DEF UpdateTargets
<1> QED BY <1>1, NobodyListed DEF Init, PendingInv, TargetsNotAsked, TargetsPending

LEMMA TargetsNotAskedStep ==
    ASSUME TargetsKept, ConnTypes, TargetsNotAsked, [Next]_vars
    PROVE  TargetsNotAsked'
<1> USE DEF TargetsNotAsked
<1>0. \A c \in Connections : calls[c] \subseteq TokenCalls \cup JoinCalls
  BY DEF ConnTypes
<1>1. ASSUME NEW c \in Connections, NEW kind \in {"connect", "setToken"}, NEW t,
             t \notin UpdateTargets, Await(c, AskToken(kind, t))
      PROVE  TargetsNotAsked'
  <2>1. AskToken(kind, t).token = t
    BY DEF AskToken
  <2> QED BY <1>1, <2>1 DEF Await, ConnTypes
<1>2. ASSUME NEW c \in Connections,
             \/ \E t \in ConnectTokens : Connect(c, t)
             \/ \E t \in SwitchTokens : SetToken(c, t)
      PROVE  TargetsNotAsked'
  <2>1. \E t \in ConnectTokens \cup SwitchTokens, kind \in {"connect", "setToken"} :
            Await(c, AskToken(kind, t))
    BY <1>2 DEF Connect, SetToken
  <2> HIDE DEF TargetsNotAsked
  <2> QED BY <1>1, <2>1 DEF TargetsKept
<1>3. ASSUME NEW c \in Connections, NEW d \in Docs, JoinUnlisted(c, d)
      PROVE  TargetsNotAsked'
  <2>1. [kind |-> "join", doc |-> d] \notin TokenCalls
    BY DEF TokenCalls
  <2> QED BY <1>3, <2>1 DEF JoinUnlisted, Await, ConnTypes
<1>4. ASSUME NEW c \in Connections, NEW call \in calls[c], ApplyToken(c, call)
      PROVE  TargetsNotAsked'
  <2>1. calls' = [calls EXCEPT ![c] = @ \ {call}]
    BY <1>4 DEF ApplyToken, Settle
  <2> QED BY <2>1 DEF ConnTypes
<1>5. ASSUME NEW c \in Connections, NEW d \in Docs, JoinAnswered(c, d)
      PROVE  TargetsNotAsked'
  BY <1>5 DEF JoinAnswered, Settle, ConnTypes
<1>6. ASSUME NEW c \in Connections, NEW kind \in {"connect", "setToken"},
             NEW t \in Tokens, CheckClientToken(c, kind, t)
      PROVE  TargetsNotAsked'
  <2>1. /\ AskToken(kind, t) \in calls[c] /\ AskToken(kind, t) \in TokenCalls
        /\ AskToken(kind, t).token = t
    BY <1>6, CallTypes DEF CheckClientToken, AskToken
  <2>2. t \notin UpdateTargets
    BY <2>1
  <2>3. PICK a \in {"ok", "err"} :
            calls' = [calls EXCEPT ![c] = (calls[c] \ {AskToken(kind, t)})
                                  \cup {[AskToken(kind, t) EXCEPT !.answer = a]}]
    BY <1>6, CheckClientTokenEffect
  <2>4. [AskToken(kind, t) EXCEPT !.answer = a].token = t
    BY DEF AskToken
  <2> QED BY <2>2, <2>3, <2>4 DEF ConnTypes
<1>7. ASSUME calls' = calls PROVE TargetsNotAsked'
  BY <1>7
<1>8. ASSUME \/ \E c \in Connections :
                    \/ ConnectAnonymous(c)
                    \/ \E d \in Docs : JoinListed(c, d)
                    \/ HandleDisconnect(c)
             \/ \E u \in TokenUpdates : UpdateToken(u[1], u[2])
             \/ \E u \in inbox : OnUpdateTokenMessage(u[1], u[2])
             \/ CheckTokenExpiration
             \/ \E t \in Tokens : TokenExpires(t)
             \/ UNCHANGED vars
      PROVE  calls' = calls
  BY <1>8 DEF ConnectAnonymous, JoinListed, HandleDisconnect, UpdateToken,
              OnUpdateTokenMessage, CheckTokenExpiration, TokenExpires, vars, connVars
<1> HIDE DEF TargetsNotAsked
<1> QED BY <1>2, <1>3, <1>4, <1>5, <1>6, <1>7, <1>8, Zenon DEF Next

LEMMA TargetsPendingStep ==
    ASSUME ConnTypes, PendingInv, [Next]_vars
    PROVE  TargetsPending'
<1> USE DEF PendingInv
<1>0. UpdateTargets \subseteq Tokens /\ \A u \in inbox : u[2] \in UpdateTargets
  BY ProxyAssumption DEF UpdateTargets, ConnTypes
<1>1. ASSUME inbox' = inbox, recorded \subseteq recorded',
             \A t \in UpdateTargets : InList(lists, t)' \subseteq InList(lists, t)
      PROVE  TargetsPending'
  BY <1>1 DEF TargetsPending
<1>2. ASSUME NEW c \in Connections,
             \/ ConnectAnonymous(c)
             \/ \E t \in ConnectTokens : Connect(c, t)
             \/ \E t \in SwitchTokens : SetToken(c, t)
             \/ \E d \in Docs : JoinListed(c, d) \/ JoinUnlisted(c, d) \/ JoinAnswered(c, d)
             \/ \E kind \in {"connect", "setToken"}, t \in Tokens :
                    CheckClientToken(c, kind, t)
      PROVE  inbox' = inbox /\ lists' = lists /\ recorded \subseteq recorded'
  BY <1>2 DEF ConnectAnonymous, Connect, SetToken, JoinListed, JoinUnlisted,
              JoinAnswered, CheckClientToken, serviceVars, apiVars
<1>3. ASSUME NEW c \in Connections, NEW call \in calls[c], ApplyToken(c, call)
      PROVE  TargetsPending'
  <2>1. call \in TokenCalls /\ inbox' = inbox /\ recorded' = recorded
    BY <1>3 DEF ApplyToken, apiVars
  <2>2. call.token \notin UpdateTargets
    BY <2>1 DEF TargetsNotAsked
  <2>3. \A t \in Tokens \ {call.token} : lists'[t] = lists[t]
    BY <1>3, ApplyTokenEffect
  <2> QED BY <1>0, <1>1, <2>1, <2>2, <2>3 DEF InList
<1>4. ASSUME NEW c \in Connections, HandleDisconnect(c)
      PROVE  TargetsPending'
  <2>1. inbox' = inbox /\ recorded' = recorded
    BY <1>4 DEF HandleDisconnect, apiVars
  <2> QED BY <1>0, <1>1, <1>4, <2>1, HandleDisconnectEffect
<1>5. ASSUME NEW u \in TokenUpdates, UpdateToken(u[1], u[2])
      PROVE  TargetsPending'
  <2>1. /\ u[2] \notin recorded /\ recorded' = recorded \cup {u[2]}
        /\ inbox' = inbox \cup {<<u[1], u[2]>>} /\ lists' = lists
    BY <1>5 DEF UpdateToken, serviceVars
  <2>2. \A v \in inbox : v[2] \in recorded /\ v[2] # u[2]
    BY <2>1 DEF TargetsPending
  <2> QED BY <2>1, <2>2 DEF TargetsPending, InList
<1>6. ASSUME NEW u \in inbox, OnUpdateTokenMessage(u[1], u[2])
      PROVE  TargetsPending'
  <2>1. recorded' = recorded /\ inbox' = inbox \ {u}
    <3>1. u = <<u[1], u[2]>>
      BY ProxyAssumption DEF ConnTypes
    <3> QED BY <1>6, <3>1 DEF OnUpdateTokenMessage
  <2>2. ASSUME NEW t \in UpdateTargets,
               t \notin recorded \/ \E v \in inbox \ {u} : v[2] = t
        PROVE  InList(lists, t)' = {}
    <3>1. t # u[2] /\ InList(lists, t) = {} /\ t \in Tokens
      BY <1>0, <2>2 DEF TargetsPending
    <3> QED BY <1>6, <3>1, UpdatedLists
  <2> QED BY <2>1, <2>2 DEF TargetsPending
<1>7. CASE CheckTokenExpiration
  <2>1. /\ inbox' = inbox /\ recorded' = recorded
        /\ \A t \in Tokens : lists'[t] = <<>> \/ lists'[t] = lists[t]
    BY <1>7 DEF CheckTokenExpiration, apiVars
  <2> QED BY <1>0, <1>1, <2>1 DEF InList, Lists!ToSet
<1>8. ASSUME (\E t \in Tokens : TokenExpires(t)) \/ UNCHANGED vars
      PROVE  inbox' = inbox /\ lists' = lists /\ recorded \subseteq recorded'
  BY <1>8 DEF TokenExpires, vars, serviceVars, apiVars
<1>9. ASSUME inbox' = inbox, lists' = lists, recorded \subseteq recorded'
       PROVE  TargetsPending'
  BY <1>1, <1>9 DEF InList
<1> HIDE DEF PendingInv
<1> QED BY <1>2, <1>3, <1>4, <1>5, <1>6, <1>7, <1>8, <1>9, Zenon DEF Next

ListedInv == ConnInv /\ PendingInv /\ OpenConnectionsListed

LEMMA ListedInit == Init => ListedInv
<1>1. Init => OpenConnectionsListed
  BY ProxyAssumption DEF Init, OpenConnectionsListed
<1> QED BY <1>1, ConnInit, PendingInit DEF ListedInv

LEMMA ListedStep ==
    ASSUME TargetsKept, ListedInv, [Next]_vars
    PROVE  ListedInv'
<1> USE DEF ListedInv, ConnInv
<1>1. ConnInv' /\ PendingInv'
  BY ConnStep, TargetsNotAskedStep, TargetsPendingStep DEF PendingInv
<1> SUFFICES OpenConnectionsListed'
  BY <1>1
<1>2. CASE Quiet
  BY <1>2, ProxyAssumption DEF Quiet, OpenConnectionsListed, InList, Fresh
<1>3. ASSUME NEW c \in Connections, ConnectAnonymous(c)
      PROVE  OpenConnectionsListed'
  <2>1. /\ tokenOf'[c] = NoToken /\ lists' = lists
        /\ \A e \in Connections \ {c} : tokenOf'[e] = tokenOf[e] /\ phase'[e] = phase[e]
    BY <1>3 DEF ConnectAnonymous, serviceVars, ConnTypes
  <2> QED BY <2>1, ProxyAssumption DEF OpenConnectionsListed, InList
<1>4. ASSUME NEW c \in Connections, NEW call \in calls[c], ApplyToken(c, call)
      PROVE  OpenConnectionsListed'
  <2>1. call.token \in Tokens /\ phase' = phase
    BY <1>4, ApplyTokenEffect
  <2>2. CASE UNCHANGED <<tokenOf, lists>>
    BY <2>1, <2>2 DEF OpenConnectionsListed, InList
  <2>3. CASE /\ tokenOf' = [tokenOf EXCEPT ![c] = call.token]
             /\ InList(lists, call.token)' = InList(lists, call.token) \cup {c}
             /\ \A t \in Tokens \ {call.token} : lists'[t] = lists[t]
    <3>1. \A t \in Tokens : InList(lists, t) \subseteq InList(lists, t)'
      BY <2>3 DEF InList
    <3>2. tokenOf'[c] = call.token /\ \A e \in Connections \ {c} : tokenOf'[e] = tokenOf[e]
      BY <2>3 DEF ConnTypes
    <3>3. \A t \in Tokens : InList(lists, t)' = Lists!ToSet(lists'[t])
      BY DEF InList
    <3>4. \A e \in Connections \ {c} :
              phase'[e] = "open" /\ tokenOf'[e] \in Tokens
                  => e \in Lists!ToSet(lists'[tokenOf'[e]])
      BY <2>1, <3>1, <3>2, <3>3 DEF OpenConnectionsListed
    <3>5. c \in Lists!ToSet(lists'[tokenOf'[c]])
      BY <2>1, <2>3, <3>2, <3>3
    <3> QED BY <3>4, <3>5 DEF OpenConnectionsListed, InList
  <2> QED BY <1>4, <2>2, <2>3, ApplyTokenEffect
<1>5. ASSUME NEW c \in Connections, HandleDisconnect(c)
      PROVE  OpenConnectionsListed'
  <2>1. /\ tokenOf' = tokenOf /\ phase'[c] = "closed"
        /\ \A e \in Connections \ {c} : phase'[e] = phase[e]
        /\ \A t \in Tokens : InList(lists, t) \ {c} \subseteq InList(lists, t)'
    BY <1>5, HandleDisconnectEffect
  <2>2. \A t \in Tokens : InList(lists, t)' = Lists!ToSet(lists'[t])
    BY DEF InList
  <2> QED BY <2>1, <2>2 DEF OpenConnectionsListed, InList
<1>6. ASSUME NEW u \in inbox, OnUpdateTokenMessage(u[1], u[2])
      PROVE  OpenConnectionsListed'
  <2>1. /\ u[1] \in Tokens /\ u[2] \in Tokens /\ phase' = phase
        /\ \A c \in Connections :
               tokenOf'[c] = IF c \in InList(lists, u[1]) THEN u[2] ELSE tokenOf[c]
    BY <1>6, UpdateEffect
  <2>2. \A t \in Tokens : InList(lists, t)' =
            IF lists[u[1]] = <<>> THEN InList(lists, t)
            ELSE IF t = u[2] THEN InList(lists, u[1])
            ELSE IF t = u[1] THEN {} ELSE InList(lists, t)
    BY <1>6, UpdatedLists
  <2>3. InList(lists, u[2]) = {}
    <3>1. u[2] \in UpdateTargets
      BY DEF ConnTypes, UpdateTargets
    <3> QED BY <3>1 DEF PendingInv, TargetsPending
  <2>4. lists[u[1]] = <<>> => InList(lists, u[1]) = {}
    BY DEF InList, Lists!ToSet
  <2>5. ASSUME NEW c \in Connections, NEW t \in Tokens, phase[c] = "open", tokenOf'[c] = t
        PROVE  c \in InList(lists, t)'
    <3>1. CASE c \in InList(lists, u[1])
      BY <2>1, <2>2, <2>4, <2>5, <3>1
    <3>2. CASE c \notin InList(lists, u[1])
      <4>1. c \in InList(lists, t)
        BY <2>1, <2>5, <3>2 DEF OpenConnectionsListed
      <4> QED BY <2>2, <2>3, <3>2, <4>1
    <3> QED BY <3>1, <3>2
  <2>6. \A c \in Connections : phase'[c] = "open" /\ tokenOf'[c] \in Tokens
            => c \in Lists!ToSet(lists'[tokenOf'[c]])
    BY <2>1, <2>5 DEF InList
  <2> QED BY <2>6 DEF OpenConnectionsListed, InList
<1>7. CASE CheckTokenExpiration
  <2>1. tokenOf' = tokenOf
    BY <1>7 DEF CheckTokenExpiration
  <2>2. ASSUME NEW c \in Connections, phase'[c] = "open", tokenOf[c] \in Tokens
        PROVE  c \in Lists!ToSet(lists'[tokenOf[c]])
    <3>1. phase[c] = "open" /\ c \notin ToClose
      BY <1>7, <2>2 DEF CheckTokenExpiration, ConnTypes
    <3>2. c \in InList(lists, tokenOf[c]) /\ tokenOf[c] \notin Expirable
      BY <2>2, <3>1 DEF OpenConnectionsListed, ToClose
    <3>3. lists'[tokenOf[c]] = lists[tokenOf[c]]
      BY <1>7, <2>2, <3>2 DEF CheckTokenExpiration
    <3> QED BY <3>2, <3>3 DEF InList
  <2> QED BY <2>1, <2>2 DEF OpenConnectionsListed, InList
<1> QED BY <1>2, <1>3, <1>4, <1>5, <1>6, <1>7, NextSteps

\* As long as nobody comes by itself with a token that replaces another, an open
\* connection is in the list of its token, whatever it switches to, early or not,
\* whatever is updated, and whoever else comes and goes: the list that an update
\* overwrites is empty.
THEOREM OpenConnectionsListedHolds ==
    ASSUME TargetsKept
    PROVE  Spec => []OpenConnectionsListed
<1>1. ListedInv => OpenConnectionsListed
  BY DEF ListedInv
<1>2. ListedInv /\ [Next]_vars => ListedInv'
  BY ListedStep
<1> QED BY <1>1, <1>2, ListedInit, PTL DEF Spec

\* What else happens to a listed open connection: nothing, a list of its own
\* again, or the update that overwrites the one it is in.
LEMMA ListLostStep ==
    ASSUME ConnInv, [Next]_vars, NEW c \in Connections,
           ListedOpen(c), phase'[c] = "open"
    PROVE  \/ tokenOf'[c] \in Tokens /\ c \in Lists!ToSet(lists'[tokenOf'[c]])
           \/ \E u \in inbox \ inbox' : /\ u[2] = tokenOf[c] /\ lists[u[1]] # <<>>
                                        /\ c \notin InList(lists, u[1])
<1> USE DEF ConnInv
<1>0. /\ phase[c] = "open" /\ tokenOf[c] \in Tokens
      /\ c \in Lists!ToSet(lists[tokenOf[c]])
  BY DEF ListedOpen, InList
<1>1. CASE Quiet
  BY <1>0, <1>1 DEF Quiet
<1>2. ASSUME NEW e \in Connections, ConnectAnonymous(e)
      PROVE  tokenOf'[c] = tokenOf[c] /\ lists' = lists
  BY <1>0, <1>2 DEF ConnectAnonymous, serviceVars, ConnTypes
<1>3. ASSUME NEW e \in Connections, NEW call \in calls[e], ApplyToken(e, call)
      PROVE  tokenOf'[c] \in Tokens /\ c \in Lists!ToSet(lists'[tokenOf'[c]])
  <2>1. CASE UNCHANGED <<tokenOf, lists>>
    BY <1>0, <2>1
  <2>2. CASE /\ tokenOf' = [tokenOf EXCEPT ![e] = call.token] /\ call.token \in Tokens
             /\ InList(lists, call.token)' = InList(lists, call.token) \cup {e}
             /\ \A t \in Tokens \ {call.token} : lists'[t] = lists[t]
    <3>1. Lists!ToSet(lists'[call.token]) = Lists!ToSet(lists[call.token]) \cup {e}
      BY <2>2 DEF InList
    <3>2. tokenOf'[c] = IF c = e THEN call.token ELSE tokenOf[c]
      BY <2>2 DEF ConnTypes
    <3>3. \A t \in Tokens : Lists!ToSet(lists[t]) \subseteq Lists!ToSet(lists'[t])
      BY <2>2, <3>1
    <3> QED BY <1>0, <2>2, <3>1, <3>2, <3>3
  <2> QED BY <1>3, <2>1, <2>2, ApplyTokenEffect
<1>4. ASSUME NEW e \in Connections, HandleDisconnect(e)
      PROVE  tokenOf'[c] = tokenOf[c] /\ c \in Lists!ToSet(lists'[tokenOf[c]])
  <2>1. /\ tokenOf' = tokenOf /\ phase'[e] = "closed"
        /\ \A t \in Tokens : InList(lists, t) \ {e} \subseteq InList(lists, t)'
    BY <1>4, HandleDisconnectEffect
  <2>2. \A t \in Tokens : InList(lists, t)' = Lists!ToSet(lists'[t])
    BY DEF InList
  <2>3. c # e /\ c \in InList(lists, tokenOf[c])
    BY <1>0, <2>1 DEF InList
  <2> QED BY <1>0, <2>1, <2>2, <2>3
<1>5. ASSUME NEW u \in inbox, OnUpdateTokenMessage(u[1], u[2])
      PROVE  \/ tokenOf'[c] \in Tokens /\ c \in Lists!ToSet(lists'[tokenOf'[c]])
             \/ /\ u \in inbox \ inbox' /\ u[2] = tokenOf[c]
                /\ lists[u[1]] # <<>> /\ c \notin InList(lists, u[1])
  <2>1. /\ u[1] \in Tokens /\ u[2] \in Tokens
        /\ tokenOf'[c] = IF c \in InList(lists, u[1]) THEN u[2] ELSE tokenOf[c]
    BY <1>5, UpdateEffect
  <2>2. \A t \in Tokens : Lists!ToSet(lists'[t]) =
            IF lists[u[1]] = <<>> THEN InList(lists, t)
            ELSE IF t = u[2] THEN InList(lists, u[1])
            ELSE IF t = u[1] THEN {} ELSE InList(lists, t)
    <3>1. \A t \in Tokens : InList(lists, t)' = Lists!ToSet(lists'[t])
      BY DEF InList
    <3> QED BY <1>5, <3>1, UpdatedLists
  <2>3. u = <<u[1], u[2]>> /\ u \notin inbox'
    BY <1>5, ProxyAssumption DEF OnUpdateTokenMessage, ConnTypes
  <2>4. c \in InList(lists, tokenOf[c])
    BY <1>0 DEF InList
  <2>5. lists[u[1]] = <<>> => InList(lists, u[1]) = {}
    BY DEF InList, Lists!ToSet
  <2>6. CASE c \in InList(lists, u[1])
    BY <2>1, <2>2, <2>5, <2>6
  <2>7. CASE c \notin InList(lists, u[1])
    BY <1>0, <2>1, <2>2, <2>3, <2>4, <2>7
  <2> QED BY <2>6, <2>7
<1>6. CASE CheckTokenExpiration
  <2>1. tokenOf' = tokenOf /\ c \notin ToClose
    BY <1>6 DEF CheckTokenExpiration, ConnTypes
  <2>2. tokenOf[c] \notin Expirable
    BY <1>0, <2>1 DEF ToClose, InList
  <2>3. lists'[tokenOf[c]] = lists[tokenOf[c]]
    BY <1>0, <1>6, <2>2 DEF CheckTokenExpiration
  <2> QED BY <1>0, <2>1, <2>3
<1> HIDE DEF ConnInv
<1>7. ConnTypes
  BY DEF ConnInv
<1> QED BY <1>0, <1>1, <1>2, <1>3, <1>4, <1>5, <1>6, <1>7, NextSteps

\* Without that premise, and whatever is switched: what takes an open connection
\* out of the list of its token is an update that brings others to the token.
THEOREM ListLostByOverwriteHolds == Spec => ListLostByOverwrite
<1>1. ConnInv /\ [Next]_vars =>
          [\A c \in Connections :
               ListedOpen(c) /\ phase'[c] = "open" /\ ~ListedOpen(c)' =>
                   \E u \in inbox \ inbox' : /\ u[2] = tokenOf[c]
                                             /\ lists[u[1]] # <<>>
                                             /\ c \notin InList(lists, u[1])]_vars
  <2> SUFFICES ASSUME ConnInv, [Next]_vars, NEW c \in Connections,
                      ListedOpen(c), phase'[c] = "open", ~ListedOpen(c)'
               PROVE  \E u \in inbox \ inbox' : /\ u[2] = tokenOf[c]
                                                /\ lists[u[1]] # <<>>
                                                /\ c \notin InList(lists, u[1])
    OBVIOUS
  <2>1. ~(tokenOf'[c] \in Tokens /\ c \in Lists!ToSet(lists'[tokenOf'[c]]))
    BY DEF ListedOpen, InList
  <2> QED BY <2>1, ListLostStep
<1> QED BY <1>1, ConnInit, ConnStep, PTL DEF Spec, ListLostByOverwrite

-----------------------------------------------------------------------------
(***************************************************************************)
(* What the registry's operations do to memberships, whatever the index    *)
(* names.                                                                  *)
(***************************************************************************)
\* Every document leads to a manager of its own.
OwnManagers(s) ==
    /\ s \in State
    /\ \A d \in Docs : Has(s, d) => DocOf(s.docs[d]) = d

\* joinToDoc: whoever is a member was one, or has just joined; a manager that is
\* made anew starts with nobody in it.
LEMMA JoinMembers ==
    ASSUME NEW s, OwnManagers(s), NEW c \in Connections, NEW D \in SUBSET Docs,
           CanJoin(s, D), NEW r, r = JoinDocs(s, c, D)
    PROVE  /\ OwnManagers(r)
           /\ \A d \in D : Has(r, d)
           /\ \A e \in Connections, f \in Docs :
                  Joined(r, e, f) => Joined(s, e, f) \/ (e = c /\ f \in D)
<1> DEFINE joined == {ManagerFor(s, d) : d \in D}
           docs == [d \in Docs |-> IF d \in D THEN ManagerFor(s, d) ELSE s.docs[d]]
           connections == [m \in Managers |-> IF m \in joined
                                              THEN Members(s, DocOf(m)) \cup {c}
                                              ELSE s.connections[m]]
           index == [s.connectionsToDocs EXCEPT ![c] = @ \cup joined]
<1>0. /\ s.docs \in [Docs -> Managers \cup {NoManager}]
      /\ s.connections \in [Managers -> SUBSET Connections]
      /\ s.connectionsToDocs \in [Connections -> SUBSET Managers]
  BY DEF OwnManagers, State
<1>1. ASSUME NEW d \in D
      PROVE  ManagerFor(s, d) \in Managers /\ DocOf(ManagerFor(s, d)) = d
  <2>1. CASE Has(s, d)
    BY <1>0, <2>1 DEF OwnManagers, Has, ManagerFor
  <2>2. CASE ~Has(s, d)
    <3>1. ManagerFor(s, d) \in FreeManagers(s, d)
      BY <2>2 DEF ManagerFor, CanJoin
    <3> QED BY <3>1 DEF FreeManagers
  <2> QED BY <2>1, <2>2
<1>2. r = [docs |-> docs, connections |-> connections, connectionsToDocs |-> index]
  BY DEF JoinDocs, Indexed
<1>3. joined \subseteq Managers
  BY <1>1
<1>4. \A m \in Managers : DocOf(m) \in Docs
  BY DEF Managers, DocOf
<1>5. \A d \in Docs : Members(s, d) \subseteq Connections
  BY <1>0 DEF Members, Has
<1>6. docs \in [Docs -> Managers \cup {NoManager}]
  BY <1>0, <1>1
<1>7. connections \in [Managers -> SUBSET Connections]
  BY <1>0, <1>4, <1>5
<1>8. index \in [Connections -> SUBSET Managers]
  BY <1>0, <1>3
<1>9. \A d \in Docs : docs[d] = IF d \in D THEN ManagerFor(s, d) ELSE s.docs[d]
  OBVIOUS
<1>10. \A m \in Managers : connections[m] = IF m \in joined
                                            THEN Members(s, DocOf(m)) \cup {c}
                                            ELSE s.connections[m]
  OBVIOUS
<1>11. \A m : m \in joined <=> \E d \in D : m = ManagerFor(s, d)
  OBVIOUS
<1> HIDE DEF docs, connections, index, joined
<1>12. OwnManagers(r) /\ \A d \in D : Has(r, d)
  <2>1. r \in State /\ r.docs = docs
    BY <1>2, <1>6, <1>7, <1>8 DEF State
  <2>2. \A d \in D : ManagerFor(s, d) # NoManager
    BY <1>1, NoManagerAssumption
  <2> QED BY <1>1, <1>9, <2>1, <2>2 DEF OwnManagers, Has
<1>13. ASSUME NEW e \in Connections, NEW f \in Docs, Joined(r, e, f)
       PROVE  Joined(s, e, f) \/ (e = c /\ f \in D)
  <2>1. docs[f] # NoManager /\ e \in connections[docs[f]]
    BY <1>2, <1>13 DEF Joined, Has, Contains
  <2>2. CASE f \in D
    <3>1. docs[f] = ManagerFor(s, f) /\ docs[f] \in joined /\ docs[f] \in Managers
          /\ DocOf(docs[f]) = f
      BY <1>1, <1>9, <1>11, <2>2
    <3>2. e \in Members(s, f) \cup {c}
      BY <1>10, <2>1, <3>1
    <3> QED BY <2>2, <3>2 DEF Members, Joined, Contains
  <2>3. CASE f \notin D
    <3>1. docs[f] = s.docs[f] /\ s.docs[f] \in Managers /\ DocOf(s.docs[f]) = f
      BY <1>0, <1>9, <2>1, <2>3 DEF OwnManagers, Has
    <3>2. s.docs[f] \notin joined
      BY <1>1, <1>11, <2>3, <3>1
    <3> QED BY <1>10, <2>1, <3>1, <3>2 DEF Joined, Has, Contains
  <2> QED BY <2>2, <2>3
<1> QED BY <1>12, <1>13

\* detachDoc: whoever is a member was one, and the connection is none of the
\* documents it is detached from; nothing is in the way of joining others.
LEMMA DetachMembers ==
    ASSUME NEW s, OwnManagers(s), NEW c \in Connections, NEW D \in SUBSET Docs,
           NEW r, r = DetachDocs(s, c, D)
    PROVE  /\ OwnManagers(r)
           /\ \A A \in SUBSET Docs : A \cap D = {} /\ CanJoin(s, A) => CanJoin(r, A)
           /\ \A e \in Connections, f \in Docs :
                  Joined(r, e, f) => Joined(s, e, f) /\ ~(e = c /\ f \in D)
<1> DEFINE emptied == EmptiedByDetach(s, c, D)
           docs == [d \in Docs |-> IF d \in emptied THEN NoManager ELSE s.docs[d]]
           connections == [m \in Managers |-> IF \E d \in D : m = s.docs[d]
                                              THEN s.connections[m] \ {c}
                                              ELSE s.connections[m]]
           index == [s.connectionsToDocs EXCEPT ![c] = IF emptied # {} THEN {} ELSE @]
<1>0. /\ s.docs \in [Docs -> Managers \cup {NoManager}]
      /\ s.connections \in [Managers -> SUBSET Connections]
      /\ s.connectionsToDocs \in [Connections -> SUBSET Managers]
  BY DEF OwnManagers, State
<1>1. r = [docs |-> docs, connections |-> connections, connectionsToDocs |-> index]
  BY DEF DetachDocs
<1>2. emptied \subseteq D
  BY DEF EmptiedByDetach
<1> HIDE DEF emptied
<1>3. docs \in [Docs -> Managers \cup {NoManager}]
  BY <1>0
<1>4. connections \in [Managers -> SUBSET Connections]
  BY <1>0
<1>5. index \in [Connections -> SUBSET Managers]
  BY <1>0
<1>6. \A d \in Docs : docs[d] = IF d \in emptied THEN NoManager ELSE s.docs[d]
  OBVIOUS
<1>7. \A m \in Managers : /\ connections[m] \subseteq s.connections[m]
                          /\ (\E d \in D : m = s.docs[d]) => c \notin connections[m]
  OBVIOUS
<1>8. \A e \in Connections : index[e] \subseteq s.connectionsToDocs[e]
  BY <1>0
<1> HIDE DEF docs, connections, index
<1>9. r.docs = docs /\ r.connections = connections /\ r.connectionsToDocs = index
  BY <1>1
<1>10. OwnManagers(r)
  <2>1. r \in State
    BY <1>1, <1>3, <1>4, <1>5 DEF State
  <2> QED BY <1>6, <1>9, <2>1 DEF OwnManagers, Has
<1>11. ASSUME NEW A \in SUBSET Docs, A \cap D = {}, CanJoin(s, A), NEW d \in A
       PROVE  Has(r, d) \/ FreeManagers(r, d) # {}
  <2>1. r.docs[d] = s.docs[d]
    BY <1>2, <1>6, <1>9, <1>11
  <2>2. FreeManagers(s, d) \subseteq FreeManagers(r, d)
    BY <1>8, <1>9, <2>1 DEF FreeManagers
  <2> QED BY <1>11, <2>1, <2>2 DEF CanJoin, Has
<1>12. ASSUME NEW e \in Connections, NEW f \in Docs, Joined(r, e, f)
       PROVE  Joined(s, e, f) /\ ~(e = c /\ f \in D)
  <2>1. docs[f] # NoManager /\ e \in connections[docs[f]]
    BY <1>9, <1>12 DEF Joined, Has, Contains
  <2>2. docs[f] = s.docs[f] /\ s.docs[f] \in Managers
    BY <1>0, <1>6, <2>1
  <2> QED BY <1>7, <2>1, <2>2 DEF Joined, Has, Contains
<1> QED BY <1>10, <1>11, <1>12 DEF CanJoin

\* disconnect, of one connection or of several: nobody becomes a member.
LEMMA DisconnectMembers ==
    ASSUME NEW s, OwnManagers(s), NEW c \in Connections, NEW r, r = Disconnect(s, c)
    PROVE  /\ OwnManagers(r)
           /\ \A e \in Connections, f \in Docs : Joined(r, e, f) => Joined(s, e, f)
<1>0. /\ s.docs \in [Docs -> Managers \cup {NoManager}]
      /\ s.connections \in [Managers -> SUBSET Connections]
      /\ s.connectionsToDocs \in [Connections -> SUBSET Managers]
  BY DEF OwnManagers, State
<1>1. /\ r \in State
      /\ \A f \in Docs : r.docs[f] = NoManager \/ r.docs[f] = s.docs[f]
      /\ \A n \in Managers : r.connections[n] \subseteq s.connections[n]
  BY <1>0 DEF Disconnect, Left, State
<1>2. ASSUME NEW e \in Connections, NEW f \in Docs, Joined(r, e, f)
      PROVE  Joined(s, e, f)
  <2>1. r.docs[f] = s.docs[f] /\ s.docs[f] \in Managers
    BY <1>0, <1>1, <1>2 DEF Joined, Has
  <2> QED BY <1>1, <1>2, <2>1 DEF Joined, Has, Contains
<1> QED BY <1>1, <1>2 DEF OwnManagers, Has

LEMMA DisconnectAllMembers ==
    ASSUME NEW s, OwnManagers(s), NEW C \in SUBSET Connections,
           NEW r, r = DisconnectAll(s, C)
    PROVE  /\ OwnManagers(r)
           /\ \A e \in Connections, f \in Docs : Joined(r, e, f) => Joined(s, e, f)
<1> DEFINE leaving(m) == {c \in C : m \in s.connectionsToDocs[c]}
           left == [m \in Managers |-> s.connections[m] \ leaving(m)]
           docs == [d \in Docs |->
                       IF \E m \in Managers :
                              DocOf(m) = d /\ leaving(m) # {} /\ left[m] = {}
                       THEN NoManager ELSE s.docs[d]]
           index == [c \in Connections |->
                        IF c \in C THEN {} ELSE s.connectionsToDocs[c]]
<1>0. /\ s.docs \in [Docs -> Managers \cup {NoManager}]
      /\ s.connections \in [Managers -> SUBSET Connections]
      /\ s.connectionsToDocs \in [Connections -> SUBSET Managers]
  BY DEF OwnManagers, State
<1>1. r = [docs |-> docs, connections |-> left, connectionsToDocs |-> index]
  BY DEF DisconnectAll
<1>2. /\ docs \in [Docs -> Managers \cup {NoManager}]
      /\ \A f \in Docs : docs[f] = NoManager \/ docs[f] = s.docs[f]
  BY <1>0
<1>3. /\ left \in [Managers -> SUBSET Connections]
      /\ \A n \in Managers : left[n] \subseteq s.connections[n]
  BY <1>0
<1>4. index \in [Connections -> SUBSET Managers]
  BY <1>0
<1> HIDE DEF docs, left, index
<1>5. r \in State /\ r.docs = docs /\ r.connections = left
  BY <1>1, <1>2, <1>3, <1>4 DEF State
<1>6. ASSUME NEW e \in Connections, NEW f \in Docs, Joined(r, e, f)
      PROVE  Joined(s, e, f)
  <2>1. r.docs[f] = s.docs[f] /\ s.docs[f] \in Managers
    BY <1>0, <1>2, <1>5, <1>6 DEF Joined, Has
  <2> QED BY <1>3, <1>5, <1>6, <2>1 DEF Joined, Has, Contains
<1> QED BY <1>2, <1>5, <1>6 DEF OwnManagers, Has

-----------------------------------------------------------------------------
(***************************************************************************)
(* A token update: the loop of onUpdateTokenMessage over a list of any     *)
(* length.  Reattached is a recursive function; that it exists, and what   *)
(* the loop has done so far, is shown at the shortest part of the list     *)
(* where it would not be so.                                               *)
(***************************************************************************)
RightsDiff(old, new) ==
    /\ Removed(old, new) \subseteq Docs /\ Added(old, new) \subseteq Docs
    /\ Added(old, new) \cap Removed(old, new) = {}

LEMMA RightsDiffs == \A old, new \in Tokens : RightsDiff(old, new)
BY ProxyAssumption, TokenAssumption DEF RightsDiff, Removed, Added

LEMMA ReattachMembers ==
    ASSUME NEW s, OwnManagers(s), NEW c \in Connections,
           NEW old \in Tokens, NEW new \in Tokens, CanJoin(s, Added(old, new)),
           NEW r, r = Reattach(s, c, old, new)
    PROVE  /\ OwnManagers(r) /\ CanJoin(r, Added(old, new))
           /\ \A e \in Connections, f \in Docs :
                  Joined(r, e, f) =>
                      \/ Joined(s, e, f) /\ ~(e = c /\ f \in Removed(old, new))
                      \/ e = c /\ f \in Added(old, new)
<1> DEFINE left == DetachDocs(s, c, Removed(old, new))
<1>1. /\ Removed(old, new) \in SUBSET Docs /\ Added(old, new) \in SUBSET Docs
      /\ Added(old, new) \cap Removed(old, new) = {}
  BY RightsDiffs DEF RightsDiff
<1>2. /\ OwnManagers(left) /\ CanJoin(left, Added(old, new))
      /\ \A e \in Connections, f \in Docs :
             Joined(left, e, f) =>
                 Joined(s, e, f) /\ ~(e = c /\ f \in Removed(old, new))
  BY <1>1, DetachMembers
<1>3. r = JoinDocs(left, c, Added(old, new))
  BY DEF Reattach
<1> HIDE DEF left
<1>4. /\ OwnManagers(r)
      /\ \A d \in Added(old, new) : Has(r, d)
      /\ \A e \in Connections, f \in Docs :
             Joined(r, e, f) => Joined(left, e, f) \/ (e = c /\ f \in Added(old, new))
  BY <1>1, <1>2, <1>3, JoinMembers
<1> QED BY <1>2, <1>4 DEF CanJoin

\* The states of the registry after each connection of the list.
After(s, list, old, new, n, f) ==
    f = [i \in 0 .. n |->
            IF i = 0 THEN s ELSE Reattach(f[i - 1], list[i], old, new)]

LEMMA AfterExists ==
    ASSUME NEW s, NEW list, NEW old, NEW new, NEW n \in Nat
    PROVE  \E f : After(s, list, old, new, n, f)
<1> DEFINE I == {i \in Nat : ~ \E f : After(s, list, old, new, i, f)}
<1>1. SUFFICES ASSUME I # {} PROVE FALSE
  OBVIOUS
<1>2. PICK k \in I : \A j \in I : k <= j
  <2>1. I \in SUBSET Nat
    OBVIOUS
  <2> HIDE DEF I
  <2> QED BY <1>1, <2>1, SmallestOf
<1>3. k \in Nat /\ ~ \E f : After(s, list, old, new, k, f)
  OBVIOUS
<1>4. k # 0
  <2>1. After(s, list, old, new, 0, [i \in 0 .. 0 |-> s])
    BY DEF After
  <2> QED BY <1>3, <2>1
<1>5. PICK f : After(s, list, old, new, k - 1, f)
  <2>1. k - 1 \in Nat /\ k - 1 \notin I
    BY <1>2, <1>3, <1>4
  <2> QED BY <2>1
<1> HIDE DEF I
<1> DEFINE next == Reattach(f[k - 1], list[k], old, new)
           g == [i \in 0 .. k |-> IF i = k THEN next ELSE f[i]]
<1>6. \A i \in 0 .. (k - 1) :
          f[i] = IF i = 0 THEN s ELSE Reattach(f[i - 1], list[i], old, new)
  BY <1>5 DEF After
<1>7. ASSUME NEW i \in 0 .. k
      PROVE  g[i] = IF i = 0 THEN s ELSE Reattach(g[i - 1], list[i], old, new)
  <2>1. \A j \in 0 .. k : g[j] = IF j = k THEN next ELSE f[j]
    OBVIOUS
  <2> HIDE DEF g
  <2>2. CASE i = 0
    <3>1. 0 \in 0 .. k /\ 0 \in 0 .. (k - 1) /\ 0 # k
      BY <1>3, <1>4
    <3>2. g[0] = f[0] /\ f[0] = s
      BY <1>6, <2>1, <3>1
    <3> QED BY <2>2, <3>2
  <2>3. CASE i # 0
    <3>1. i - 1 \in 0 .. k /\ i - 1 # k /\ g[i - 1] = f[i - 1]
      BY <1>3, <2>1, <2>3
    <3>2. CASE i = k
      BY <2>1, <2>3, <3>1, <3>2
    <3>3. CASE i # k
      <4>1. i \in 0 .. (k - 1) /\ g[i] = f[i]
        BY <1>3, <2>1, <3>3
      <4> QED BY <1>6, <2>3, <3>1, <4>1
    <3> QED BY <3>2, <3>3
  <2> QED BY <2>2, <2>3
<1>8. After(s, list, old, new, k, g)
  <2>1. g = [i \in 0 .. k |-> g[i]]
    OBVIOUS
  <2> HIDE DEF g
  <2> QED BY <1>7, <2>1 DEF After
<1> QED BY <1>3, <1>8

\* The whole update: whoever is a member was one and has lost nothing that the
\* update empties, or is of the list and the update adds the document.
LEMMA ReattachedMembers ==
    ASSUME NEW s, OwnManagers(s), NEW list \in Seq(Connections),
           NEW old \in Tokens, NEW new \in Tokens, CanJoin(s, Added(old, new)),
           NEW r, r = Reattached(s, list, old, new)
    PROVE  /\ OwnManagers(r)
           /\ \A e \in Connections, f \in Docs :
                  Joined(r, e, f) =>
                      \/ Joined(s, e, f)
                         /\ ~(e \in Lists!ToSet(list) /\ f \in Removed(old, new))
                      \/ e \in Lists!ToSet(list) /\ f \in Added(old, new)
<1>1. PICK a : r = a[Len(list)] /\ After(s, list, old, new, Len(list), a)
  <2> DEFINE a == CHOOSE f : After(s, list, old, new, Len(list), f)
  <2>0. Len(list) \in Nat
    OBVIOUS
  <2>1. After(s, list, old, new, Len(list), a)
    BY <2>0, AfterExists, Zenon
  <2>2. r = a[Len(list)]
    BY DEF Reattached, After
  <2> QED BY <2>1, <2>2
<1>2. \A i \in 0 .. Len(list) :
          a[i] = IF i = 0 THEN s ELSE Reattach(a[i - 1], list[i], old, new)
  BY <1>1 DEF After
<1> DEFINE Seen(n) == {list[i] : i \in 1 .. n}
           Good(n) == /\ OwnManagers(a[n]) /\ CanJoin(a[n], Added(old, new))
                      /\ \A e \in Connections, f \in Docs :
                             Joined(a[n], e, f) =>
                                 \/ Joined(s, e, f)
                                    /\ ~(e \in Seen(n) /\ f \in Removed(old, new))
                                 \/ e \in Seen(n) /\ f \in Added(old, new)
           I == {n \in 0 .. Len(list) : ~Good(n)}
<1>3. SUFFICES ASSUME I # {} PROVE FALSE
  <2>1. Good(Len(list))
    OBVIOUS
  <2>2. Seen(Len(list)) = Lists!ToSet(list)
    BY DEF Lists!ToSet
  <2> HIDE DEF Seen
  <2> QED BY <1>1, <2>1, <2>2
<1>4. PICK n \in I : \A j \in I : n <= j
  <2>1. I \in SUBSET Nat
    OBVIOUS
  <2> HIDE DEF I
  <2> QED BY <1>3, <2>1, SmallestOf
<1>5. n \in 0 .. Len(list) /\ ~Good(n)
  OBVIOUS
<1>6. n # 0
  <2>0. 0 \in 0 .. Len(list) /\ \A i : i \notin 1 .. 0
    OBVIOUS
  <2>1. a[0] = s
    BY <1>2, <2>0
  <2>2. \A e : e \notin Seen(0)
    BY <2>0
  <2>3. Good(0)
    BY <2>1, <2>2
  <2> QED BY <1>5, <2>3
<1>7. Good(n - 1) /\ n - 1 \in 0 .. Len(list) /\ n \in 1 .. Len(list)
  BY <1>4, <1>5, <1>6
<1> HIDE DEF I
<1>8. list[n] \in Connections /\ a[n] = Reattach(a[n - 1], list[n], old, new)
  BY <1>2, <1>5, <1>7
<1>9. \A e : e \in Seen(n) <=> e \in Seen(n - 1) \/ e = list[n]
  <2>1. \A i : i \in 1 .. n <=> i \in 1 .. (n - 1) \/ i = n
    BY <1>7
  <2> QED BY <2>1
<1> HIDE DEF Seen
<1>10. /\ OwnManagers(a[n]) /\ CanJoin(a[n], Added(old, new))
       /\ \A e \in Connections, f \in Docs :
              Joined(a[n], e, f) =>
                  \/ Joined(a[n - 1], e, f) /\ ~(e = list[n] /\ f \in Removed(old, new))
                  \/ e = list[n] /\ f \in Added(old, new)
  BY <1>7, <1>8, ReattachMembers
<1> QED BY <1>5, <1>7, <1>9, <1>10

-----------------------------------------------------------------------------
(***************************************************************************)
(* Memberships, whatever is switched or updated: who may become a member   *)
(* of what.  On it rest the registry's types, and what the members of a    *)
(* document may read while tokens are updated.                             *)
(***************************************************************************)
\* The steps that change the registry; all others leave it alone.
LEMMA RegistrySteps ==
    ASSUME ConnTypes, [Next]_vars
    PROVE  \/ \E c \in Connections : \E call \in calls[c] : ApplyToken(c, call)
           \/ \E c \in Connections, d \in Docs : JoinListed(c, d) \/ JoinAnswered(c, d)
           \/ \E c \in Connections : HandleDisconnect(c)
           \/ \E u \in inbox : OnUpdateTokenMessage(u[1], u[2])
           \/ CheckTokenExpiration
           \/ /\ reg' = reg
              /\ \A c \in Connections : /\ phase'[c] = "closed" => phase[c] = "closed"
                                        /\ tokenOf'[c] = tokenOf[c] \/ phase[c] = "new"
<1> USE DEF ConnTypes
<1>1. ASSUME NEW c \in Connections, ConnectAnonymous(c)
      PROVE  /\ reg' = reg
             /\ \A e \in Connections : /\ phase'[e] = "closed" => phase[e] = "closed"
                                       /\ tokenOf'[e] = tokenOf[e] \/ phase[e] = "new"
  BY <1>1 DEF ConnectAnonymous, serviceVars
<1>2. ASSUME NEW c \in Connections, NEW t \in ConnectTokens, Connect(c, t)
      PROVE  /\ UNCHANGED <<reg, tokenOf>>
             /\ \A e \in Connections : phase'[e] = "closed" => phase[e] = "closed"
  BY <1>2 DEF Connect, serviceVars
<1>3. ASSUME NEW c \in Connections,
             \/ \E t \in SwitchTokens : SetToken(c, t)
             \/ \E d \in Docs : JoinUnlisted(c, d)
             \/ \E kind \in {"connect", "setToken"}, t \in Tokens :
                    CheckClientToken(c, kind, t)
      PROVE  UNCHANGED <<reg, phase, tokenOf>>
  BY <1>3 DEF SetToken, JoinUnlisted, CheckClientToken, serviceVars
<1>4. CASE \/ \E u \in TokenUpdates : UpdateToken(u[1], u[2])
           \/ \E t \in Tokens : TokenExpires(t)
  BY <1>4 DEF UpdateToken, TokenExpires, serviceVars, connVars
<1>5. CASE UNCHANGED vars
  BY <1>5 DEF vars, serviceVars, connVars
<1> HIDE DEF ConnTypes
<1> QED BY <1>1, <1>2, <1>3, <1>4, <1>5, Zenon DEF Next

LEMMA ToCloseType == ConnTypes => ToClose \subseteq Connections
BY ToSetType DEF ConnTypes, ToClose, Expirable, InList

LEMMA JoinStepMembers ==
    ASSUME OwnManagers(reg), NEW c \in Connections, NEW d \in Docs,
           JoinListed(c, d) \/ JoinAnswered(c, d)
    PROVE  /\ OwnManagers(reg')
           /\ UNCHANGED <<phase, tokenOf>>
           /\ \A e \in Connections, f \in Docs :
                  Joined(reg', e, f) =>
                      \/ Joined(reg, e, f)
                      \/ e = c /\ f = d
                         /\ \/ d \in PublicDocs
                            \/ /\ phase[c] \in {"open", "closing"}
                               /\ tokenOf[c] \in Tokens /\ MayRead(tokenOf[c], d)
<1>0. ASSUME CanJoin(reg, {d}), reg' = JoinDocs(reg, c, {d})
      PROVE  /\ OwnManagers(reg')
             /\ \A e \in Connections, f \in Docs :
                    Joined(reg', e, f) => Joined(reg, e, f) \/ (e = c /\ f = d)
  <2>1. {d} \in SUBSET Docs /\ \A f : f \in {d} <=> f = d
    OBVIOUS
  <2> QED BY <1>0, <2>1, JoinMembers
<1>1. CASE JoinListed(c, d)
  <2>1. /\ CanJoin(reg, {d}) /\ reg' = JoinDocs(reg, c, {d})
        /\ UNCHANGED <<phase, tokenOf>>
        /\ phase[c] \in {"open", "closing"}
        /\ tokenOf[c] \in Tokens /\ MayRead(tokenOf[c], d)
    BY <1>1 DEF JoinListed, connVars, Receives
  <2> QED BY <1>0, <2>1
<1>2. CASE JoinAnswered(c, d) /\ d \in PublicDocs
  <2>1. /\ UNCHANGED <<phase, tokenOf>>
        /\ reg' = reg \/ (CanJoin(reg, {d}) /\ reg' = JoinDocs(reg, c, {d}))
    BY <1>2 DEF JoinAnswered
  <2>2. CASE reg' = reg
    BY <2>1, <2>2 DEF OwnManagers
  <2> QED BY <1>0, <1>2, <2>1, <2>2
<1>3. CASE JoinAnswered(c, d) /\ d \notin PublicDocs
  BY <1>3 DEF JoinAnswered
<1> QED BY <1>1, <1>2, <1>3

LEMMA ApplyTokenMembers ==
    ASSUME ConnTypes, OwnManagers(reg), NEW c \in Connections, NEW call \in calls[c],
           ApplyToken(c, call)
    PROVE  /\ OwnManagers(reg')
           /\ \A e \in Connections \ {c} : tokenOf'[e] = tokenOf[e]
           /\ \A e \in Connections, f \in Docs : Joined(reg', e, f) => Joined(reg, e, f)
<1>1. CASE UNCHANGED <<tokenOf, lists, reg>>
  BY <1>1
<1>2. CASE /\ tokenOf' = [tokenOf EXCEPT ![c] = call.token]
           /\ reg' = MembershipAfter(call, c)
  <2>1. \A e \in Connections \ {c} : tokenOf'[e] = tokenOf[e]
    BY <1>2 DEF ConnTypes
  <2>2. reg' = Disconnect(reg, c) \/ reg' = reg
    BY <1>2 DEF MembershipAfter
  <2> QED BY <2>1, <2>2, DisconnectMembers
<1> QED BY <1>1, <1>2, ApplyTokenEffect

LEMMA LeaveStepMembers ==
    ASSUME ConnTypes, OwnManagers(reg),
           (\E c \in Connections : HandleDisconnect(c)) \/ CheckTokenExpiration
    PROVE  /\ OwnManagers(reg') /\ tokenOf' = tokenOf
           /\ \A e \in Connections, f \in Docs : Joined(reg', e, f) => Joined(reg, e, f)
<1>1. ASSUME NEW c \in Connections, HandleDisconnect(c)
      PROVE  reg' = Disconnect(reg, c) /\ tokenOf' = tokenOf
  BY <1>1 DEF HandleDisconnect
<1>2. CASE CheckTokenExpiration
  <2>1. reg' = DisconnectAll(reg, ToClose) /\ tokenOf' = tokenOf
    BY <1>2 DEF CheckTokenExpiration
  <2> QED BY <2>1, ToCloseType, DisconnectAllMembers
<1> QED BY <1>1, <1>2, DisconnectMembers

\* The difference is the one between the first connection's token and the new
\* one; who is in the list gains or loses by it, the others neither.
LEMMA UpdateMembers ==
    ASSUME ConnInv, OwnManagers(reg), NEW u \in inbox,
           OnUpdateTokenMessage(u[1], u[2])
    PROVE  /\ OwnManagers(reg')
           /\ \/ UNCHANGED <<tokenOf, reg>>
              \/ \E first \in InList(lists, u[1]) :
                    \A e \in Connections, f \in Docs :
                        Joined(reg', e, f) =>
                            \/ /\ Joined(reg, e, f)
                               /\ ~ /\ e \in InList(lists, u[1])
                                    /\ f \in Removed(tokenOf[first], u[2])
                            \/ /\ e \in InList(lists, u[1])
                               /\ f \in Added(tokenOf[first], u[2])
<1>1. u[1] \in Tokens /\ u[2] \in Tokens
  BY UpdateEffect DEF ConnInv
<1>2. CASE lists[u[1]] = <<>>
  BY <1>2 DEF OnUpdateTokenMessage
<1>3. CASE lists[u[1]] # <<>>
  <2> DEFINE first == Head(lists[u[1]])
             held == tokenOf[first]
  <2>1. /\ CanJoin(reg, Added(held, u[2]))
        /\ reg' = Reattached(reg, lists[u[1]], held, u[2])
    BY <1>3 DEF OnUpdateTokenMessage
  <2>2. lists[u[1]] \in Seq(Connections)
    BY <1>1 DEF ConnInv, ConnTypes
  <2>3. first \in InList(lists, u[1])
    BY <1>3, <2>2, HeadInList DEF InList
  <2>4. held \in Tokens
    BY <1>1, <2>3 DEF ConnInv, ListedHaveTokens
  <2> HIDE DEF first
  <2>5. /\ OwnManagers(reg')
        /\ \A e \in Connections, f \in Docs :
               Joined(reg', e, f) =>
                   \/ Joined(reg, e, f)
                      /\ ~(e \in Lists!ToSet(lists[u[1]]) /\ f \in Removed(held, u[2]))
                   \/ e \in Lists!ToSet(lists[u[1]]) /\ f \in Added(held, u[2])
    BY <1>1, <2>1, <2>2, <2>4, ReattachedMembers
  <2> QED BY <2>3, <2>5 DEF InList
<1> QED BY <1>2, <1>3

TypesInv == ConnInv /\ OwnManagers(reg)

LEMMA EmptyRegistry == OwnManagers(EmptyState) /\ \A c \in Connections, d \in Docs :
                                                      ~Joined(EmptyState, c, d)
BY NoManagerAssumption DEF OwnManagers, EmptyState, State, Has, Joined

LEMMA TypesInit == Init => TypesInv
BY ConnInit, EmptyRegistry DEF Init, TypesInv

LEMMA TypesStep ==
    ASSUME TypesInv, [Next]_vars
    PROVE  TypesInv'
<1> USE DEF TypesInv
<1>1. ConnInv'
  BY ConnStep
<1> SUFFICES OwnManagers(reg')
  BY <1>1
<1>2. ConnTypes /\ OwnManagers(reg)
  BY DEF ConnInv
<1>3. ASSUME NEW c \in Connections, NEW call \in calls[c], ApplyToken(c, call)
      PROVE  OwnManagers(reg')
  BY <1>2, <1>3, ApplyTokenMembers
<1>4. ASSUME NEW c \in Connections, NEW d \in Docs, JoinListed(c, d) \/ JoinAnswered(c, d)
      PROVE  OwnManagers(reg')
  BY <1>2, <1>4, JoinStepMembers
<1>5. CASE (\E c \in Connections : HandleDisconnect(c)) \/ CheckTokenExpiration
  BY <1>2, <1>5, LeaveStepMembers
<1>6. ASSUME NEW u \in inbox, OnUpdateTokenMessage(u[1], u[2])
      PROVE  OwnManagers(reg')
  BY <1>6, UpdateMembers
<1> QED BY <1>2, <1>3, <1>4, <1>5, <1>6, RegistrySteps

\* The connections, the services' maps and what is under way have their types,
\* for every number of connections and documents, whatever is switched or
\* updated: the loop of onUpdateTokenMessage reads the token of a connection
\* that has one, and leaves every document with a manager of its own.
THEOREM TypeCorrect == Spec => []TypeOK
<1>1. TypesInv => TypeOK
  BY DEF TypesInv, ConnInv, ConnTypes, OwnManagers, TypeOK
<1>2. TypesInv /\ [Next]_vars => TypesInv'
  BY TypesStep
<1> QED BY <1>1, <1>2, TypesInit, PTL DEF Spec

\* Updates after which getTokenRightsDiff leaves nobody where it may not read:
\* what the old token reads, the new one lists, and with "read" unless without
\* rights at all; and what the update adds may be read.  An entry that is
\* dropped, or that only "write" is left of, is not detached.
OrderlyUpdates ==
    \A u \in TokenUpdates :
        /\ \A d \in Docs :
               MayRead(u[1], d) =>
                   /\ d \in Listed[u[2]]
                   /\ Rights[u[2]][d] # {} => "read" \in Rights[u[2]][d]
        /\ \A d \in Added(u[1], u[2]) : "read" \in Rights[u[2]][d]

UpdatedInv == ListsInv /\ OwnManagers(reg) /\ MembersMayRead

LEMMA UpdatedInit == Init => UpdatedInv
<1>1. Init => OwnManagers(reg) /\ MembersMayRead
  BY EmptyRegistry DEF Init, MembersMayRead
<1> QED BY <1>1, ListsInit DEF UpdatedInv

LEMMA UpdatedTypes == UpdatedInv => TypesInv
BY HeldTokensAreTokens DEF UpdatedInv, ListsInv, TypesInv, ConnInv

LEMMA UpdatedStep ==
    ASSUME SwitchTokens = {}, OrderlyUpdates, UpdatedInv, [Next]_vars
    PROVE  UpdatedInv'
<1> USE DEF UpdatedInv
<1>1. ListsInv' /\ OwnManagers(reg)'
  BY ListsStep, UpdatedTypes, TypesStep DEF TypesInv
<1> SUFFICES MembersMayRead'
  BY <1>1
<1>2. ConnTypes /\ Fresh /\ ConnectAlone /\ ListsHoldTheirToken
  BY DEF ListsInv
<1>3. ASSUME NEW c \in Connections, NEW call \in calls[c], ApplyToken(c, call)
      PROVE  MembersMayRead'
  <2>1. tokenOf[c] = NoAccess
    BY <1>2, <1>3, ApplyTokenEffect DEF ConnectAlone
  <2>2. /\ \A e \in Connections \ {c} : tokenOf'[e] = tokenOf[e]
        /\ \A e \in Connections, f \in Docs : Joined(reg', e, f) => Joined(reg, e, f)
    BY <1>2, <1>3, ApplyTokenMembers
  <2> QED BY <2>1, <2>2, ProxyAssumption DEF MembersMayRead
<1>4. ASSUME NEW c \in Connections, NEW d \in Docs, JoinListed(c, d) \/ JoinAnswered(c, d)
      PROVE  MembersMayRead'
  BY <1>4, JoinStepMembers DEF MembersMayRead
<1>5. CASE (\E c \in Connections : HandleDisconnect(c)) \/ CheckTokenExpiration
  BY <1>2, <1>5, LeaveStepMembers DEF MembersMayRead
<1>6. ASSUME NEW u \in inbox, OnUpdateTokenMessage(u[1], u[2])
      PROVE  MembersMayRead'
  <2> DEFINE old == u[1]
             new == u[2]
  <2>1. /\ old \in Tokens /\ new \in Tokens
        /\ \A e \in Connections :
               tokenOf'[e] = IF e \in InList(lists, old) THEN new ELSE tokenOf[e]
    BY <1>2, <1>6, UpdateEffect
  <2>2. u \in TokenUpdates
    BY <1>2 DEF ConnTypes
  <2>3. \A e \in InList(lists, old) : tokenOf[e] = old
    BY <1>2, <2>1 DEF ListsHoldTheirToken
  <2>4. CASE UNCHANGED <<tokenOf, reg>>
    BY <2>4 DEF MembersMayRead
  <2>5. ASSUME NEW first \in InList(lists, old),
               \A e \in Connections, f \in Docs :
                   Joined(reg', e, f) =>
                       \/ /\ Joined(reg, e, f)
                          /\ ~(e \in InList(lists, old) /\ f \in Removed(tokenOf[first], new))
                       \/ e \in InList(lists, old) /\ f \in Added(tokenOf[first], new)
        PROVE  MembersMayRead'
    <3>1. tokenOf[first] = old
      BY <2>3
    <3>2. ASSUME NEW e \in Connections, NEW f \in Docs, Joined(reg', e, f)
          PROVE  f \in PublicDocs \/ (tokenOf'[e] \in Tokens /\ MayRead(tokenOf'[e], f))
      <4>1. CASE e \notin InList(lists, old)
        BY <2>1, <2>5, <3>2, <4>1 DEF MembersMayRead
      <4>2. CASE e \in InList(lists, old) /\ f \in Added(old, new)
        BY <2>1, <2>2, <4>2 DEF OrderlyUpdates, Added, MayRead
      <4>3. CASE e \in InList(lists, old) /\ Joined(reg, e, f) /\ f \notin Removed(old, new)
        <5>1. f \in PublicDocs \/ MayRead(old, f)
          BY <2>3, <4>3 DEF MembersMayRead
        <5>2. MayRead(old, f) => MayRead(new, f)
          BY <2>2, <4>3 DEF OrderlyUpdates, Removed, MayRead
        <5> QED BY <2>1, <4>3, <5>1, <5>2
      <4> QED BY <2>5, <3>1, <3>2, <4>1, <4>2, <4>3
    <3> QED BY <3>2 DEF MembersMayRead
  <2>6. \/ UNCHANGED <<tokenOf, reg>>
        \/ \E first \in InList(lists, old) :
               \A e \in Connections, f \in Docs :
                   Joined(reg', e, f) =>
                       \/ /\ Joined(reg, e, f)
                          /\ ~(e \in InList(lists, old) /\ f \in Removed(tokenOf[first], new))
                       \/ e \in InList(lists, old) /\ f \in Added(tokenOf[first], new)
    BY <1>6, UpdateMembers, UpdatedTypes DEF TypesInv
  <2> QED BY <2>4, <2>5, <2>6
<1>7. CASE /\ reg' = reg
           /\ \A c \in Connections : tokenOf'[c] = tokenOf[c] \/ phase[c] = "new"
  BY <1>2, <1>7, ProxyAssumption DEF MembersMayRead, Fresh
<1> QED BY <1>2, <1>3, <1>4, <1>5, <1>6, <1>7, RegistrySteps

\* Without setToken, whoever is sent a document's changes may read the document
\* by the token it holds now, through any number of orderly updates, of lists of
\* any length: the difference of the first connection's rights is the right one
\* for all of them.  Of the other updates this does not hold.
THEOREM MembersMayReadUpdated ==
    ASSUME SwitchTokens = {}, OrderlyUpdates
    PROVE  Spec => []MembersMayRead
<1>1. UpdatedInv => MembersMayRead
  BY DEF UpdatedInv
<1>2. UpdatedInv /\ [Next]_vars => UpdatedInv'
  BY UpdatedStep
<1> QED BY <1>1, <1>2, UpdatedInit, PTL DEF Spec

-----------------------------------------------------------------------------
(***************************************************************************)
(* Memberships, where no token is updated: nothing is detached, so the     *)
(* index names every manager a connection is in, and a disconnect leaves   *)
(* it in none.                                                             *)
(***************************************************************************)
Indexing(s) ==
    /\ OwnManagers(s)
    /\ \A c \in Connections, m \in Managers :
           c \in s.connections[m] => m \in s.connectionsToDocs[c]

LEMMA JoinIndexing ==
    ASSUME NEW s, Indexing(s), NEW c \in Connections, NEW d \in Docs, CanJoin(s, {d}),
           NEW r, r = JoinDocs(s, c, {d})
    PROVE  Indexing(r)
<1> DEFINE m == ManagerFor(s, d)
<1>0. /\ s.docs \in [Docs -> Managers \cup {NoManager}]
      /\ s.connections \in [Managers -> SUBSET Connections]
      /\ s.connectionsToDocs \in [Connections -> SUBSET Managers]
      /\ OwnManagers(s)
  BY DEF Indexing, OwnManagers, State
<1>1. OwnManagers(r)
  BY <1>0, JoinMembers
<1>2. DocOf(m) = d /\ (Has(s, d) => m = s.docs[d])
  <2>1. CASE Has(s, d)
    BY <1>0, <2>1 DEF OwnManagers, ManagerFor
  <2>2. CASE ~Has(s, d)
    <3>1. ManagerFor(s, d) \in FreeManagers(s, d)
      BY <2>2 DEF ManagerFor, CanJoin
    <3> QED BY <2>2, <3>1 DEF FreeManagers
  <2> QED BY <2>1, <2>2
<1>3. {ManagerFor(s, e) : e \in {d}} = {m}
  OBVIOUS
<1>4. /\ r.connections = [n \in Managers |-> IF n = m THEN Members(s, d) \cup {c}
                                                      ELSE s.connections[n]]
      /\ r.connectionsToDocs = [s.connectionsToDocs EXCEPT ![c] = @ \cup {m}]
  BY <1>2, <1>3 DEF JoinDocs, Indexed
<1> HIDE DEF m
<1>5. ASSUME NEW e \in Connections, NEW n \in Managers, e \in r.connections[n]
      PROVE  n \in r.connectionsToDocs[e]
  <2>1. s.connectionsToDocs[e] \subseteq r.connectionsToDocs[e]
        /\ m \in r.connectionsToDocs[c]
    BY <1>0, <1>4
  <2>2. e \in s.connections[n] \/ (e = c /\ n = m)
    BY <1>2, <1>4, <1>5 DEF Members, Has
  <2> QED BY <2>1, <2>2 DEF Indexing
<1> QED BY <1>1, <1>5 DEF Indexing

LEMMA DisconnectIndexing ==
    ASSUME NEW s, Indexing(s), NEW c \in Connections, NEW r, r = Disconnect(s, c)
    PROVE  /\ Indexing(r)
           /\ \A e \in Connections, f \in Docs :
                  Joined(r, e, f) => Joined(s, e, f) /\ e # c
<1>1. /\ OwnManagers(r)
      /\ \A e \in Connections, f \in Docs : Joined(r, e, f) => Joined(s, e, f)
  BY DisconnectMembers DEF Indexing
<1>2. /\ r.docs \in [Docs -> Managers \cup {NoManager}]
      /\ \A n \in Managers : r.connections[n] = s.connections[n] \ {c}
      /\ \A e \in Connections \ {c} : r.connectionsToDocs[e] = s.connectionsToDocs[e]
  BY <1>1 DEF Disconnect, Left, Indexing, OwnManagers, State
<1>3. Indexing(r)
  BY <1>1, <1>2 DEF Indexing
<1>4. \A f \in Docs : ~Joined(r, c, f)
  BY <1>2 DEF Joined, Has, Contains
<1> QED BY <1>1, <1>3, <1>4

LEMMA DisconnectAllIndexing ==
    ASSUME NEW s, Indexing(s), NEW C \in SUBSET Connections,
           NEW r, r = DisconnectAll(s, C)
    PROVE  Indexing(r)
<1> DEFINE leaving(m) == {c \in C : m \in s.connectionsToDocs[c]}
           left == [m \in Managers |-> s.connections[m] \ leaving(m)]
           index == [c \in Connections |->
                        IF c \in C THEN {} ELSE s.connectionsToDocs[c]]
<1>1. OwnManagers(r)
  BY DisconnectAllMembers DEF Indexing
<1>2. \A n \in Managers : left[n] = s.connections[n] \ C
  BY DEF Indexing, OwnManagers, State
<1>3. \A e \in Connections \ C : index[e] = s.connectionsToDocs[e]
  OBVIOUS
<1>4. r.connections = left /\ r.connectionsToDocs = index
  BY DEF DisconnectAll
<1> HIDE DEF left, index
<1> QED BY <1>1, <1>2, <1>3, <1>4 DEF Indexing

\* What each step that changes the registry does to it, where no token is
\* updated.
LEMMA JoinStepIndexing ==
    ASSUME Indexing(reg), NEW c \in Connections, NEW d \in Docs,
           JoinListed(c, d) \/ JoinAnswered(c, d)
    PROVE  Indexing(reg')
<1>1. reg' = reg \/ (CanJoin(reg, {d}) /\ reg' = JoinDocs(reg, c, {d}))
  BY DEF JoinListed, JoinAnswered
<1> QED BY <1>1, JoinIndexing

LEMMA ApplyTokenRegistry ==
    ASSUME ConnTypes, Indexing(reg), NEW c \in Connections, NEW call \in calls[c],
           ApplyToken(c, call)
    PROVE  /\ Indexing(reg')
           /\ phase' = phase
           /\ \A e \in Connections \ {c} : tokenOf'[e] = tokenOf[e]
           /\ \A e \in Connections, f \in Docs :
                  Joined(reg', e, f) =>
                      /\ Joined(reg, e, f)
                      /\ e = c => tokenOf'[c] = tokenOf[c] \/ call.kind = "connect"
<1>1. call.kind \in {"connect", "setToken"} /\ phase' = phase
  BY ApplyTokenEffect
<1>2. CASE UNCHANGED <<tokenOf, lists, reg>>
  BY <1>1, <1>2
<1>3. CASE /\ tokenOf' = [tokenOf EXCEPT ![c] = call.token]
           /\ reg' = MembershipAfter(call, c)
  <2>1. \A e \in Connections \ {c} : tokenOf'[e] = tokenOf[e]
    BY <1>3 DEF ConnTypes
  <2>2. CASE call.kind = "setToken"
    <3>1. reg' = Disconnect(reg, c)
      BY <1>3, <2>2 DEF MembershipAfter
    <3> QED BY <1>1, <2>1, <3>1, DisconnectIndexing
  <2>3. CASE call.kind = "connect"
    <3>1. reg' = reg
      BY <1>3, <2>3 DEF MembershipAfter
    <3> QED BY <1>1, <2>1, <2>3, <3>1
  <2> QED BY <1>1, <2>2, <2>3
<1> QED BY <1>2, <1>3, ApplyTokenEffect

LEMMA LeaveStepIndexing ==
    ASSUME ConnTypes, Indexing(reg),
           (\E c \in Connections : HandleDisconnect(c)) \/ CheckTokenExpiration
    PROVE  /\ Indexing(reg')
           /\ \A e \in Connections, f \in Docs :
                  Joined(reg', e, f) =>
                      /\ Joined(reg, e, f)
                      /\ phase'[e] = "closed" => phase[e] = "closed"
<1>1. ASSUME NEW c \in Connections, HandleDisconnect(c)
      PROVE  /\ Indexing(reg')
             /\ \A e \in Connections, f \in Docs :
                    Joined(reg', e, f) =>
                        /\ Joined(reg, e, f)
                        /\ phase'[e] = "closed" => phase[e] = "closed"
  <2>1. /\ reg' = Disconnect(reg, c)
        /\ \A e \in Connections \ {c} : phase'[e] = phase[e]
    BY <1>1 DEF HandleDisconnect, ConnTypes
  <2> QED BY <2>1, DisconnectIndexing
<1>2. CASE CheckTokenExpiration
  <2>1. /\ reg' = DisconnectAll(reg, ToClose)
        /\ \A e \in Connections : phase'[e] = "closed" => phase[e] = "closed"
    BY <1>2 DEF CheckTokenExpiration
  <2>2. \A e \in Connections, f \in Docs : Joined(reg', e, f) => Joined(reg, e, f)
    BY <1>2, LeaveStepMembers DEF Indexing
  <2> QED BY <2>1, <2>2, ToCloseType, DisconnectAllIndexing
<1> QED BY <1>1, <1>2

RegistryInv ==
    /\ ConnInv
    /\ Indexing(reg)
    /\ ClosedNotMember

LEMMA RegistryInit == Init => RegistryInv
<1>1. Init => Indexing(reg) /\ ClosedNotMember
  BY EmptyRegistry DEF Init, Indexing, EmptyState, ClosedNotMember
<1> QED BY <1>1, ConnInit DEF RegistryInv

LEMMA RegistryStep ==
    ASSUME TokenUpdates = {}, RegistryInv, [Next]_vars
    PROVE  RegistryInv'
<1> USE DEF RegistryInv
<1>1. ConnInv'
  BY ConnStep
<1> SUFFICES Indexing(reg)' /\ ClosedNotMember'
  BY <1>1
<1>2. ConnTypes /\ Fresh /\ OwnManagers(reg)
  BY DEF ConnInv, Indexing
<1>3. ASSUME NEW c \in Connections, NEW call \in calls[c], ApplyToken(c, call)
      PROVE  Indexing(reg)' /\ ClosedNotMember'
  BY <1>2, <1>3, ApplyTokenRegistry DEF ClosedNotMember
<1>4. ASSUME NEW c \in Connections, NEW d \in Docs, JoinListed(c, d) \/ JoinAnswered(c, d)
      PROVE  Indexing(reg)' /\ ClosedNotMember'
  BY <1>2, <1>4, JoinStepIndexing, JoinStepMembers DEF ClosedNotMember
<1>5. CASE (\E c \in Connections : HandleDisconnect(c)) \/ CheckTokenExpiration
  BY <1>2, <1>5, LeaveStepIndexing DEF ClosedNotMember
<1>6. ASSUME NEW u \in inbox PROVE FALSE
  BY <1>2 DEF ConnTypes
<1>7. CASE /\ reg' = reg
           /\ \A c \in Connections : phase'[c] = "closed" => phase[c] = "closed"
  BY <1>7 DEF ClosedNotMember
<1> QED BY <1>2, <1>3, <1>4, <1>5, <1>6, <1>7, RegistrySteps

\* As long as no token is updated, a connection that is closed is a member of
\* public documents at most, whatever was awaited when it closed.
THEOREM ClosedNotMemberHolds ==
    ASSUME TokenUpdates = {}
    PROVE  Spec => []ClosedNotMember
<1>1. RegistryInv => ClosedNotMember
  BY DEF RegistryInv
<1>2. RegistryInv /\ [Next]_vars => RegistryInv'
  BY RegistryStep
<1> QED BY <1>1, <1>2, RegistryInit, PTL DEF Spec

MembersInv == RegistryInv /\ ConnectAlone /\ MembersMayRead

LEMMA MembersInit == Init => MembersInv
<1>1. Init => ConnectAlone
  BY DEF Init, ConnectAlone
<1>2. Init => MembersMayRead
  BY EmptyRegistry DEF Init, MembersMayRead
<1> QED BY <1>1, <1>2, RegistryInit DEF MembersInv

LEMMA MembersStep ==
    ASSUME TokenUpdates = {}, ~SwitchesEarly, MembersInv, [Next]_vars
    PROVE  MembersInv'
<1> USE DEF MembersInv
<1>1. RegistryInv'
  BY RegistryStep
<1>2. ConnTypes /\ Fresh /\ ListedHaveTokens /\ Indexing(reg) /\ OwnManagers(reg)
  BY DEF RegistryInv, ConnInv, Indexing
<1>3. ConnectAlone'
  BY <1>2, ConnectAloneStep
<1> SUFFICES MembersMayRead'
  BY <1>1, <1>3
<1>4. ASSUME NEW c \in Connections, NEW call \in calls[c], ApplyToken(c, call)
      PROVE  MembersMayRead'
  <2>1. /\ \A e \in Connections \ {c} : tokenOf'[e] = tokenOf[e]
        /\ \A e \in Connections, f \in Docs :
               Joined(reg', e, f) =>
                   /\ Joined(reg, e, f)
                   /\ e = c => tokenOf'[c] = tokenOf[c] \/ call.kind = "connect"
    BY <1>2, <1>4, ApplyTokenRegistry
  <2>2. call.kind = "connect" => tokenOf[c] = NoAccess
    BY DEF ConnectAlone
  <2> QED BY <2>1, <2>2, ProxyAssumption DEF MembersMayRead
<1>5. ASSUME NEW c \in Connections, NEW d \in Docs, JoinListed(c, d) \/ JoinAnswered(c, d)
      PROVE  MembersMayRead'
  BY <1>2, <1>5, JoinStepMembers DEF MembersMayRead
<1>6. CASE (\E c \in Connections : HandleDisconnect(c)) \/ CheckTokenExpiration
  BY <1>2, <1>6, LeaveStepMembers DEF MembersMayRead
<1>7. ASSUME NEW u \in inbox PROVE FALSE
  BY <1>2 DEF ConnTypes
<1>8. CASE /\ reg' = reg
           /\ \A c \in Connections : tokenOf'[c] = tokenOf[c] \/ phase[c] = "new"
  BY <1>2, <1>8, ProxyAssumption DEF MembersMayRead, Fresh
<1> QED BY <1>2, <1>4, <1>5, <1>6, <1>7, <1>8, RegistrySteps

\* As long as no token is updated and nobody sends setToken before its connect-
\* Response, whoever is sent a document's changes may read the document: joins
\* check it at one time, setToken changes it at another, answers of the API come
\* in any order in between.
THEOREM MembersMayReadHolds ==
    ASSUME TokenUpdates = {}, ~SwitchesEarly
    PROVE  Spec => []MembersMayRead
<1>1. MembersInv => MembersMayRead
  BY DEF MembersInv
<1>2. MembersInv /\ [Next]_vars => MembersInv'
  BY MembersStep
<1> QED BY <1>1, <1>2, MembersInit, PTL DEF Spec

=============================================================================
