---------------------------- MODULE Negotiation_proofs -------------------------
(***************************************************************************)
(* What negotiation guarantees for the kinds of ports that the containers  *)
(* create, in one step or over descriptors.                                *)
(***************************************************************************)
EXTENDS Negotiation, Roles_proofs

\* What is known in each phase.
Inv ==
  /\ phase \in Phase \ {"refused"}
  /\ kinds \in IF phase = "direct" THEN Direct ELSE Direct \cup Handshake
  /\ phase \in {"unconnected", "offered", "answered"} => kinds \in Handshake
  /\ user.options = Options(kinds[1]) /\ provider.options = Options(kinds[2])
  /\ user \in Descriptor /\ provider \in Descriptor
  /\ wish.user \in Wishes(kinds[1]) /\ wish.provider \in Wishes(kinds[2])
  /\ phase = "direct" =>
       wish.provider \in DirectProviderPreferences \cup {"NoRole"}
  /\ phase \in {"direct", "unconnected", "offered"} => user = NewPort(kinds[1])
  /\ phase \in {"direct", "unconnected"} => provider = NewPort(kinds[2])
  /\ phase = "offered" => info = provider
  /\ phase \in {"offered", "answered"} =>
       provider = IF kinds[2] = "rcc" THEN Settle(NewPort("rcc"), "ActiveFlowControl")
                                      ELSE Prefer(NewPort("rpl"), wish.provider)
  /\ phase = "answered" =>
       /\ user.role \in {"ActiveMessage", "ActiveFlowControl"}
       /\ kinds[2] = "rcc" => user.role = "ActiveMessage"
       /\ info \in Descriptor /\ info.role = user.role
       /\ info.mandated \/ user.role = "ActiveMessage"
  /\ RolesFit /\ RolesSupported

\* At first the ports are as their constructors leave them.
LEMMA InvInit == Init => Inv
BY DEF Init, Inv, Phase, Direct, Handshake, NewPort, InitialRole, Options, Wishes,
       Descriptor, Role, RealRole, RolesFit, RolesSupported

\* With the ports at hand, and no flow control asked of the provider, the roles fit.
LEMMA DirectStep ==
  ASSUME "ActiveFlowControl" \notin DirectProviderPreferences, Inv, ConnectDirect
  PROVE  Inv'
<1> DEFINE u == Prefer(user, wish.user)
           p == Prefer(provider, wish.provider)
           c == ChooseRoles(u, p)
<1>1. /\ phase = "direct" /\ kinds \in Direct
      /\ user = NewPort(kinds[1]) /\ provider = NewPort(kinds[2])
      /\ kinds[1] # "rcc" /\ kinds[2] # "rcc"
  BY DEF ConnectDirect, Inv, Direct
<1>2. /\ u = [role |-> wish.user, options |-> Options(kinds[1]), mandated |-> FALSE]
      /\ p = [role |-> wish.provider, options |-> Options(kinds[2]), mandated |-> FALSE]
      /\ u \in Descriptor /\ p \in Descriptor
  <2>1. kinds[1] \in Kind /\ kinds[2] \in Kind
    BY <1>1 DEF Direct, Kind
  <2>2. wish.user \in Wishes(kinds[1]) /\ wish.provider \in Wishes(kinds[2])
    BY DEF Inv
  <2>3. QED
    BY <1>1, <2>1, <2>2, WishedPort
<1> HIDE DEF u, p
<1>3. Proper(u) /\ Proper(p)
  BY <1>2 DEF Proper
<1>4. ~Copied(u, p) /\ ~Activated(u, p)
  <2>1. wish.provider # "ActiveFlowControl"
    BY <1>1 DEF Inv
  <2>2. CASE kinds[2] = "rpl"
    BY <1>2, <2>1, <2>2 DEF Copied, Activated, Options
  <2>3. CASE kinds[2] = "external"
    <3>1. wish.provider # "Passive"
      BY <2>3 DEF Inv, Wishes, Options, InitialRole
    <3>2. QED
      BY <1>2, <2>1, <3>1 DEF Copied, Activated
  <2>4. QED
    BY <1>1, <2>2, <2>3 DEF Direct
<1>5. u.role \in u.options \cup {"NoRole"} /\ p.role \in p.options \cup {"NoRole"}
  BY <1>1, <1>2 DEF Inv, Wishes, InitialRole
<1>6. "ActiveMessage" \in u.options /\ Other("ActiveMessage") \in p.options
  BY <1>2 DEF Options, Other
<1>7. c # Refused
  BY <1>2, <1>3, <1>6, RefusedOnlyIfIncompatible
<1>8. \E r \in RealRole : c = Pair(r, Other(r))
  BY <1>3, <1>4, <1>7, ChosenRolesFit
<1>9. c.user \in u.options /\ c.provider \in p.options
  BY <1>3, <1>4, <1>5, <1>7, ChosenRolesSupported
<1>10. /\ phase' = "connected" /\ UNCHANGED <<kinds, wish, info>>
       /\ user' = Settle(u, c.user) /\ provider' = Settle(p, c.provider)
  BY <1>7 DEF ConnectDirect, u, p
<1> HIDE DEF c
<1>11. /\ user' \in Descriptor /\ user'.options = u.options /\ user'.role = c.user
       /\ provider' \in Descriptor /\ provider'.options = p.options
       /\ provider'.role = c.provider
  BY <1>2, <1>8, <1>9, <1>10 DEF Settle, Descriptor, Role
<1>12. c.user = Other(c.provider) /\ c.user # "NoRole"
  BY <1>8, OtherFacts DEF Pair, RealRole, Role
<1>13. QED
  BY <1>1, <1>2, <1>9, <1>10, <1>11, <1>12
  DEF Inv, RolesFit, RolesSupported, Phase

\* The provider's offer: what it wishes, or the mandate of an RCC port.
LEMMA OfferStep ==
  ASSUME Inv, GetInitialProviderInfo
  PROVE  Inv'
<1>1. /\ phase = "unconnected" /\ phase' = "offered" /\ kinds \in Handshake
      /\ user = NewPort(kinds[1]) /\ provider = NewPort(kinds[2])
      /\ info' = provider' /\ UNCHANGED <<kinds, wish, user>>
      /\ kinds[2] \in {"rcc", "rpl"}
  BY DEF GetInitialProviderInfo, Inv, Handshake
<1>2. /\ provider' = IF kinds[2] = "rcc" THEN Settle(NewPort("rcc"), "ActiveFlowControl")
                                         ELSE Prefer(NewPort("rpl"), wish.provider)
      /\ provider' \in Descriptor /\ provider'.options = Options(kinds[2])
  <2>1. CASE kinds[2] = "rcc"
    BY <1>1, <2>1
    DEF GetInitialProviderInfo, Settle, NewPort, Descriptor, Options, Role, RealRole
  <2>2. CASE kinds[2] = "rpl"
    <3>1. wish.provider \in Wishes("rpl") /\ "rpl" \in Kind
      BY <2>2 DEF Inv, Kind
    <3>2. provider' = Prefer(NewPort("rpl"), wish.provider)
      BY <1>1, <2>2 DEF GetInitialProviderInfo
    <3>3. QED
      BY <2>2, <3>1, <3>2, WishedPort
  <2>3. QED
    BY <1>1, <2>1, <2>2
<1>3. QED
  BY <1>1, <1>2 DEF Inv, Phase, RolesFit, RolesSupported

\* Against any offer the user finds a role with one side active and neither
\* active only: the master that an FPGA or RCC port cannot be.
LEMMA UserSettles ==
  ASSUME Inv, phase = "offered"
  PROVE  LET u == Prefer(user, wish.user)
             c == ChooseRoles(u, info)
         IN /\ c # Refused
            /\ c.user \in {"ActiveMessage", "ActiveFlowControl"}
            /\ kinds[2] = "rcc" => c.user = "ActiveMessage"
            /\ u \in Descriptor /\ u.options = user.options
<1> DEFINE u == Prefer(user, wish.user)
           c == ChooseRoles(u, info)
<1>1. /\ kinds[1] \in {"rpl", "rcc"} /\ kinds[2] \in {"rpl", "rcc"}
      /\ user = NewPort(kinds[1]) /\ user.options = Options(kinds[1])
      /\ wish.user \in Wishes(kinds[1]) /\ wish.provider \in Wishes(kinds[2])
      /\ info = IF kinds[2] = "rcc" THEN Settle(NewPort("rcc"), "ActiveFlowControl")
                                    ELSE Prefer(NewPort("rpl"), wish.provider)
  BY DEF Inv, Handshake
<1>2. /\ u = [role |-> wish.user, options |-> Options(kinds[1]), mandated |-> FALSE]
      /\ u \in Descriptor
      /\ Proper(u)
      /\ u.role \in {"NoRole", "ActiveMessage", "ActiveFlowControl", "Passive"}
      /\ {"ActiveMessage", "ActiveFlowControl"} \subseteq u.options
      /\ u.options \subseteq {"ActiveMessage", "ActiveFlowControl", "Passive"}
      /\ u.mandated = FALSE
  <2>1. /\ u = [role |-> wish.user, options |-> Options(kinds[1]), mandated |-> FALSE]
        /\ u \in Descriptor
    BY <1>1, WishedPort DEF Kind
  <2>2. /\ wish.user \in {"NoRole", "ActiveMessage", "ActiveFlowControl", "Passive"}
        /\ {"ActiveMessage", "ActiveFlowControl"} \subseteq Options(kinds[1])
        /\ Options(kinds[1]) \subseteq {"ActiveMessage", "ActiveFlowControl", "Passive"}
    BY <1>1 DEF Wishes, Options, InitialRole
  <2> HIDE DEF u
  <2>3. QED
    BY <2>1, <2>2 DEF Proper
<1> HIDE DEF u
<1>3. CASE kinds[2] = "rcc"
  <2>1. info.role = "ActiveFlowControl" /\ info.mandated = TRUE
    BY <1>1, <1>3 DEF Settle
  <2>2. c = Pair("ActiveMessage", "ActiveFlowControl")
    BY <1>2, <2>1 DEF ChooseRoles, Mandated, UserCanFollow, UserFollows, Other
  <2>3. QED
    BY <1>1, <1>2, <2>2 DEF Pair, Refused, u, Prefer
<1>4. CASE kinds[2] = "rpl"
  <2>1. /\ info = [role |-> wish.provider, options |-> Options("rpl"), mandated |-> FALSE]
        /\ info \in Descriptor
        /\ wish.provider \in {"NoRole", "ActiveMessage", "ActiveFlowControl", "Passive"}
    BY <1>1, <1>4, WishedPort DEF Kind, Wishes, Options, InitialRole
  <2>2. /\ info.options = {"ActiveMessage", "ActiveFlowControl", "Passive"}
        /\ info.role = wish.provider /\ info.mandated = FALSE /\ Proper(info)
    BY <2>1 DEF Options, Proper
  <2>3. \/ AnyRoles(u, info) = Pair("ActiveMessage", "ActiveFlowControl")
        \/ AnyRoles(u, info) = Pair("ActiveFlowControl", "ActiveMessage")
    <3>1. Other("ActiveMessage") \in info.options /\ "ActiveMessage" \in u.options
      BY <1>2, <2>2 DEF Other
    <3>2. PICK r \in u.options : /\ Other(r) \in info.options
                                 /\ AnyRoles(u, info) = Pair(r, Other(r))
      BY <1>2, <2>2, <3>1, AnyRolesFit
    <3>3. QED
      BY <1>2, <2>2, <3>2 DEF Other
  <2>4. c.user \in {"ActiveMessage", "ActiveFlowControl"}
    <3>1. CASE c = AnyRoles(u, info)
      BY <2>3, <3>1 DEF Pair
    <3>2. CASE c # AnyRoles(u, info)
      BY <1>2, <2>1, <2>2, <3>2
      DEF ChooseRoles, Preferred, UserCanFollow, UserFollows, ProviderCanFollow,
          ProviderFollows, Other, Rank, Pair
    <3>3. QED
      BY <3>1, <3>2
  <2>5. QED
    BY <1>1, <1>2, <1>4, <2>4 DEF Pair, Refused, u, Prefer
<1>5. QED
  BY <1>1, <1>3, <1>4 DEF u

\* The user's answer.
LEMMA AnswerStep ==
  ASSUME Inv, SetInitialProviderInfo
  PROVE  Inv'
<1> DEFINE u == Prefer(user, wish.user)
           c == ChooseRoles(u, info)
<1>1. /\ phase = "offered" /\ c # Refused
      /\ c.user \in {"ActiveMessage", "ActiveFlowControl"}
      /\ kinds[2] = "rcc" => c.user = "ActiveMessage"
      /\ u \in Descriptor /\ u.options = user.options
  BY UserSettles DEF SetInitialProviderInfo
<1>2. /\ phase' = "answered" /\ user' = Settle(u, c.user)
      /\ info' \in InitialUserInfo(user') /\ UNCHANGED <<kinds, wish, provider>>
  BY <1>1 DEF SetInitialProviderInfo
<1> HIDE DEF u, c
<1>3. /\ user' \in Descriptor /\ user'.options = user.options /\ user'.role = c.user
      /\ user'.mandated = TRUE
  BY <1>1, <1>2 DEF Settle, Descriptor, Role, RealRole
<1>4. /\ info' \in Descriptor /\ info'.role = user'.role
      /\ info'.mandated \/ user'.role = "ActiveMessage"
  BY <1>1, <1>2, <1>3 DEF InitialUserInfo, Descriptor
<1>5. QED
  BY <1>1, <1>2, <1>3, <1>4 DEF Inv, Phase, RolesFit, RolesSupported

\* The provider follows the answer.
LEMMA FinalStep ==
  ASSUME Inv, SetInitialUserInfo
  PROVE  Inv'
<1>1. /\ phase = "answered" /\ kinds \in Handshake /\ kinds[2] \in {"rcc", "rpl"}
      /\ user.role \in {"ActiveMessage", "ActiveFlowControl"}
      /\ user.role \in user.options
      /\ UNCHANGED <<kinds, wish, user, info>>
  BY DEF SetInitialUserInfo, Inv, Handshake, Options
<1>2. CASE kinds[2] = "rcc"
  <2>1. /\ phase' = "connected" /\ UNCHANGED provider
        /\ user.role = "ActiveMessage" /\ provider.role = "ActiveFlowControl"
    BY <1>1, <1>2 DEF SetInitialUserInfo, Inv, Settle
  <2>2. provider.role \in provider.options
    BY <1>2, <2>1 DEF Inv, Options
  <2>3. QED
    BY <1>1, <1>2, <2>1, <2>2 DEF Inv, Phase, RolesFit, RolesSupported, Other
<1>3. CASE kinds[2] = "rpl"
  <2>1. /\ provider = [role |-> wish.provider, options |-> Options("rpl"), mandated |-> FALSE]
        /\ provider \in Descriptor
        /\ wish.provider \in {"NoRole", "ActiveMessage", "ActiveFlowControl", "Passive"}
    BY <1>1, <1>3, WishedPort DEF Inv, Kind, Wishes, Options, InitialRole
  <2>2. /\ provider.options = {"ActiveMessage", "ActiveFlowControl", "Passive"}
        /\ provider.role = wish.provider /\ provider.mandated = FALSE
    BY <2>1 DEF Options
  <2>3. /\ info.role = user.role
        /\ info.mandated \/ user.role = "ActiveMessage"
    BY <1>1 DEF Inv
  <2>4. ChooseRoles(info, provider) = Pair(user.role, Other(user.role))
    BY <1>1, <2>1, <2>2, <2>3
    DEF ChooseRoles, Mandated, Preferred, ProviderCanFollow, ProviderFollows, Other, Pair
  <2>5. ChooseRoles(info, provider) # Refused
    BY <1>1, <2>4 DEF Pair, Refused
  <2>6. /\ phase' = "connected"
        /\ provider' = Settle(provider, Other(user.role))
    BY <1>3, <2>4, <2>5 DEF SetInitialUserInfo, Pair
  <2>7. /\ provider' \in Descriptor /\ provider'.options = provider.options
        /\ provider'.role = Other(user.role) /\ Other(user.role) \in provider.options
    BY <1>1, <2>1, <2>2, <2>6 DEF Settle, Descriptor, Other, Role, RealRole
  <2>8. user.role = Other(provider'.role) /\ user.role # "NoRole"
    BY <1>1, <2>7 DEF Other
  <2>9. QED
    BY <1>1, <1>3, <2>6, <2>7, <2>8 DEF Inv, Phase, RolesFit, RolesSupported
<1>4. QED
  BY <1>1, <1>2, <1>3

\* The invariant of negotiation, if no direct connection asks for flow control
\* by the provider.
THEOREM Negotiated ==
  ASSUME "ActiveFlowControl" \notin DirectProviderPreferences
  PROVE  Spec => []Inv
<1>1. Init => Inv
  BY InvInit
<1>2. Inv /\ [Next]_vars => Inv'
  <2>1. Inv /\ UNCHANGED vars => Inv'
    BY DEF vars, Inv, RolesFit, RolesSupported
  <2>2. QED
    BY <2>1, DirectStep, OfferStep, AnswerStep, FinalStep DEF Next
<1>3. QED
  BY <1>1, <1>2, PTL DEF Spec

\* Then every connection ends with roles that fit, ...
THEOREM RolesAlwaysFit ==
  ASSUME "ActiveFlowControl" \notin DirectProviderPreferences
  PROVE  Spec => []RolesFit
<1>1. Inv => RolesFit
  BY DEF Inv
<1>2. QED
  BY <1>1, Negotiated, PTL

\* ... that both ports support, ...
THEOREM RolesAlwaysSupported ==
  ASSUME "ActiveFlowControl" \notin DirectProviderPreferences
  PROVE  Spec => []RolesSupported
<1>1. Inv => RolesSupported
  BY DEF Inv
<1>2. QED
  BY <1>1, Negotiated, PTL

\* ... and none is refused.
THEOREM NeverEverRefused ==
  ASSUME "ActiveFlowControl" \notin DirectProviderPreferences
  PROVE  Spec => []NeverRefused
<1>1. Inv => NeverRefused
  BY DEF Inv, NeverRefused
<1>2. QED
  BY <1>1, Negotiated, PTL

-----------------------------------------------------------------------------
(* What holds of any direct connection *)

\* A port that has not settled its role has no mandate, so a preference without
\* a role never becomes one.
Unsettled ==
  /\ phase \in {"direct", "unconnected", "offered"} => ~user.mandated
  /\ phase \in {"direct", "unconnected"} => ~provider.mandated

\* Every variable keeps its range and every mandate has a role, whatever a
\* connection asks for: chooseRoles asserts it of both arguments.
THEOREM TypeCorrect == Spec => []TypeOK
<1> DEFINE TInv == TypeOK /\ Unsettled
<1>1. Init => TInv
  <2> SUFFICES ASSUME Init PROVE TInv
    OBVIOUS
  <2>1. kinds \in Direct \cup Handshake /\ phase \in Phase
    BY DEF Init, Phase
  <2>2. kinds[1] \in Kind /\ kinds[2] \in Kind
    BY <2>1 DEF Direct, Handshake, Kind
  <2>3. \A k \in Kind : /\ Wishes(k) \subseteq Role
                        /\ NewPort(k) \in Descriptor /\ ~NewPort(k).mandated
    BY DEF Kind, Wishes, Options, InitialRole, Role, RealRole, NewPort, Descriptor
  <2>4. wish \in [user : Role, provider : Role]
    BY <2>2, <2>3 DEF Init
  <2>5. QED
    BY <2>1, <2>2, <2>3, <2>4 DEF Init, TypeOK, Unsettled
<1>2. TInv /\ [Next]_vars => TInv'
  <2> SUFFICES ASSUME TInv, [Next]_vars PROVE TInv'
    OBVIOUS
  <2>1. /\ Proper(user) /\ Proper(provider) /\ Proper(info)
        /\ wish.user \in Role /\ wish.provider \in Role
    BY DEF TypeOK, Proper
  <2>2. \A d, r : Proper(d) /\ r \in Role /\ ~d.mandated
                 => Proper(Prefer(d, r)) /\ ~Prefer(d, r).mandated
    BY DEF Proper, Prefer, Descriptor
  <2>3. \A d, r : Proper(d) /\ r \in RealRole => Proper(Settle(d, r))
    BY DEF Proper, Settle, Descriptor, RealRole, Role
  <2>4. CASE UNCHANGED vars
    BY <2>4 DEF TypeOK, Unsettled, vars
  <2>5. CASE ConnectDirect
    <3> DEFINE u == Prefer(user, wish.user)
               p == Prefer(provider, wish.provider)
               c == ChooseRoles(u, p)
    <3>1. phase = "direct" /\ ~user.mandated /\ ~provider.mandated
      BY <2>5 DEF ConnectDirect, Unsettled
    <3>2. Proper(u) /\ Proper(p)
      BY <2>1, <2>2, <3>1
    <3>3. c # Refused => Proper(Settle(u, c.user)) /\ Proper(Settle(p, c.provider))
      BY <2>3, <3>2, ChosenRolesReal
    <3>4. /\ phase' \in {"refused", "connected"} /\ UNCHANGED <<kinds, wish, info>>
          /\ Proper(user') /\ Proper(provider')
      BY <2>5, <3>2, <3>3 DEF ConnectDirect
    <3>5. QED
      BY <2>1, <3>4 DEF TypeOK, Unsettled, Proper, Phase
  <2>6. CASE GetInitialProviderInfo
    <3>1. /\ phase = "unconnected" /\ phase' = "offered" /\ info' = provider'
          /\ UNCHANGED <<kinds, wish, user>> /\ ~provider.mandated /\ ~user.mandated
      BY <2>6 DEF GetInitialProviderInfo, Unsettled
    <3>2. Proper(provider')
      BY <2>1, <2>2, <2>3, <2>6, <3>1 DEF GetInitialProviderInfo, RealRole
    <3>3. QED
      BY <2>1, <3>1, <3>2 DEF TypeOK, Unsettled, Proper, Phase
  <2>7. CASE SetInitialProviderInfo
    <3> DEFINE u == Prefer(user, wish.user)
               c == ChooseRoles(u, info)
    <3>1. phase = "offered" /\ ~user.mandated /\ UNCHANGED <<kinds, wish, provider>>
      BY <2>7 DEF SetInitialProviderInfo, Unsettled
    <3>2. Proper(u)
      BY <2>1, <2>2, <3>1
    <3>3. c # Refused => Proper(Settle(u, c.user)) /\ Settle(u, c.user).role \in RealRole
      BY <2>1, <2>3, <3>2, ChosenRolesReal DEF Settle
    <3>4. CASE c = Refused
      <4>1. phase' = "refused" /\ user' = u /\ info' = info
        BY <2>7, <3>4 DEF SetInitialProviderInfo
      <4>2. QED
        BY <2>1, <3>1, <3>2, <4>1 DEF TypeOK, Unsettled, Proper, Phase
    <3>5. CASE c # Refused
      <4>1. phase' = "answered" /\ user' = Settle(u, c.user) /\ info' \in InitialUserInfo(user')
        BY <2>7, <3>5 DEF SetInitialProviderInfo
      <4> HIDE DEF u, c
      <4>2. Proper(user') /\ user'.role \in RealRole
        BY <3>3, <3>5, <4>1
      <4>3. Proper(info')
        BY <4>1, <4>2 DEF InitialUserInfo, Proper, Descriptor, Role, RealRole
      <4>4. QED
        BY <2>1, <3>1, <4>1, <4>2, <4>3 DEF TypeOK, Unsettled, Proper, Phase
    <3>6. QED
      BY <3>4, <3>5
  <2>8. CASE SetInitialUserInfo
    <3> DEFINE c == ChooseRoles(info, provider)
    <3>1. c # Refused => Proper(Settle(provider, c.provider))
      BY <2>1, <2>3, ChosenRolesReal
    <3>2. /\ phase' \in {"refused", "connected"} /\ UNCHANGED <<kinds, wish, user, info>>
          /\ Proper(provider')
      BY <2>1, <2>8, <3>1 DEF SetInitialUserInfo
    <3>3. QED
      BY <2>1, <3>2 DEF TypeOK, Unsettled, Proper, Phase
  <2>9. QED
    BY <2>4, <2>5, <2>6, <2>7, <2>8 DEF Next
<1>3. TInv => TypeOK
  OBVIOUS
<1>4. QED
  BY <1>1, <1>2, <1>3, PTL DEF Spec

-----------------------------------------------------------------------------
(* Wishes *)

\* Only the user, or only the provider, has a wish, and the other can follow.
UserAlone ==
  wish.provider = "NoRole" /\ Other(wish.user) \in Options(kinds[2])

ProviderAlone ==
  /\ wish.user = "NoRole" /\ kinds[2] # "rcc"
  /\ Other(wish.provider) \in Options(kinds[1])

\* The user's role is what either wish calls for as soon as it is settled.
WishKept ==
  phase \in {"answered", "connected"} =>
    /\ UserAlone => user.role = wish.user
    /\ ProviderAlone => user.role = Other(wish.provider)

\* Two ports as their parameters leave them, one of them without a wish: the
\* choice is the wish of the other, if it can be followed.
LEMMA LoneWish ==
  ASSUME NEW k \in Kind, NEW j \in Kind, NEW r \in Wishes(k), NEW s \in Wishes(j)
  PROVE  LET c == ChooseRoles(Prefer(NewPort(k), r), Prefer(NewPort(j), s))
         IN /\ s = "NoRole" /\ Other(r) \in Options(j) => c.user = r
            /\ r = "NoRole" /\ Other(s) \in Options(k) => c.user = Other(s)
<1> DEFINE u == Prefer(NewPort(k), r)
           p == Prefer(NewPort(j), s)
<1>1. /\ u.role = r /\ u.options = Options(k) /\ u.mandated = FALSE
      /\ p.role = s /\ p.options = Options(j) /\ p.mandated = FALSE
  BY WishedPort
<1>2. \A i \in Kind : "NoRole" \notin Options(i)
  BY DEF Kind, Options
<1>3. Other("NoRole") = "NoRole"
  BY OtherFacts
<1> HIDE DEF u, p
<1>4. ASSUME s = "NoRole", Other(r) \in Options(j)
      PROVE  ChooseRoles(u, p).user = r
  BY <1>1, <1>2, <1>3, <1>4 DEF ChooseRoles, ProviderCanFollow, ProviderFollows, Pair
<1>5. ASSUME r = "NoRole", Other(s) \in Options(k)
      PROVE  ChooseRoles(u, p).user = Other(s)
  BY <1>1, <1>2, <1>3, <1>5 DEF ChooseRoles, UserCanFollow, UserFollows, Pair
<1>6. QED
  BY <1>4, <1>5 DEF u, p

\* A wish of one side alone comes true, in one step (connectExternal) and over
\* descriptors, where both sides choose (setInitialProviderInfo and
\* setInitialUserInfo), under the assumption of the theorems above.
THEOREM LoneWishComesTrue ==
  ASSUME "ActiveFlowControl" \notin DirectProviderPreferences
  PROVE  Spec => []WishComesTrue
<1>1. Init => WishKept
  BY DEF Init, WishKept
<1>2. Inv /\ WishKept /\ [Next]_vars => WishKept'
  <2> SUFFICES ASSUME Inv, WishKept, [Next]_vars PROVE WishKept'
    OBVIOUS
  <2>1. /\ kinds[1] \in Kind /\ kinds[2] \in Kind
        /\ wish.user \in Wishes(kinds[1]) /\ wish.provider \in Wishes(kinds[2])
    BY DEF Inv, Direct, Handshake, Kind
  <2>2. CASE UNCHANGED vars
    BY <2>2 DEF WishKept, UserAlone, ProviderAlone, vars
  <2>3. CASE GetInitialProviderInfo
    BY <2>3 DEF GetInitialProviderInfo, WishKept
  <2>4. CASE SetInitialUserInfo
    BY <2>4 DEF SetInitialUserInfo, WishKept, UserAlone, ProviderAlone
  <2>5. CASE ConnectDirect
    <3> DEFINE c == ChooseRoles(Prefer(user, wish.user), Prefer(provider, wish.provider))
    <3>1. user = NewPort(kinds[1]) /\ provider = NewPort(kinds[2])
      BY <2>5 DEF ConnectDirect, Inv
    <3>2. /\ UserAlone => c.user = wish.user
          /\ ProviderAlone => c.user = Other(wish.provider)
      BY <2>1, <3>1, LoneWish DEF UserAlone, ProviderAlone
    <3>3. /\ phase' = "refused" \/ (phase' = "connected" /\ user'.role = c.user)
          /\ UNCHANGED <<kinds, wish>>
      BY <2>5 DEF ConnectDirect, Settle
    <3>4. QED
      BY <3>2, <3>3 DEF WishKept, UserAlone, ProviderAlone
  <2>6. CASE SetInitialProviderInfo
    <3> DEFINE c == ChooseRoles(Prefer(user, wish.user), info)
    <3>1. /\ phase' = "refused" \/ (phase' = "answered" /\ user'.role = c.user)
          /\ UNCHANGED <<kinds, wish>> /\ phase = "offered"
      BY <2>6 DEF SetInitialProviderInfo, Settle
    <3>2. /\ user = NewPort(kinds[1]) /\ kinds[2] \in {"rcc", "rpl"}
          /\ kinds[2] = "rpl" => info = Prefer(NewPort(kinds[2]), wish.provider)
      BY <3>1 DEF Inv, Handshake
    <3>3. CASE kinds[2] = "rcc"
      <4>1. ~UserAlone /\ ~ProviderAlone
        BY <2>1, <3>3 DEF UserAlone, ProviderAlone, Wishes, Options, InitialRole
      <4>2. QED
        BY <3>1, <4>1 DEF WishKept, UserAlone, ProviderAlone
    <3>4. CASE kinds[2] = "rpl"
      <4>1. /\ UserAlone => c.user = wish.user
            /\ ProviderAlone => c.user = Other(wish.provider)
        BY <2>1, <3>2, <3>4, LoneWish DEF UserAlone, ProviderAlone
      <4>2. QED
        BY <3>1, <4>1 DEF WishKept, UserAlone, ProviderAlone
    <3>5. QED
      BY <3>2, <3>3, <3>4
  <2>7. QED
    BY <2>2, <2>3, <2>4, <2>5, <2>6 DEF Next
<1>3. Inv /\ WishKept => WishComesTrue
  <2> SUFFICES ASSUME Inv, WishKept, phase = "connected" PROVE WishComesTrue
    BY DEF WishComesTrue
  <2>1. user.options = Options(kinds[1]) /\ provider.options = Options(kinds[2])
    BY DEF Inv
  <2>2. user.role = Other(provider.role)
    BY DEF Inv, RolesFit
  <2>3. provider.role \in Role /\ wish.provider \in Role
    BY DEF Inv, Descriptor, Wishes, Options, InitialRole, Role, RealRole
  <2>4. user.role = Other(wish.provider) => provider.role = wish.provider
    BY <2>2, <2>3, OtherFacts
  <2>5. QED
    BY <2>1, <2>4 DEF WishKept, UserAlone, ProviderAlone, WishComesTrue
<1>4. QED
  BY <1>1, <1>2, <1>3, Negotiated, PTL DEF Spec
=========================
