----------------------------- MODULE Roles_proofs -----------------------------
(***************************************************************************)
(* What chooseRoles guarantees, for any two ports, whatever roles they     *)
(* support and wish for; and the roles it can leave the host with.         *)
(***************************************************************************)
EXTENDS Roles, TLAPS

\* What chooseRoles asserts of its arguments.
Proper(d) == d \in Descriptor /\ (d.mandated => d.role # "NoRole")

\* The two rules of Preferred that can settle roles that do not fit: the user
\* is made to copy the provider's preference, and a passive provider is made
\* active only, whatever the user is.
Copied(u, p) ==
  /\ ~u.mandated /\ ~p.mandated /\ u.role # "NoRole"
  /\ p.role = "ActiveFlowControl" /\ "ActiveMessage" \in u.options

Activated(u, p) ==
  /\ ~u.mandated /\ ~p.mandated /\ u.role # "NoRole"
  /\ p.role = "Passive" /\ "ActiveOnly" \in p.options

\* The roles that fit come in pairs.
LEMMA OtherFacts ==
  /\ \A r \in Role : Other(r) \in Role /\ Other(Other(r)) = r
  /\ \A r \in RealRole : Other(r) \in RealRole
  /\ Other("NoRole") = "NoRole"
BY DEF Role, RealRole, Other

\* The fallback finds a pair that fits when there is one.
LEMMA AnyRolesFit ==
  ASSUME NEW u, Proper(u), NEW p, Proper(p)
  PROVE  \/ /\ AnyRoles(u, p) = Refused
            /\ \A r \in u.options : ~(Other(r) \in p.options)
         \/ \E r \in u.options : /\ Other(r) \in p.options
                                 /\ AnyRoles(u, p) = Pair(r, Other(r))
<1> DEFINE Usable == {r \in u.options : Other(r) \in p.options}
<1>1. u.options \subseteq RealRole
  BY DEF Proper, Descriptor
<1>2. CASE Usable = {}
  BY <1>2 DEF AnyRoles
<1>3. CASE Usable # {}
  <2> DEFINE Least(r) == \A s \in Usable : Rank(r) <= Rank(s)
  <2>1. Usable \subseteq RealRole
    BY <1>1
  <2>2. \E r \in Usable : Least(r)
    <3> HIDE DEF Usable
    <3>1. CASE "ActiveMessage" \in Usable
      BY <2>1, <3>1 DEF RealRole, Rank
    <3>2. CASE "ActiveMessage" \notin Usable /\ "ActiveFlowControl" \in Usable
      BY <2>1, <3>2 DEF RealRole, Rank
    <3>3. CASE /\ "ActiveMessage" \notin Usable /\ "ActiveFlowControl" \notin Usable
               /\ "ActiveOnly" \in Usable
      BY <2>1, <3>3 DEF RealRole, Rank
    <3>4. CASE /\ "ActiveMessage" \notin Usable /\ "ActiveFlowControl" \notin Usable
               /\ "ActiveOnly" \notin Usable
      <4>1. Usable = {"Passive"}
        BY <1>3, <2>1, <3>4 DEF RealRole
      <4>2. QED
        BY <4>1 DEF Rank
    <3>5. QED
      BY <3>1, <3>2, <3>3, <3>4
  <2> DEFINE c == CHOOSE r \in Usable : Least(r)
  <2>3. c \in Usable
    BY <2>2
  <2>4. AnyRoles(u, p) = Pair(c, Other(c))
    BY <1>3 DEF AnyRoles
  <2>5. QED
    BY <2>3, <2>4
<1>4. QED
  BY <1>2, <1>3

\* Roles that negotiation settles fit, but for the two rules above.
THEOREM ChosenRolesFit ==
  ASSUME NEW u, Proper(u), NEW p, Proper(p), ~Copied(u, p), ~Activated(u, p),
         ChooseRoles(u, p) # Refused
  PROVE  \E r \in RealRole : ChooseRoles(u, p) = Pair(r, Other(r))
<1>1. /\ u.role \in Role /\ p.role \in Role
      /\ u.options \subseteq RealRole /\ p.options \subseteq RealRole
  BY DEF Proper, Descriptor
<1>2. \A r \in Role : r # "NoRole" => r \in RealRole
  BY DEF Role
<1>3. CASE ChooseRoles(u, p) = AnyRoles(u, p)
  BY <1>1, <1>3, AnyRolesFit
<1>4. CASE ChooseRoles(u, p) = ProviderFollows(u, p) /\ u.role # "NoRole"
  BY <1>1, <1>2, <1>4 DEF ProviderFollows
<1>5. CASE ChooseRoles(u, p) = UserFollows(u, p) /\ p.role # "NoRole"
  BY <1>1, <1>2, <1>5, OtherFacts DEF UserFollows
<1>6. CASE /\ ChooseRoles(u, p) = Pair(u.role, p.role)
           /\ u.role = Other(p.role)
           /\ u.role # "NoRole" \/ p.role # "NoRole"
  <2>1. u.role # "NoRole" /\ p.role = Other(u.role)
    BY <1>1, <1>6, OtherFacts
  <2>2. QED
    BY <1>1, <1>2, <1>6, <2>1
<1>7. CASE u.mandated \/ p.mandated
  BY <1>4, <1>5, <1>6, <1>7 DEF ChooseRoles, Mandated, Proper
<1>8. CASE ~(u.mandated \/ p.mandated) /\ u.role # "NoRole" /\ p.role # "NoRole"
  <2>1. ~(p.role = "ActiveFlowControl" /\ "ActiveMessage" \in u.options)
    BY <1>8 DEF Copied
  <2>2. ~(p.role = "Passive" /\ "ActiveOnly" \in p.options)
    BY <1>8 DEF Activated
  <2>3. QED
    BY <1>3, <1>4, <1>5, <1>6, <1>8, <2>1, <2>2 DEF ChooseRoles, Preferred
<1>9. CASE ~(u.mandated \/ p.mandated) /\ ~(u.role # "NoRole" /\ p.role # "NoRole")
  BY <1>3, <1>4, <1>5, <1>9 DEF ChooseRoles
<1>10. QED
  BY <1>7, <1>8, <1>9

\* Without mandates, negotiation is refused only when no roles fit.
THEOREM RefusedOnlyIfIncompatible ==
  ASSUME NEW u, Proper(u), NEW p, Proper(p), ~u.mandated, ~p.mandated,
         ChooseRoles(u, p) = Refused
  PROVE  \A r \in u.options : ~(Other(r) \in p.options)
<1>1. CASE ChooseRoles(u, p) = AnyRoles(u, p)
  <2>1. \A r \in u.options : Pair(r, Other(r)) # Refused
    BY DEF Proper, Descriptor, RealRole, Pair, Refused
  <2>2. QED
    BY <1>1, <2>1, AnyRolesFit
<1>2. \A r, s : Pair(r, s) = Refused => r = "NoRole" /\ s = "NoRole"
  BY DEF Pair, Refused
<1>3. CASE u.role # "NoRole" /\ p.role # "NoRole"
  <2>1. \/ Preferred(u, p) = AnyRoles(u, p)
        \/ \E s : Preferred(u, p) = Pair(u.role, s)
        \/ \E s : Preferred(u, p) = Pair(s, p.role)
    BY DEF Preferred, ProviderFollows, UserFollows
  <2>2. ChooseRoles(u, p) = Preferred(u, p)
    BY <1>3 DEF ChooseRoles
  <2>3. QED
    BY <1>1, <1>2, <1>3, <2>1, <2>2
<1>4. CASE ~(u.role # "NoRole" /\ p.role # "NoRole")
  BY <1>1, <1>2, <1>4 DEF ChooseRoles, ProviderFollows, UserFollows
<1>5. QED
  BY <1>3, <1>4

\* Negotiation gives no port a role it does not support, if the roles asked for
\* are supported.
THEOREM ChosenRolesSupported ==
  ASSUME NEW u, Proper(u), u.role \in u.options \cup {"NoRole"},
         NEW p, Proper(p), p.role \in p.options \cup {"NoRole"}, ~Copied(u, p),
         ChooseRoles(u, p) # Refused
  PROVE  /\ ChooseRoles(u, p).user \in u.options
         /\ ChooseRoles(u, p).provider \in p.options
<1>0. /\ u.role \in Role /\ p.role \in Role
      /\ u.options \subseteq RealRole /\ p.options \subseteq RealRole
      /\ "NoRole" \notin RealRole
  BY DEF Proper, Descriptor, RealRole
<1>1. CASE ChooseRoles(u, p) = AnyRoles(u, p)
  BY <1>1, AnyRolesFit DEF Pair
<1>2. CASE /\ ChooseRoles(u, p) = ProviderFollows(u, p)
           /\ u.role # "NoRole" /\ ProviderCanFollow(u, p)
  BY <1>2 DEF ProviderFollows, ProviderCanFollow, Pair
<1>3. CASE /\ ChooseRoles(u, p) = UserFollows(u, p)
           /\ p.role # "NoRole" /\ UserCanFollow(u, p)
  BY <1>3 DEF UserFollows, UserCanFollow, Pair
<1>4. CASE /\ ChooseRoles(u, p) = Pair(u.role, p.role)
           /\ u.role # "NoRole" /\ p.role # "NoRole"
  BY <1>4 DEF Pair
<1>5. CASE /\ ChooseRoles(u, p) = Pair(u.role, "ActiveOnly")
           /\ u.role # "NoRole" /\ "ActiveOnly" \in p.options
  BY <1>5 DEF Pair
<1>6. CASE u.mandated \/ p.mandated
  <2>1. u.role = Other(p.role) => u.role # "NoRole" /\ p.role # "NoRole"
    BY <1>0, <1>6, OtherFacts DEF Proper
  <2>2. QED
    BY <1>2, <1>3, <1>4, <1>6, <2>1 DEF ChooseRoles, Mandated, Proper
<1>7. CASE ~(u.mandated \/ p.mandated) /\ u.role # "NoRole" /\ p.role # "NoRole"
  <2>1. ~(p.role = "ActiveFlowControl" /\ "ActiveMessage" \in u.options)
    BY <1>7 DEF Copied
  <2>2. QED
    BY <1>1, <1>2, <1>3, <1>4, <1>5, <1>7, <2>1 DEF ChooseRoles, Preferred
<1>8. CASE ~(u.mandated \/ p.mandated) /\ ~(u.role # "NoRole" /\ p.role # "NoRole")
  BY <1>1, <1>2, <1>3, <1>8 DEF ChooseRoles
<1>9. QED
  BY <1>6, <1>7, <1>8

\* Roles that negotiation settles are real ones, on both sides, whether they fit
\* or not.
THEOREM ChosenRolesReal ==
  ASSUME NEW u, Proper(u), NEW p, Proper(p), ChooseRoles(u, p) # Refused
  PROVE  ChooseRoles(u, p).user \in RealRole /\ ChooseRoles(u, p).provider \in RealRole
<1> DEFINE Real(c) == c.user \in RealRole /\ c.provider \in RealRole
<1>1. /\ u.role \in Role /\ p.role \in Role
      /\ u.options \subseteq RealRole /\ p.options \subseteq RealRole
  BY DEF Proper, Descriptor
<1>2. \A r \in Role : r # "NoRole" => r \in RealRole
  BY DEF Role
<1>3. \A r, s : r \in RealRole /\ s \in RealRole => Real(Pair(r, s))
  BY DEF Pair
<1>4. AnyRoles(u, p) # Refused => Real(AnyRoles(u, p))
  BY <1>1, <1>3, AnyRolesFit, OtherFacts
<1>5. /\ u.role # "NoRole" => Real(ProviderFollows(u, p))
      /\ p.role # "NoRole" => Real(UserFollows(u, p))
  BY <1>1, <1>2, <1>3, OtherFacts DEF ProviderFollows, UserFollows
<1>6. /\ u.role # "NoRole" /\ p.role # "NoRole" => Real(Pair(u.role, p.role))
      /\ u.role # "NoRole" => Real(Pair(u.role, "ActiveOnly"))
      /\ p.role # "NoRole" => Real(Pair("ActiveFlowControl", p.role))
  BY <1>1, <1>2, <1>3 DEF RealRole
<1>7. u.role = Other(p.role) => (u.role = "NoRole" <=> p.role = "NoRole")
  BY <1>1 DEF Other, Role, RealRole
<1> HIDE DEF Real
<1> SUFFICES Real(ChooseRoles(u, p))
  BY DEF Real
<1>8. CASE u.mandated \/ p.mandated
  BY <1>5, <1>6, <1>7, <1>8 DEF ChooseRoles, Mandated, Proper
<1>9. CASE ~(u.mandated \/ p.mandated) /\ u.role # "NoRole" /\ p.role # "NoRole"
  BY <1>4, <1>5, <1>6, <1>9 DEF ChooseRoles, Preferred
<1>10. CASE ~(u.mandated \/ p.mandated) /\ ~(u.role # "NoRole" /\ p.role # "NoRole")
  BY <1>4, <1>5, <1>10 DEF ChooseRoles
<1>11. QED
  BY <1>8, <1>9, <1>10

-----------------------------------------------------------------------------
(* The ports of the containers *)

\* A port of its kind once its connection parameters are applied.
LEMMA WishedPort ==
  ASSUME NEW k \in Kind, NEW r \in Wishes(k)
  PROVE  /\ Prefer(NewPort(k), r) = [role |-> r, options |-> Options(k), mandated |-> FALSE]
         /\ Prefer(NewPort(k), r) \in Descriptor
         /\ r \in Options(k) \cup {InitialRole(k)}
<1>1. Options(k) \subseteq RealRole /\ r \in Role
  BY DEF Kind, Options, Wishes, InitialRole, RealRole, Role
<1>2. Prefer(NewPort(k), r) = [role |-> r, options |-> Options(k), mandated |-> FALSE]
  BY DEF Prefer, NewPort
<1>3. QED
  BY <1>1, <1>2 DEF Descriptor, Wishes
=============================================================================
