-------------------------------- MODULE Roles --------------------------------
(***************************************************************************)
(* Who moves the data between two ports.                                   *)
(*                                                                         *)
(* Each port has the roles it supports, and a role that is a preference, a *)
(* mandate or nothing.  ChooseRoles settles both roles.  Negotiation has   *)
(* the protocols that call it, ExternalPort uses its result.               *)
(***************************************************************************)
EXTENDS Naturals

\* In the order of their "goodness".
RealRole == {"ActiveMessage", "ActiveFlowControl", "ActiveOnly", "Passive"}
Role == RealRole \cup {"NoRole"}

Rank(r) == IF r = "NoRole" THEN 0
           ELSE IF r = "ActiveMessage" THEN 1
           ELSE IF r = "ActiveFlowControl" THEN 2
           ELSE IF r = "ActiveOnly" THEN 3 ELSE 4

\* The role that fits r on the other side.
Other(r) == IF r = "ActiveMessage" THEN "ActiveFlowControl"
            ELSE IF r = "ActiveFlowControl" THEN "ActiveMessage"
            ELSE IF r = "ActiveOnly" THEN "Passive"
            ELSE IF r = "Passive" THEN "ActiveOnly" ELSE "NoRole"

\* What negotiation knows of a port.
Descriptor == [role : Role, options : SUBSET RealRole, mandated : BOOLEAN]

Pair(u, p) == [user |-> u, provider |-> p]
Refused == Pair("NoRole", "NoRole")

-----------------------------------------------------------------------------
(* chooseRoles, for a user u and a provider p *)

UserCanFollow(u, p) == Other(p.role) \in u.options
ProviderCanFollow(u, p) == Other(u.role) \in p.options
UserFollows(u, p) == Pair(Other(p.role), p.role)
ProviderFollows(u, p) == Pair(u.role, Other(u.role))

\* One side at least has a mandate.
Mandated(u, p) ==
  IF u.role = Other(p.role) THEN Pair(u.role, p.role)
  ELSE IF p.mandated /\ ~u.mandated /\ UserCanFollow(u, p) THEN UserFollows(u, p)
  ELSE IF ~p.mandated /\ ProviderCanFollow(u, p) THEN ProviderFollows(u, p)
  ELSE Refused

\* Without a useful mandate or preference: anything, biased to push.
AnyRoles(u, p) ==
  LET Usable == {r \in u.options : Other(r) \in p.options} IN
  IF Usable = {} THEN Refused
  ELSE LET r == CHOOSE r \in Usable : \A s \in Usable : Rank(r) <= Rank(s)
       IN Pair(r, Other(r))

\* Both sides have a preference, neither a mandate.
Preferred(u, p) ==
  IF u.role = Other(p.role) THEN Pair(u.role, p.role)
  ELSE IF u.role \in {"ActiveFlowControl", "ActiveMessage"} /\ ProviderCanFollow(u, p)
    THEN ProviderFollows(u, p)
  ELSE IF p.role = "ActiveFlowControl" /\ "ActiveMessage" \in u.options
    THEN Pair("ActiveFlowControl", p.role)
  ELSE IF u.role = "ActiveOnly" /\ ProviderCanFollow(u, p)
    THEN ProviderFollows(u, p)
  ELSE IF p.role = "Passive" /\ "ActiveOnly" \in p.options
    THEN Pair(u.role, "ActiveOnly")
  ELSE IF Rank(u.role) < Rank(p.role) /\ ProviderCanFollow(u, p)
    THEN ProviderFollows(u, p)
  ELSE IF UserCanFollow(u, p) THEN UserFollows(u, p)
  ELSE IF ProviderCanFollow(u, p) THEN ProviderFollows(u, p)
  ELSE AnyRoles(u, p)

\* Mutant: the provider's preference is taken without asking the user's options.
ChooseRolesUnasked(u, p) ==
  IF u.mandated \/ p.mandated THEN Mandated(u, p)
  ELSE IF u.role # "NoRole" /\ p.role # "NoRole" THEN Preferred(u, p)
  ELSE IF p.role # "NoRole" THEN UserFollows(u, p)
  ELSE IF u.role # "NoRole" /\ ProviderCanFollow(u, p) THEN ProviderFollows(u, p)
  ELSE AnyRoles(u, p)

\* Mutant: mandates are taken for preferences.
ChooseRolesNoMandates(u, p) ==
  IF u.role # "NoRole" /\ p.role # "NoRole" THEN Preferred(u, p)
  ELSE IF p.role # "NoRole" /\ UserCanFollow(u, p) THEN UserFollows(u, p)
  ELSE IF u.role # "NoRole" /\ ProviderCanFollow(u, p) THEN ProviderFollows(u, p)
  ELSE AnyRoles(u, p)

\* Mutant: a user's preference that cannot be had is refused.
ChooseRolesStrict(u, p) ==
  IF u.mandated \/ p.mandated THEN Mandated(u, p)
  ELSE IF u.role # "NoRole" /\ p.role # "NoRole" THEN Preferred(u, p)
  ELSE IF u.role # "NoRole" /\ ~ProviderCanFollow(u, p) THEN Refused
  ELSE IF u.role # "NoRole" THEN ProviderFollows(u, p)
  ELSE AnyRoles(u, p)

\* Mutant: a preference counts only when both sides have one.
ChooseRolesBoth(u, p) ==
  IF u.mandated \/ p.mandated THEN Mandated(u, p)
  ELSE IF u.role # "NoRole" /\ p.role # "NoRole" THEN Preferred(u, p)
  ELSE AnyRoles(u, p)

ChooseRoles(u, p) ==
  IF u.mandated \/ p.mandated THEN Mandated(u, p)
  ELSE IF u.role # "NoRole" /\ p.role # "NoRole" THEN Preferred(u, p)
  ELSE IF p.role # "NoRole" /\ UserCanFollow(u, p) THEN UserFollows(u, p)
  ELSE IF u.role # "NoRole" /\ ProviderCanFollow(u, p) THEN ProviderFollows(u, p)
  ELSE AnyRoles(u, p)

-----------------------------------------------------------------------------
(* The ports that negotiate: of an FPGA worker, of an RCC worker, and the   *)
(* application's own port to an FPGA worker.                                *)

Kind == {"rpl", "rcc", "external"}

Options(k) == {"ActiveFlowControl", "ActiveMessage"} \cup
              (IF k = "rpl" THEN {"Passive"}
               ELSE IF k = "external" THEN {"ActiveOnly"} ELSE {})

InitialRole(k) == IF k = "rcc" THEN "ActiveMessage" ELSE "NoRole"

\* Mutant: the bits of the supported roles run into that of the mandate.
NewPortMandated(k) ==
  [role |-> InitialRole(k), options |-> Options(k), mandated |-> TRUE]

NewPort(k) == [role |-> InitialRole(k), options |-> Options(k), mandated |-> FALSE]

\* setConnectParams: the xferRole property, if given, replaces the role.
Wishes(k) == Options(k) \cup {InitialRole(k)}
Prefer(d, r) == [role |-> r, options |-> d.options, mandated |-> d.mandated]
=============================================================================
