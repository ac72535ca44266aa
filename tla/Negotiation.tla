----------------------------- MODULE Negotiation -----------------------------
(***************************************************************************)
(* How the two ports of a connection come to their roles.                  *)
(*                                                                         *)
(* ChooseRoles is called once when the application connects its own port   *)
(* to an FPGA worker's (connectExternal), and once on each side when two   *)
(* workers' ports are connected through packed descriptors (Port::connect  *)
(* between containers), where the user's choice reaches the provider as a  *)
(* mandate.                                                                *)
(***************************************************************************)
EXTENDS Roles

CONSTANT
  DirectProviderPreferences   \* roles connectExternal may be asked of the provider

ASSUME NegotiationAssumption == DirectProviderPreferences \subseteq RealRole

\* The pairs connected in one step, and those that exchange descriptors (two
\* FPGA containers too: their connectLike does not override the base's, which
\* declines).
Direct == {<<"external", "rpl">>, <<"rpl", "external">>}
Handshake == {<<"rpl", "rpl">>, <<"rcc", "rpl">>, <<"rpl", "rcc">>, <<"rcc", "rcc">>}

VARIABLES
  kinds,      \* the kinds of the user and of the provider
  wish,       \* their roles once the connection's parameters are applied
  phase,      \* how far the connection has come
  user,       \* the user port's own descriptor
  provider,   \* the provider port's own descriptor
  info        \* the descriptor that travels between the two

vars == <<kinds, wish, phase, user, provider, info>>

Init ==
  /\ \/ /\ phase = "direct" /\ kinds \in Direct
        /\ wish \in [user : Wishes(kinds[1]),
                     provider : Wishes(kinds[2]) \cap
                                (DirectProviderPreferences \cup {"NoRole"})]
     \/ /\ phase = "unconnected" /\ kinds \in Handshake
        /\ wish \in [user : Wishes(kinds[1]), provider : Wishes(kinds[2])]
  /\ user = NewPort(kinds[1])
  /\ provider = NewPort(kinds[2])
  /\ info = provider

\* establishRoles: "make sure other side doesn't mess with roles anymore".
Settle(d, r) == [role |-> r, options |-> d.options, mandated |-> TRUE]

\* connectExternal and the constructor of ExternalPort: the FPGA worker's port
\* applies its parameters, the application's its own, and the roles are settled.
ConnectDirect ==
  LET u == Prefer(user, wish.user)
      p == Prefer(provider, wish.provider)
      c == ChooseRoles(u, p)
  IN /\ phase = "direct"
     /\ IF c = Refused
          THEN phase' = "refused" /\ user' = u /\ provider' = p
          ELSE /\ phase' = "connected"
               /\ user' = Settle(u, c.user)
               /\ provider' = Settle(p, c.provider)
     /\ UNCHANGED <<kinds, wish, info>>

\* getInitialProviderInfo.  An RCC input port creates its circuit here and
\* asserts its role, whatever was wished (Port::getPortDescriptor).
GetInitialProviderInfo ==
  /\ phase = "unconnected"
  /\ phase' = "offered"
  /\ provider' = IF kinds[2] = "rcc" THEN Settle(provider, "ActiveFlowControl")
                                     ELSE Prefer(provider, wish.provider)
  /\ info' = provider'
  /\ UNCHANGED <<kinds, wish, user>>

\* The descriptor with which the user answers.  That of an RCC output comes
\* from the transport, which fills in the mandate when it is to be pulled from
\* (getPortDescriptor), and otherwise no options at all: they are what the
\* memory held.
InitialUserInfo(u) ==
  IF kinds[1] = "rcc"
    THEN [role : {u.role}, options : SUBSET RealRole,
          mandated : IF u.role = "ActiveMessage" THEN BOOLEAN ELSE {TRUE}]
    ELSE {u}

\* setInitialProviderInfo: the user settles its role against the offer.
SetInitialProviderInfo ==
  LET u == Prefer(user, wish.user)
      c == ChooseRoles(u, info)
  IN /\ phase = "offered"
     /\ IF c = Refused
          THEN phase' = "refused" /\ user' = u /\ UNCHANGED info
          ELSE /\ phase' = "answered"
               /\ user' = Settle(u, c.user)
               /\ info' \in InitialUserInfo(user')
     /\ UNCHANGED <<kinds, wish, provider>>

\* setInitialUserInfo: the provider settles its own, unless it is an RCC port.
SetInitialUserInfo ==
  LET c == ChooseRoles(info, provider) IN
  /\ phase = "answered"
  /\ IF kinds[2] = "rcc"
       THEN phase' = "connected" /\ UNCHANGED provider
       ELSE IF c = Refused
         THEN phase' = "refused" /\ UNCHANGED provider
         ELSE phase' = "connected" /\ provider' = Settle(provider, c.provider)
  /\ UNCHANGED <<kinds, wish, user, info>>

Next == \/ ConnectDirect
        \/ GetInitialProviderInfo
        \/ SetInitialProviderInfo
        \/ SetInitialUserInfo

Spec == Init /\ [][Next]_vars

-----------------------------------------------------------------------------
(* Properties *)

Phase == {"direct", "unconnected", "offered", "answered", "connected", "refused"}

\* Every variable keeps the range the code gives it, and a mandate always has
\* a role (asserted in chooseRoles).
TypeOK ==
  /\ kinds \in Direct \cup Handshake
  /\ wish \in [user : Role, provider : Role]
  /\ phase \in Phase
  /\ \A d \in {user, provider, info} :
       d \in Descriptor /\ (d.mandated => d.role # "NoRole")

\* A connection ends with one side that moves the data and the other in the
\* role that fits, although the two may have settled their roles separately.
RolesFit ==
  phase = "connected" => user.role = Other(provider.role) /\ user.role # "NoRole"

\* No port is given a role it does not support.
RolesSupported ==
  phase = "connected" => user.role \in user.options /\ provider.role \in provider.options

\* Any two ports that the code connects have roles that fit, and negotiation
\* finds such a pair whatever was wished.
NeverRefused == phase # "refused"

\* A wish of one side alone comes true if the other side can follow it.
WishComesTrue ==
  phase = "connected" =>
    /\ wish.provider = "NoRole" /\ Other(wish.user) \in provider.options
         => user.role = wish.user
    /\ wish.user = "NoRole" /\ ~(kinds[2] = "rcc")
         /\ Other(wish.provider) \in user.options
         => provider.role = wish.provider
=============================================================================
