--------------------------- MODULE Services_proofs ---------------------------
(***************************************************************************)
(* Theorems about Services, for every value of the constants and every     *)
(* interleaving of the contracts. The batcher and the delegations have     *)
(* theorems of their own, which are carried over; those of the other four  *)
(* contracts are proved here, contract by contract.                        *)
(***************************************************************************)
EXTENDS Services, SeqLemmas

(* ------------------------ What each contract runs ---------------------- *)

\* No contract disturbs another, so each of them behaves as it would alone.
LEMMA BatcherRuns == Spec => Batcher!Spec
<1>1. Init => Batcher!Init
  BY DEF Init
<1>2. [Next]_vars => [Batcher!Next]_(Batcher!vars)
  <2>1. UNCHANGED batcher => UNCHANGED Batcher!vars
    BY DEF batcher, Batcher!vars, Batcher!storage
  <2>. QED  BY <2>1 DEF Next, vars, UseBatcher, UseDelegation, UseFactory, UseWalletRegistry,
                        UseRegistry, UseSpendingPolicy
<1>. QED  BY <1>1, <1>2, PTL DEF Spec, Batcher!Spec

LEMMA DelegationRuns == Spec => Delegation!Spec
<1>1. Init => Delegation!Init
  BY DEF Init
<1>2. [Next]_vars => [Delegation!Next]_(Delegation!vars)
  <2>1. UNCHANGED delegation => UNCHANGED Delegation!vars
    BY DEF delegation, Delegation!vars
  <2>. QED  BY <2>1 DEF Next, vars, UseBatcher, OthersOfBatcher, UseDelegation, UseFactory,
                        UseWalletRegistry, UseRegistry, UseSpendingPolicy
<1>. QED  BY <1>1, <1>2, PTL DEF Spec, Delegation!Spec

LEMMA FactoryRuns == Spec => Factory!Spec
<1>1. Init => Factory!Init
  BY DEF Init
<1>2. [Next]_vars => [Factory!Next]_(Factory!vars)
  <2>1. UNCHANGED factory => UNCHANGED Factory!vars
    BY DEF factory, Factory!vars
  <2>. QED  BY <2>1 DEF Next, vars, UseBatcher, OthersOfBatcher, UseDelegation, UseFactory,
                        UseWalletRegistry, UseRegistry, UseSpendingPolicy
<1>. QED  BY <1>1, <1>2, PTL DEF Spec, Factory!Spec

LEMMA WalletsRun == Spec => Wallets!Spec
<1>1. Init => Wallets!Init
  BY DEF Init
<1>2. [Next]_vars => [Wallets!Next]_(Wallets!vars)
  <2>1. UNCHANGED walletRegistry => UNCHANGED Wallets!vars
    BY DEF walletRegistry, Wallets!vars
  <2>. QED  BY <2>1 DEF Next, vars, UseBatcher, OthersOfBatcher, UseDelegation, UseFactory,
                        UseWalletRegistry, UseRegistry, UseSpendingPolicy
<1>. QED  BY <1>1, <1>2, PTL DEF Spec, Wallets!Spec

LEMMA VersionsRun == Spec => Versions!Spec
<1>1. Init => Versions!Init
  BY DEF Init
<1>2. [Next]_vars => [Versions!Next]_(Versions!vars)
  <2>1. UNCHANGED registry => UNCHANGED Versions!vars
    BY DEF registry, Versions!vars
  <2>. QED  BY <2>1 DEF Next, vars, UseBatcher, OthersOfBatcher, UseDelegation, UseFactory,
                        UseWalletRegistry, UseRegistry, UseSpendingPolicy
<1>. QED  BY <1>1, <1>2, PTL DEF Spec, Versions!Spec

LEMMA PoliciesRun == Spec => Policies!Spec
<1>1. Init => Policies!Init
  BY DEF Init
<1>2. [Next]_vars => [Policies!Next]_(Policies!vars)
  <2>1. UNCHANGED spendingPolicy => UNCHANGED Policies!vars
    BY DEF spendingPolicy, Policies!vars
  <2>. QED  BY <2>1 DEF Next, vars, UseBatcher, OthersOfBatcher, UseDelegation, UseFactory,
                        UseWalletRegistry, UseRegistry, UseSpendingPolicy
<1>. QED  BY <1>1, <1>2, PTL DEF Spec, Policies!Spec

(* --------------------------- Lists of names ---------------------------- *)

\* The registries list a name when it is used for the first time.
NamedIn(s, t, n, cap) ==
  \/ Contains(s, n) /\ t = s
  \/ ~Contains(s, n) /\ Len(s) < cap /\ t = Append(s, n)

\* A list is a prefix of itself and of what an entry is appended to.
LEMMA PrefixOfAppend ==
  ASSUME NEW S, NEW s \in Seq(S), NEW e \in S
  PROVE  IsPrefix(s, s) /\ IsPrefix(s, Append(s, e))
<1> DEFINE t == Append(s, e)
           n == Len(s)
<1>1. t \in Seq(S) /\ Len(t) = n + 1 /\ n \in Nat /\ \A i \in 1..n : t[i] = s[i]
  OBVIOUS
<1> HIDE DEF t
<1>2. SubSeq(s, 1, n) = SubSeq(t, 1, n)
  BY <1>1
<1>. QED  BY <1>1, <1>2 DEF IsPrefix

\* Naming lists the name once, at the end and within the cap, and takes no
\* other one off.
LEMMA NamedList ==
  ASSUME NEW S, NEW s \in Seq(S), NEW n \in S, NEW t, NEW cap \in Nat, NamedIn(s, t, n, cap)
  PROVE  /\ t \in Seq(S) /\ IsPrefix(s, t)
         /\ \A x : Contains(t, x) <=> Contains(s, x) \/ x = n
         /\ (\A x : OccursOnce(s, x)) => \A x : OccursOnce(t, x)
         /\ Len(s) <= cap => Len(t) <= cap
<1>1. CASE Contains(s, n) /\ t = s
  BY <1>1, PrefixOfAppend
<1>2. CASE ~Contains(s, n) /\ Len(s) < cap /\ t = Append(s, n)
  <2>1. /\ \A x : Contains(Append(s, n), x) <=> Contains(s, x) \/ x = n
        /\ (\A x : OccursOnce(s, x)) => \A x : OccursOnce(Append(s, n), x)
        /\ Len(Append(s, n)) = Len(s) + 1
    BY <1>2, AppendContains
  <2>2. Len(s) + 1 <= cap /\ Append(s, n) \in Seq(S)
    BY <1>2
  <2>3. IsPrefix(s, Append(s, n))
    BY PrefixOfAppend
  <2>. QED  BY <1>2, <2>1, <2>2, <2>3, Zenon
<1>. QED  BY <1>1, <1>2 DEF NamedIn

\* The length of a list without repetitions, which the contracts compare with a
\* cap, is the number of entries of the directory that it lists.
LEMMA ListedCount ==
  ASSUME NEW S, NEW s \in Seq(S), \A x : OccursOnce(s, x),
         NEW used, \A x \in S : x \in used <=> Contains(s, x), used \subseteq S
  PROVE  Cardinality(used) = Len(s)
<1>1. Cardinality(ToSet(s)) = Len(s) /\ \A x : x \in ToSet(s) <=> Contains(s, x)
  BY InjectiveOccursOnce, InjectiveCardinality, ToSetContains
<1>2. \A x : Contains(s, x) => x \in S
  BY DEF Contains
<1>3. ToSet(s) = used
  BY <1>1, <1>2
<1>. QED  BY <1>1, <1>3

\* Two directories that agree on all entries but one.
LEMMA OneEntry ==
  ASSUME NEW S, NEW T, NEW f, NEW g, NEW o \in S, NEW a \in T,
         f = [x \in S |-> [y \in T |-> f[x][y]]],
         g = [x \in S |-> [y \in T |-> g[x][y]]],
         \A x \in S, y \in T : x # o \/ y # a => g[x][y] = f[x][y]
  PROVE  g = [f EXCEPT ![o][a] = g[o][a]]
OBVIOUS

(* ------------------------- mux-wallet-registry ------------------------- *)

\* The community operators as the contract's module sees them.
LEMMA WalletOperators ==
  /\ \A s, e : Wallets!Contains(s, e) <=> Contains(s, e)
  /\ \A s : Wallets!IsInjective(s) <=> IsInjective(s)
  /\ \A s : Wallets!ToSet(s) = ToSet(s)
  /\ \A s, t : Wallets!IsPrefix(s, t) <=> IsPrefix(s, t)
BY DEF Wallets!Contains, Contains, Wallets!IsInjective, IsInjective,
       Wallets!ToSet, ToSet, Wallets!IsPrefix, IsPrefix

LEMMA WalletConstants == Absent \notin Owner \cup Wallet \cup Meta /\ MaxWallets \in Nat
BY ConstantsAreValid DEF Wallets!Assumptions

\* The list and the two kinds of records agree, and a contract that has no
\* owner yet has named nothing.
WalletsListed ==
  /\ \A n : OccursOnce(names, n)
  /\ \A n \in Name : Contains(names, n) <=> wallets[n] # Absent
  /\ \A n \in Name : wallet_metadata[n] # Absent => Contains(names, n)
  /\ Len(names) <= MaxWallets
  /\ owner = Absent => names = <<>>

WalletInv == Wallets!TypeOK /\ WalletsListed

\* Both ways of registering name the wallet, store it and touch no other.
LEMMA WalletRegistered ==
  ASSUME WalletInv, NEW n \in Name, NEW w \in Wallet,
         \/ Wallets!RegisterWallet(n, w)
         \/ \E m \in Meta : Wallets!RegisterWalletWithMetadata(n, w, m)
  PROVE  /\ owner # Absent /\ owner' = owner /\ wallet_signers' = {owner}
         /\ NamedIn(names, names', n, MaxWallets)
         /\ wallets' = [wallets EXCEPT ![n] = w] /\ wallets'[n] # Absent
         /\ wallet_metadata' \in [Name -> Meta \cup {Absent}]
         /\ \A x \in Name \ {n} : /\ wallets'[x] = wallets[x]
                                  /\ wallet_metadata'[x] = wallet_metadata[x]
<1>1. /\ owner # Absent /\ owner' = owner /\ wallet_signers' = {owner}
      /\ Wallets!Named(n) /\ wallets' = [wallets EXCEPT ![n] = w]
      /\ \/ wallet_metadata' = wallet_metadata
         \/ \E m \in Meta : wallet_metadata' = [wallet_metadata EXCEPT ![n] = m]
  BY DEF Wallets!RegisterWallet, Wallets!RegisterWalletWithMetadata, Wallets!RequireOwner
<1>2. NamedIn(names, names', n, MaxWallets)
  BY <1>1, WalletOperators DEF Wallets!Named, NamedIn
<1>. QED  BY <1>1, <1>2, WalletConstants DEF WalletInv, Wallets!TypeOK

LEMMA WalletInvStep ==
  ASSUME WalletInv, [Wallets!Next]_(Wallets!vars)
  PROVE  WalletInv'
<1>1. Wallets!TypeOK /\ WalletsListed /\ names \in Seq(Name)
  BY DEF WalletInv, Wallets!TypeOK
<1>2. ASSUME NEW o \in Owner, Wallets!Initialize(o)  PROVE WalletInv'
  <2>1. names' = names /\ owner' # Absent /\ UNCHANGED <<wallets, wallet_metadata>>
    BY <1>1, <1>2, WalletConstants DEF Wallets!Initialize, WalletsListed
  <2>2. Wallets!TypeOK'
    BY <1>1, <1>2, <2>1 DEF Wallets!Initialize, Wallets!TypeOK
  <2>. QED  BY <1>1, <2>1, <2>2, Zenon DEF WalletInv, WalletsListed
<1>3. ASSUME NEW n \in Name, NEW w \in Wallet,
             \/ Wallets!RegisterWallet(n, w)
             \/ \E m \in Meta : Wallets!RegisterWalletWithMetadata(n, w, m)
      PROVE  WalletInv'
  <2>1. /\ owner # Absent /\ owner' = owner /\ wallet_signers' = {owner}
        /\ NamedIn(names, names', n, MaxWallets)
        /\ wallets' = [wallets EXCEPT ![n] = w] /\ wallets'[n] # Absent
        /\ wallet_metadata' \in [Name -> Meta \cup {Absent}]
        /\ \A x \in Name \ {n} : /\ wallets'[x] = wallets[x]
                                 /\ wallet_metadata'[x] = wallet_metadata[x]
    BY <1>3, WalletRegistered
  <2>2. /\ names' \in Seq(Name)
        /\ \A x : Contains(names', x) <=> Contains(names, x) \/ x = n
        /\ \A x : OccursOnce(names', x)
        /\ Len(names') <= MaxWallets
    BY <1>1, <2>1, NamedList, WalletConstants DEF WalletsListed
  <2>3. Wallets!TypeOK'
    BY <1>1, <2>1, <2>2 DEF Wallets!TypeOK
  <2>4. WalletsListed'
    BY <1>1, <2>1, <2>2, Zenon DEF WalletsListed
  <2>. QED  BY <2>3, <2>4 DEF WalletInv
<1>4. CASE Wallets!Upgrade \/ UNCHANGED Wallets!vars
  <2>1. UNCHANGED <<owner, names, wallets, wallet_metadata>>
    BY <1>4 DEF Wallets!Upgrade, Wallets!vars
  <2>2. Wallets!TypeOK'
    BY <1>1, <1>4, <2>1 DEF Wallets!Upgrade, Wallets!RequireOwner, Wallets!vars, Wallets!TypeOK
  <2>. QED  BY <1>1, <2>1, <2>2, Zenon DEF WalletInv, WalletsListed
<1>. QED  BY <1>2, <1>3, <1>4 DEF Wallets!Next

\* The inductive invariant holds in every reachable state.
THEOREM WalletInvariance == Wallets!Spec => []WalletInv
<1>1. Wallets!Init => WalletInv
  <2> SUFFICES ASSUME Wallets!Init  PROVE WalletInv
    OBVIOUS
  <2>1. Wallets!TypeOK
    BY EmptySeq DEF Wallets!Init, Wallets!TypeOK
  <2>2. \A n : OccursOnce(<<>>, n) /\ ~Contains(<<>>, n)
    BY DEF OccursOnce, Contains
  <2>. QED  BY <2>1, <2>2, WalletConstants DEF Wallets!Init, WalletInv, WalletsListed
<1>2. WalletInv /\ [Wallets!Next]_(Wallets!vars) => WalletInv'
  BY WalletInvStep
<1>. QED  BY <1>1, <1>2, PTL DEF Wallets!Spec

\* The list names exactly the wallets that can be looked up, once each and
\* within the cap, and metadata belongs to listed names (register_wallet,
\* register_wallet_with_metadata).
THEOREM WalletsHold == Wallets!Spec => []Wallets!WalletsNamed
<1>1. WalletInv => Wallets!WalletsNamed
  <2> SUFFICES ASSUME WalletInv  PROVE Wallets!WalletsNamed
    OBVIOUS
  <2>1. names \in Seq(Name) /\ WalletsListed
    BY DEF WalletInv, Wallets!TypeOK
  <2>2. IsInjective(names) /\ ToSet(names) = {n \in Name : wallets[n] # Absent}
    <3>1. /\ IsInjective(names)
          /\ \A x : x \in ToSet(names) <=> Contains(names, x)
      BY <2>1, InjectiveOccursOnce, ToSetContains DEF WalletsListed
    <3>2. \A x : Contains(names, x) => x \in Name
      BY <2>1 DEF Contains
    <3>. QED  BY <2>1, <3>1, <3>2 DEF WalletsListed
  <2>. QED  BY <2>1, <2>2, WalletOperators DEF WalletsListed, Wallets!WalletsNamed
<1>. QED  BY <1>1, WalletInvariance, PTL

\* Names are never taken back, nothing changes without the owner's signature,
\* and only one name at a time does (require_owner).
THEOREM OwnersName == Wallets!Spec => Wallets!OwnerNames
<1> DEFINE Signed == /\ Wallets!IsPrefix(names, names')
                     /\ owner # Absent => owner' = owner
                     /\ \A n \in Name : Wallets!Entry(n)' # Wallets!Entry(n) =>
                          /\ wallet_signers' = {owner}
                          /\ Wallets!Contains(names', n)
                          /\ \A m \in Name \ {n} : UNCHANGED Wallets!Entry(m)
<1>1. ASSUME WalletInv, [Wallets!Next]_(Wallets!vars)
      PROVE  Signed
  <2>1. WalletsListed /\ names \in Seq(Name) /\ IsPrefix(names, names)
    <3>1. names \in Seq(Name)
      BY <1>1 DEF WalletInv, Wallets!TypeOK
    <3>. QED  BY <1>1, <3>1 DEF WalletInv, IsPrefix
  <2>2. ASSUME UNCHANGED <<names, wallets, wallet_metadata>>, owner # Absent => owner' = owner
        PROVE  Signed
    BY <2>1, <2>2, WalletOperators DEF Wallets!Entry
  <2>3. ASSUME NEW o \in Owner, Wallets!Initialize(o)  PROVE Signed
    <3>1. names' = names /\ owner = Absent /\ UNCHANGED <<wallets, wallet_metadata>>
      BY <2>1, <2>3 DEF Wallets!Initialize, WalletsListed
    <3>. QED  BY <2>2, <3>1
  <2>4. ASSUME NEW n \in Name, NEW w \in Wallet,
               \/ Wallets!RegisterWallet(n, w)
               \/ \E m \in Meta : Wallets!RegisterWalletWithMetadata(n, w, m)
        PROVE  Signed
    <3>1. /\ owner' = owner /\ wallet_signers' = {owner}
          /\ NamedIn(names, names', n, MaxWallets)
          /\ \A x \in Name \ {n} : UNCHANGED Wallets!Entry(x)
      BY <1>1, <2>4, WalletRegistered DEF Wallets!Entry
    <3>2. IsPrefix(names, names') /\ Contains(names', n)
      BY <2>1, <3>1, NamedList, WalletConstants
    <3>. QED  BY <3>1, <3>2, WalletOperators, Zenon
  <2>5. CASE Wallets!Upgrade \/ UNCHANGED Wallets!vars
    BY <2>2, <2>5 DEF Wallets!Upgrade, Wallets!vars
  <2>. QED  BY <1>1, <2>3, <2>4, <2>5, Zenon DEF Wallets!Next
<1>. QED  BY <1>1, WalletInvariance, PTL DEF Wallets!Spec, Wallets!OwnerNames

\* The named wallets and their descriptions are a directory bounded by the
\* cap: the length of the list, which the code tests, is the number of names in
\* use.
THEOREM WalletsAreDirectory == Wallets!Spec => Wallets!WalletsImplementDirectory
<1> DEFINE stored == [h \in {"owner"} |-> [n \in Name |-> Wallets!Entry(n)]]
           used == Wallets!Wallets!Used("owner")
<1>1. Wallets!Init => Wallets!Wallets!Init
  BY DEF Wallets!Init, Wallets!Wallets!Init, Wallets!Entry
<1>2. ASSUME WalletInv, NEW n \in Name, NEW w \in Wallet,
             \/ Wallets!RegisterWallet(n, w)
             \/ \E m \in Meta : Wallets!RegisterWalletWithMetadata(n, w, m)
      PROVE  Wallets!Wallets!Next
  <2>1. names \in Seq(Name) /\ WalletsListed /\ Wallets!TypeOK
    BY <1>2 DEF WalletInv, Wallets!TypeOK
  <2>2. /\ NamedIn(names, names', n, MaxWallets) /\ wallets'[n] # Absent
        /\ \A x \in Name \ {n} : Wallets!Entry(x)' = Wallets!Entry(x)
    BY <1>2, WalletRegistered DEF Wallets!Entry
  <2>3. Cardinality(used) = Len(names) /\ \A x \in Name : x \in used <=> Contains(names, x)
    <3>1. used \subseteq Name /\ \A x \in Name : x \in used <=> Contains(names, x)
      BY <2>1 DEF WalletsListed, Wallets!Wallets!Used, Wallets!Entry
    <3>. QED  BY <2>1, <3>1, ListedCount DEF WalletsListed
  <2>4. n \in used \/ Cardinality(used) < MaxWallets
    BY <2>2, <2>3 DEF NamedIn
  <2>5. /\ stored' = [stored EXCEPT !["owner"][n] = stored'["owner"][n]]
        /\ stored'["owner"][n] # <<Absent, Absent>>
    BY <2>2 DEF Wallets!Entry
  <2>6. Wallets!Wallets!Put("owner", n)
    BY <2>4, <2>5, Zenon
    DEF Wallets!Wallets!Put, Wallets!Wallets!Cardinality, Cardinality
  <2>. QED  BY <2>6 DEF Wallets!Wallets!Next
<1>3. ASSUME WalletInv, [Wallets!Next]_(Wallets!vars)
      PROVE  Wallets!Wallets!Next \/ UNCHANGED stored
  <2>1. CASE UNCHANGED <<wallets, wallet_metadata>>
    BY <2>1 DEF Wallets!Entry
  <2>. QED
    BY <1>2, <1>3, <2>1, Zenon DEF Wallets!Next, Wallets!vars, Wallets!Initialize, Wallets!Upgrade
<1>. QED
  BY <1>1, <1>3, WalletInvariance, PTL
  DEF Wallets!Spec, Wallets!WalletsImplementDirectory, Wallets!Wallets!Spec

(* ----------------------------- mux-registry ---------------------------- *)

\* The community operators as the contract's module sees them.
LEMMA VersionOperators ==
  /\ \A s, e : Versions!Contains(s, e) <=> Contains(s, e)
  /\ \A s : Versions!IsInjective(s) <=> IsInjective(s)
  /\ \A s : Versions!ToSet(s) = ToSet(s)
  /\ \A s, t : Versions!IsPrefix(s, t) <=> IsPrefix(s, t)
BY DEF Versions!Contains, Contains, Versions!IsInjective, IsInjective,
       Versions!ToSet, ToSet, Versions!IsPrefix, IsPrefix

LEMMA VersionConstants ==
  Absent \notin Admin \cup Version \cup Versions!ContractMetadata /\ MaxContracts \in Nat
BY ConstantsAreValid DEF Versions!Assumptions

\* The list and the two kinds of records agree, and a contract that has no
\* admin yet has registered nothing.
VersionsListed ==
  /\ \A n : OccursOnce(contract_names, n)
  /\ \A n \in Name : Contains(contract_names, n) <=> versions[n] # Absent
  /\ \A n \in Name : contract_metadata[n] # Absent => Contains(contract_names, n)
  /\ Len(contract_names) <= MaxContracts
  /\ registry_admin = Absent => contract_names = <<>>

VersionInv == Versions!TypeOK /\ VersionsListed

\* Both ways of registering name the contract, store its version and touch no
\* other; metadata is stored with the version.
LEMMA VersionRegistered ==
  ASSUME VersionInv, NEW n \in Name, NEW v \in Version,
         \/ Versions!Register(n, v)
         \/ \E m \in Meta : Versions!RegisterWithMetadata(n, v, m)
  PROVE  /\ registry_admin # Absent /\ registry_admin' = registry_admin
         /\ registry_signers' = {registry_admin}
         /\ NamedIn(contract_names, contract_names', n, MaxContracts)
         /\ versions' = [versions EXCEPT ![n] = v] /\ versions'[n] # Absent
         /\ contract_metadata' \in [Name -> Versions!ContractMetadata \cup {Absent}]
         /\ contract_metadata'[n] # contract_metadata[n] =>
              contract_metadata'[n].version = versions'[n]
         /\ \A x \in Name \ {n} : /\ versions'[x] = versions[x]
                                  /\ contract_metadata'[x] = contract_metadata[x]
<1>1. /\ registry_admin # Absent /\ registry_admin' = registry_admin
      /\ registry_signers' = {registry_admin}
      /\ Versions!Named(n) /\ versions' = [versions EXCEPT ![n] = v]
      /\ \/ contract_metadata' = contract_metadata
         \/ \E m \in Meta : contract_metadata' =
                              [contract_metadata EXCEPT ![n] = [version |-> v, about |-> m]]
  BY DEF Versions!Register, Versions!RegisterWithMetadata, Versions!RequireAdmin
<1>2. NamedIn(contract_names, contract_names', n, MaxContracts)
  BY <1>1, VersionOperators DEF Versions!Named, NamedIn
<1>3. /\ contract_metadata' \in [Name -> Versions!ContractMetadata \cup {Absent}]
      /\ contract_metadata'[n] # contract_metadata[n] => contract_metadata'[n].version = v
      /\ \A x \in Name \ {n} : contract_metadata'[x] = contract_metadata[x]
  <2>1. contract_metadata \in [Name -> Versions!ContractMetadata \cup {Absent}]
    BY DEF VersionInv, Versions!TypeOK
  <2>2. \A m \in Meta : [version |-> v, about |-> m] \in Versions!ContractMetadata
    BY DEF Versions!ContractMetadata
  <2>. QED  BY <1>1, <2>1, <2>2
<1>4. /\ versions'[n] = v /\ v # Absent
      /\ \A x \in Name \ {n} : versions'[x] = versions[x]
  BY <1>1, VersionConstants DEF VersionInv, Versions!TypeOK
<1>. QED  BY <1>1, <1>2, <1>3, <1>4, Zenon

LEMMA VersionInvStep ==
  ASSUME VersionInv, [Versions!Next]_(Versions!vars)
  PROVE  VersionInv'
<1>1. Versions!TypeOK /\ VersionsListed /\ contract_names \in Seq(Name)
  BY DEF VersionInv, Versions!TypeOK
<1>2. ASSUME NEW a \in Admin, Versions!Initialize(a)  PROVE VersionInv'
  <2>1. /\ contract_names' = contract_names /\ registry_admin' # Absent
        /\ UNCHANGED <<versions, contract_metadata>>
    BY <1>1, <1>2, VersionConstants DEF Versions!Initialize, VersionsListed
  <2>2. Versions!TypeOK'
    BY <1>1, <1>2, <2>1 DEF Versions!Initialize, Versions!TypeOK
  <2>. QED  BY <1>1, <2>1, <2>2, Zenon DEF VersionInv, VersionsListed
<1>3. ASSUME NEW n \in Name, NEW v \in Version,
             \/ Versions!Register(n, v)
             \/ \E m \in Meta : Versions!RegisterWithMetadata(n, v, m)
      PROVE  VersionInv'
  <2>1. /\ registry_admin # Absent /\ registry_admin' = registry_admin
        /\ registry_signers' = {registry_admin}
        /\ NamedIn(contract_names, contract_names', n, MaxContracts)
        /\ versions' = [versions EXCEPT ![n] = v] /\ versions'[n] # Absent
        /\ contract_metadata' \in [Name -> Versions!ContractMetadata \cup {Absent}]
        /\ \A x \in Name \ {n} : /\ versions'[x] = versions[x]
                                 /\ contract_metadata'[x] = contract_metadata[x]
    BY <1>3, VersionRegistered, Zenon
  <2>2. /\ contract_names' \in Seq(Name)
        /\ \A x : Contains(contract_names', x) <=> Contains(contract_names, x) \/ x = n
        /\ \A x : OccursOnce(contract_names', x)
        /\ Len(contract_names') <= MaxContracts
    BY <1>1, <2>1, NamedList, VersionConstants DEF VersionsListed
  <2>3. Versions!TypeOK'
    BY <1>1, <2>1, <2>2 DEF Versions!TypeOK
  <2>4. VersionsListed'
    BY <1>1, <2>1, <2>2, Zenon DEF VersionsListed
  <2>. QED  BY <2>3, <2>4 DEF VersionInv
<1>4. CASE Versions!Upgrade \/ UNCHANGED Versions!vars
  <2>1. UNCHANGED <<registry_admin, contract_names, versions, contract_metadata>>
    BY <1>4 DEF Versions!Upgrade, Versions!vars
  <2>2. Versions!TypeOK'
    BY <1>1, <1>4, <2>1
    DEF Versions!Upgrade, Versions!RequireAdmin, Versions!vars, Versions!TypeOK
  <2>. QED  BY <1>1, <2>1, <2>2, Zenon DEF VersionInv, VersionsListed
<1>. QED  BY <1>2, <1>3, <1>4 DEF Versions!Next

\* The inductive invariant holds in every reachable state.
THEOREM VersionInvariance == Versions!Spec => []VersionInv
<1>1. Versions!Init => VersionInv
  <2> SUFFICES ASSUME Versions!Init  PROVE VersionInv
    OBVIOUS
  <2>1. Versions!TypeOK
    BY EmptySeq DEF Versions!Init, Versions!TypeOK
  <2>2. \A n : OccursOnce(<<>>, n) /\ ~Contains(<<>>, n)
    BY DEF OccursOnce, Contains
  <2>. QED  BY <2>1, <2>2, VersionConstants DEF Versions!Init, VersionInv, VersionsListed
<1>2. VersionInv /\ [Versions!Next]_(Versions!vars) => VersionInv'
  BY VersionInvStep
<1>. QED  BY <1>1, <1>2, PTL DEF Versions!Spec

\* list_contracts names exactly the contracts that have a version, once each
\* and within the cap, and only those have metadata (register,
\* register_with_metadata).
THEOREM ContractsHold == Versions!Spec => []Versions!ContractsNamed
<1>1. VersionInv => Versions!ContractsNamed
  <2> SUFFICES ASSUME VersionInv  PROVE Versions!ContractsNamed
    OBVIOUS
  <2>1. contract_names \in Seq(Name) /\ VersionsListed
    BY DEF VersionInv, Versions!TypeOK
  <2>2. /\ IsInjective(contract_names)
        /\ ToSet(contract_names) = {n \in Name : versions[n] # Absent}
    <3>1. /\ IsInjective(contract_names)
          /\ \A x : x \in ToSet(contract_names) <=> Contains(contract_names, x)
      BY <2>1, InjectiveOccursOnce, ToSetContains DEF VersionsListed
    <3>2. \A x : Contains(contract_names, x) => x \in Name
      BY <2>1 DEF Contains
    <3>. QED  BY <2>1, <3>1, <3>2 DEF VersionsListed
  <2>. QED  BY <2>1, <2>2, VersionOperators DEF VersionsListed, Versions!ContractsNamed
<1>. QED  BY <1>1, VersionInvariance, PTL

\* Nothing is registered without the admin's signature, names are never taken
\* back, and metadata is stored with the version it speaks of (register,
\* register_with_metadata).
THEOREM AdminsRegister == Versions!Spec => Versions!AdminRegisters
<1> DEFINE records == <<contract_names, versions, contract_metadata>>
           Signed == /\ Versions!IsPrefix(contract_names, contract_names')
                     /\ records' # records => registry_signers' = {registry_admin}
                     /\ \A n \in Name : contract_metadata'[n] # contract_metadata[n] =>
                          contract_metadata'[n].version = versions'[n]
<1>1. ASSUME VersionInv, [Versions!Next]_(Versions!vars)
      PROVE  Signed
  <2>1. /\ VersionsListed /\ contract_names \in Seq(Name)
        /\ IsPrefix(contract_names, contract_names)
    <3>1. contract_names \in Seq(Name)
      BY <1>1 DEF VersionInv, Versions!TypeOK
    <3>. QED  BY <1>1, <3>1 DEF VersionInv, IsPrefix
  <2>2. ASSUME UNCHANGED records  PROVE Signed
    BY <2>1, <2>2, VersionOperators
  <2>3. ASSUME NEW a \in Admin, Versions!Initialize(a)  PROVE Signed
    <3>1. UNCHANGED records
      BY <2>1, <2>3 DEF Versions!Initialize, VersionsListed
    <3>. QED  BY <2>2, <3>1
  <2>4. ASSUME NEW n \in Name, NEW v \in Version,
               \/ Versions!Register(n, v)
               \/ \E m \in Meta : Versions!RegisterWithMetadata(n, v, m)
        PROVE  Signed
    <3>1. /\ registry_signers' = {registry_admin}
          /\ NamedIn(contract_names, contract_names', n, MaxContracts)
          /\ contract_metadata'[n] # contract_metadata[n] =>
               contract_metadata'[n].version = versions'[n]
          /\ \A x \in Name \ {n} : contract_metadata'[x] = contract_metadata[x]
      BY <1>1, <2>4, VersionRegistered, Zenon
    <3>2. IsPrefix(contract_names, contract_names')
      BY <2>1, <3>1, NamedList, VersionConstants
    <3>. QED  BY <3>1, <3>2, VersionOperators, Zenon
  <2>5. CASE Versions!Upgrade \/ UNCHANGED Versions!vars
    BY <2>2, <2>5 DEF Versions!Upgrade, Versions!vars
  <2>. QED  BY <1>1, <2>3, <2>4, <2>5, Zenon DEF Versions!Next
<1>. QED  BY <1>1, VersionInvariance, PTL DEF Versions!Spec, Versions!AdminRegisters

\* The registered contracts with their metadata are a directory bounded by the
\* cap, although the cap is applied to the list and the records are kept apart.
THEOREM ContractsAreDirectory == Versions!Spec => Versions!ContractsImplementDirectory
<1> DEFINE entry(n) == <<versions[n], contract_metadata[n]>>
           stored == [h \in {"admin"} |-> [n \in Name |-> entry(n)]]
           used == Versions!Contracts!Used("admin")
<1>1. Versions!Init => Versions!Contracts!Init
  BY DEF Versions!Init, Versions!Contracts!Init
<1>2. ASSUME VersionInv, NEW n \in Name, NEW v \in Version,
             \/ Versions!Register(n, v)
             \/ \E m \in Meta : Versions!RegisterWithMetadata(n, v, m)
      PROVE  Versions!Contracts!Next
  <2>1. contract_names \in Seq(Name) /\ VersionsListed
    BY <1>2 DEF VersionInv, Versions!TypeOK
  <2>2. /\ NamedIn(contract_names, contract_names', n, MaxContracts) /\ versions'[n] # Absent
        /\ \A x \in Name \ {n} : UNCHANGED entry(x)
    BY <1>2, VersionRegistered
  <2>3. Cardinality(used) = Len(contract_names)
        /\ \A x \in Name : x \in used <=> Contains(contract_names, x)
    <3>1. used \subseteq Name /\ \A x \in Name : x \in used <=> Contains(contract_names, x)
      BY <2>1 DEF VersionsListed, Versions!Contracts!Used
    <3>. QED  BY <2>1, <3>1, ListedCount DEF VersionsListed
  <2>4. n \in used \/ Cardinality(used) < MaxContracts
    BY <2>2, <2>3 DEF NamedIn
  <2>5. /\ stored' = [stored EXCEPT !["admin"][n] = stored'["admin"][n]]
        /\ stored'["admin"][n] # <<Absent, Absent>>
    BY <2>2
  <2>6. Versions!Contracts!Put("admin", n)
    BY <2>4, <2>5, Zenon
    DEF Versions!Contracts!Put, Versions!Contracts!Cardinality, Cardinality
  <2>. QED  BY <2>6 DEF Versions!Contracts!Next
<1>3. ASSUME VersionInv, [Versions!Next]_(Versions!vars)
      PROVE  Versions!Contracts!Next \/ UNCHANGED stored
  <2>1. CASE UNCHANGED <<versions, contract_metadata>>
    BY <2>1
  <2>. QED
    BY <1>2, <1>3, <2>1, Zenon
    DEF Versions!Next, Versions!vars, Versions!Initialize, Versions!Upgrade
<1>. QED
  BY <1>1, <1>3, VersionInvariance, PTL
  DEF Versions!Spec, Versions!ContractsImplementDirectory, Versions!Contracts!Spec

(* -------------------------- mux-spending-policy ------------------------ *)

LEMMA PolicyConstants ==
  /\ Absent \notin Admin /\ Absent \notin Policies!SpendLimit
  /\ Limits \subseteq Int /\ Periods \subseteq Nat /\ Spends \subseteq Int
  /\ MaxLedger \in Nat
BY ConstantsAreValid DEF Policies!Assumptions

\* The amounts of log were approved on ledger l under policy p.
Allowed(p, log, l) ==
  log # <<>> => /\ p # Absent
                /\ p.reset_ledger <= l
                /\ \A i \in 1..Len(log) : log[i] \in 0..p.limit

\* No window starts later than now, so that a check that says Ok never comes
\* before the window of its policy.
PolicyInv ==
  /\ Policies!TypeOK
  /\ \A a \in Account, t \in Asset :
       /\ policies[a][t] # Absent => policies[a][t].reset_ledger <= sequence
       /\ \A l \in 0..MaxLedger : Allowed(policies[a][t], approved[a][t][l], l)

\* A new policy is typed and starts now.
LEMMA PolicySet ==
  ASSUME Policies!TypeOK, NEW a \in Account, NEW t \in Asset, NEW n \in Limits, NEW d \in Periods,
         Policies!SetPolicy(a, t, n, d)
  PROVE  /\ Policies!NewPolicy(a, t, n, d) \in Policies!SpendLimit
         /\ Policies!NewPolicy(a, t, n, d).spent = 0
         /\ Policies!NewPolicy(a, t, n, d).reset_ledger = sequence
         /\ policies' = [policies EXCEPT ![a][t] = Policies!NewPolicy(a, t, n, d)]
         /\ policies'[a][t] = Policies!NewPolicy(a, t, n, d)
         /\ \A b \in Account, u \in Asset : b # a \/ u # t => policies'[b][u] = policies[b][u]
         /\ policies' \in [Account -> [Asset -> Policies!SpendLimit \cup {Absent}]]
<1>. PICK p : p = Policies!NewPolicy(a, t, n, d)
  OBVIOUS
<1>1. n \in Nat /\ d \in Nat \ {0} /\ sequence \in 0..MaxLedger
  BY PolicyConstants DEF Policies!SetPolicy, Policies!ValidTerms, Policies!TypeOK
<1>2. p \in Policies!SpendLimit /\ p.spent = 0 /\ p.reset_ledger = sequence
  BY <1>1 DEF Policies!NewPolicy, Policies!SpendLimit
<1>3. policies' = [policies EXCEPT ![a][t] = p]
  BY DEF Policies!SetPolicy
<1>4. policies \in [Account -> [Asset -> Policies!SpendLimit \cup {Absent}]]
  BY DEF Policies!TypeOK
<1>5. policies[a] \in [Asset -> Policies!SpendLimit \cup {Absent}]
  BY <1>4
<1>6. policies'[a][t] = p /\ policies'[a] \in [Asset -> Policies!SpendLimit \cup {Absent}]
  BY <1>2, <1>3, <1>4, <1>5
<1>7. policies' \in [Account -> [Asset -> Policies!SpendLimit \cup {Absent}]]
  BY <1>3, <1>4, <1>6
<1>8. \A b \in Account, u \in Asset : b # a \/ u # t => policies'[b][u] = policies[b][u]
  BY <1>3, <1>4, <1>5
<1>. QED  BY <1>2, <1>3, <1>6, <1>7, <1>8

\* The log of a ledger.
LEMMA ApprovedLog ==
  ASSUME approved \in [Account -> [Asset -> [0..MaxLedger -> Seq(Nat)]]],
         NEW a \in Account, NEW t \in Asset, NEW l \in 0..MaxLedger
  PROVE  approved[a][t][l] \in Seq(Nat)
<1>1. approved[a] \in [Asset -> [0..MaxLedger -> Seq(Nat)]]
  OBVIOUS
<1>2. approved[a][t] \in [0..MaxLedger -> Seq(Nat)]
  BY <1>1
<1>. QED  BY <1>2

\* A check that says Ok appends an amount within the policy to the log of the
\* current ledger.
LEMMA SpendChecked ==
  ASSUME Policies!TypeOK, NEW a \in Account, NEW t \in Asset, NEW x \in Spends,
         Policies!CheckSpend(a, t, x)
  PROVE  /\ policies[a][t] # Absent /\ policies[a][t].limit \in Nat /\ x \in 0..policies[a][t].limit
         /\ approved'[a][t][sequence] = Append(approved[a][t][sequence], x)
         /\ \A b \in Account, u \in Asset, l \in 0..MaxLedger :
              b # a \/ u # t \/ l # sequence => approved'[b][u][l] = approved[b][u][l]
         /\ approved' \in [Account -> [Asset -> [0..MaxLedger -> Seq(Nat)]]]
<1>1. policies[a][t] \in Policies!SpendLimit
  BY DEF Policies!CheckSpend, Policies!WithinPolicy, Policies!TypeOK
<1>2. /\ policies[a][t] # Absent /\ policies[a][t].limit \in Nat
      /\ x \in 0..policies[a][t].limit
  <2>1. policies[a][t].limit \in Nat
    BY <1>1 DEF Policies!SpendLimit
  <2>2. policies[a][t] # Absent /\ x >= 0 /\ x <= policies[a][t].limit /\ x \in Int
    BY PolicyConstants DEF Policies!CheckSpend, Policies!WithinPolicy
  <2>. QED  BY <2>1, <2>2
<1>3. /\ approved \in [Account -> [Asset -> [0..MaxLedger -> Seq(Nat)]]]
      /\ sequence \in 0..MaxLedger /\ x \in Nat
  BY <1>2 DEF Policies!TypeOK
<1>. PICK log : log = Append(approved[a][t][sequence], x)
  OBVIOUS
<1>4. log \in Seq(Nat)
  <2>. PICK before \in Seq(Nat) : before = approved[a][t][sequence]
    BY <1>3, ApprovedLog
  <2>1. log = Append(before, x)
    OBVIOUS
  <2>. QED  BY <1>3, <2>1
<1>5. approved' = [approved EXCEPT ![a][t][sequence] = log]
  BY DEF Policies!CheckSpend
<1>6. /\ approved[a] \in [Asset -> [0..MaxLedger -> Seq(Nat)]]
      /\ approved[a][t] \in [0..MaxLedger -> Seq(Nat)]
  <2>1. approved[a] \in [Asset -> [0..MaxLedger -> Seq(Nat)]]
    BY <1>3
  <2>. QED  BY <2>1
<1>. PICK logs : logs = [approved[a][t] EXCEPT ![sequence] = log]
  OBVIOUS
<1>7. /\ logs \in [0..MaxLedger -> Seq(Nat)] /\ logs[sequence] = log
      /\ \A l \in 0..MaxLedger : l # sequence => logs[l] = approved[a][t][l]
  BY <1>3, <1>4, <1>6
<1>8. approved' = [approved EXCEPT ![a][t] = logs]
  BY <1>5
<1>9. /\ approved'[a][t] = logs
      /\ \A b \in Account, u \in Asset : b # a \/ u # t => approved'[b][u] = approved[b][u]
      /\ approved' \in [Account -> [Asset -> [0..MaxLedger -> Seq(Nat)]]]
  BY <1>3, <1>6, <1>7, <1>8
<1>10. approved'[a][t][sequence] = Append(approved[a][t][sequence], x)
  BY <1>7, <1>9
<1>11. ASSUME NEW b \in Account, NEW u \in Asset, NEW l \in 0..MaxLedger,
              b # a \/ u # t \/ l # sequence
       PROVE  approved'[b][u][l] = approved[b][u][l]
  <2>1. CASE b # a \/ u # t
    <3>1. approved'[b][u] = approved[b][u]
      BY <1>9, <2>1
    <3>. QED  BY <3>1
  <2>2. CASE b = a /\ u = t
    <3>1. logs[l] = approved[a][t][l]
      BY <1>7, <1>11, <2>2
    <3>. QED  BY <1>9, <2>2, <3>1
  <2>. QED  BY <2>1, <2>2
<1>. QED  BY <1>2, <1>9, <1>10, <1>11

LEMMA PolicyInvStep ==
  ASSUME PolicyInv, [Policies!Next]_(Policies!vars)
  PROVE  PolicyInv'
<1>1. /\ Policies!TypeOK
      /\ policies \in [Account -> [Asset -> Policies!SpendLimit \cup {Absent}]]
      /\ approved \in [Account -> [Asset -> [0..MaxLedger -> Seq(Nat)]]]
      /\ sequence \in 0..MaxLedger
  BY DEF PolicyInv, Policies!TypeOK
<1>2. ASSUME UNCHANGED <<policies, approved>>, sequence' \in sequence..MaxLedger,
             policy_admin' \in Admin \cup {Absent}, policy_signers' \subseteq Admin \cup {Absent}
      PROVE  PolicyInv'
  <2>1. Policies!TypeOK'
    BY <1>1, <1>2 DEF Policies!TypeOK
  <2>2. ASSUME NEW a \in Account, NEW t \in Asset, policies[a][t] # Absent
        PROVE  policies[a][t].reset_ledger <= sequence'
    <3>1. policies[a][t] \in Policies!SpendLimit /\ policies[a][t].reset_ledger <= sequence
      BY <1>1, <2>2 DEF PolicyInv
    <3>. QED  BY <1>1, <1>2, <3>1 DEF Policies!SpendLimit
  <2>. QED  BY <1>2, <2>1, <2>2 DEF PolicyInv
<1>3. CASE \/ \E a \in Admin : Policies!Initialize(a)
           \/ Policies!Upgrade \/ Policies!CloseLedger \/ UNCHANGED Policies!vars
  BY <1>1, <1>2, <1>3, PolicyConstants
  DEF Policies!Initialize, Policies!Upgrade, Policies!RequireAdmin, Policies!CloseLedger,
      Policies!vars, Policies!TypeOK
<1>4. ASSUME NEW a \in Account, NEW t \in Asset, NEW n \in Limits, NEW d \in Periods,
             Policies!SetPolicy(a, t, n, d)
      PROVE  PolicyInv'
  <2>1. /\ policies'[a][t].reset_ledger = sequence
        /\ \A b \in Account, u \in Asset : b # a \/ u # t => policies'[b][u] = policies[b][u]
        /\ policies' \in [Account -> [Asset -> Policies!SpendLimit \cup {Absent}]]
    BY <1>1, <1>4, PolicySet
  <2>2. /\ approved'[a][t] = Policies!Nothing
        /\ \A b \in Account, u \in Asset : b # a \/ u # t => approved'[b][u] = approved[b][u]
        /\ approved' \in [Account -> [Asset -> [0..MaxLedger -> Seq(Nat)]]]
    <3>1. Policies!Nothing \in [0..MaxLedger -> Seq(Nat)]
      BY EmptySeq DEF Policies!Nothing
    <3>2. approved' = [approved EXCEPT ![a][t] = Policies!Nothing]
      BY <1>4 DEF Policies!SetPolicy
    <3>. QED  BY <1>1, <3>1, <3>2
  <2>3. /\ sequence' = sequence /\ policy_admin' = policy_admin /\ policy_admin # Absent
        /\ policy_signers' = {policy_admin}
    BY <1>4 DEF Policies!SetPolicy, Policies!RequireAdmin
  <2>4. Policies!TypeOK'
    BY <1>1, <2>1, <2>2, <2>3 DEF Policies!TypeOK
  <2>5. ASSUME NEW b \in Account, NEW u \in Asset
        PROVE  /\ policies'[b][u] # Absent => policies'[b][u].reset_ledger <= sequence'
               /\ \A l \in 0..MaxLedger : Allowed(policies'[b][u], approved'[b][u][l], l)
    <3>1. CASE b = a /\ u = t
      <4>1. policies'[a][t].reset_ledger <= sequence'
        BY <1>1, <2>1, <2>3
      <4>2. \A l \in 0..MaxLedger : approved'[a][t][l] = <<>>
        BY <2>2 DEF Policies!Nothing
      <4>. QED  BY <3>1, <4>1, <4>2 DEF Allowed
    <3>2. CASE b # a \/ u # t
      BY <2>1, <2>2, <2>3, <3>2 DEF PolicyInv
    <3>. QED  BY <3>1, <3>2
  <2>. QED  BY <2>4, <2>5 DEF PolicyInv
<1>5. ASSUME NEW a \in Account, NEW t \in Asset, NEW x \in Spends,
             Policies!CheckSpend(a, t, x)
      PROVE  PolicyInv'
  <2>1. /\ policies[a][t] # Absent /\ policies[a][t].limit \in Nat /\ x \in 0..policies[a][t].limit
        /\ approved'[a][t][sequence] = Append(approved[a][t][sequence], x)
        /\ \A b \in Account, u \in Asset, l \in 0..MaxLedger :
             b # a \/ u # t \/ l # sequence => approved'[b][u][l] = approved[b][u][l]
        /\ approved' \in [Account -> [Asset -> [0..MaxLedger -> Seq(Nat)]]]
    BY <1>1, <1>5, SpendChecked
  <2>2. /\ UNCHANGED <<policy_admin, policies, sequence>> /\ policy_signers' = {}
    BY <1>5 DEF Policies!CheckSpend
  <2>3. Policies!TypeOK'
    BY <1>1, <2>1, <2>2 DEF Policies!TypeOK
  <2>4. ASSUME NEW b \in Account, NEW u \in Asset, NEW l \in 0..MaxLedger
        PROVE  Allowed(policies[b][u], approved'[b][u][l], l)
    <3>1. CASE b = a /\ u = t /\ l = sequence
      <4>. PICK log \in Seq(Nat) : log = approved[a][t][sequence]
        BY <1>1, ApprovedLog
      <4>1. Allowed(policies[a][t], log, sequence) /\ policies[a][t].reset_ledger <= sequence
        BY <1>1, <2>1 DEF PolicyInv
      <4>2. \A i \in 1..Len(Append(log, x)) : Append(log, x)[i] \in 0..policies[a][t].limit
        <5> SUFFICES ASSUME NEW i \in 1..(Len(log) + 1)
                     PROVE  Append(log, x)[i] \in 0..policies[a][t].limit
          <6>1. x \in Nat
            BY <2>1
          <6>2. Len(Append(log, x)) = Len(log) + 1
            BY <6>1
          <6>. QED  BY <6>2
        <5>1. CASE i = Len(log) + 1
          <6>1. x \in Nat
            BY <2>1
          <6>2. Append(log, x)[Len(log) + 1] = x
            BY <6>1
          <6>. QED  BY <2>1, <5>1, <6>2
        <5>2. CASE i \in 1..Len(log)
          <6>1. log # <<>> /\ Append(log, x)[i] = log[i]
            BY <2>1, <5>2
          <6>. QED  BY <4>1, <5>2, <6>1 DEF Allowed
        <5>. QED  BY <5>1, <5>2
      <4>3. Allowed(policies[a][t], Append(log, x), sequence)
        BY <2>1, <4>1, <4>2 DEF Allowed
      <4>. QED  BY <2>1, <3>1, <4>3
    <3>2. CASE b # a \/ u # t \/ l # sequence
      BY <2>1, <3>2 DEF PolicyInv
    <3>. QED  BY <3>1, <3>2
  <2>. QED  BY <2>2, <2>3, <2>4 DEF PolicyInv
<1>. QED  BY <1>3, <1>4, <1>5 DEF Policies!Next

\* The inductive invariant holds in every reachable state.
THEOREM PolicyInvariance == Policies!Spec => []PolicyInv
<1>1. Policies!Init => PolicyInv
  <2> SUFFICES ASSUME Policies!Init  PROVE PolicyInv
    OBVIOUS
  <2>1. Policies!Nothing \in [0..MaxLedger -> Seq(Nat)]
    BY EmptySeq DEF Policies!Nothing
  <2>2. Policies!TypeOK
    BY <2>1, PolicyConstants DEF Policies!Init, Policies!TypeOK
  <2>. QED
    BY <2>2 DEF Policies!Init, PolicyInv, Allowed, Policies!Nothing
<1>2. PolicyInv /\ [Policies!Next]_(Policies!vars) => PolicyInv'
  BY PolicyInvStep
<1>. QED  BY <1>1, <1>2, PTL DEF Policies!Spec

\* What has been approved since the policy in force was set is nothing but
\* single amounts within that policy (set_policy, check_spend).
THEOREM ApprovalsHold == Policies!Spec => []Policies!ApprovedOneByOne
<1>1. PolicyInv => Policies!ApprovedOneByOne
  BY DEF PolicyInv, Allowed, Policies!ApprovedOneByOne
<1>. QED  BY <1>1, PolicyInvariance, PTL

\* A policy changes only with the admin's signature, one at a time, and then
\* starts with an empty counter (require_admin, set_policy).
THEOREM AdminsSetPolicies == Policies!Spec => Policies!AdminSetsPolicies
<1> DEFINE Signed ==
             policies' # policies =>
               /\ policy_signers' = {policy_admin}
               /\ \E a \in Account, t \in Asset :
                    /\ policies' = [policies EXCEPT ![a][t] = policies'[a][t]]
                    /\ policies'[a][t].spent = 0
                    /\ policies'[a][t].reset_ledger = sequence
<1>1. ASSUME PolicyInv, [Policies!Next]_(Policies!vars)
      PROVE  Signed
  <2>1. ASSUME NEW a \in Account, NEW t \in Asset, NEW n \in Limits, NEW d \in Periods,
               Policies!SetPolicy(a, t, n, d)
        PROVE  Signed
    <3>1. /\ policies'[a][t].spent = 0 /\ policies'[a][t].reset_ledger = sequence
          /\ policies' = [policies EXCEPT ![a][t] = policies'[a][t]]
      BY <1>1, <2>1, PolicySet DEF PolicyInv
    <3>2. policy_signers' = {policy_admin}
      BY <2>1 DEF Policies!SetPolicy, Policies!RequireAdmin
    <3>. QED  BY <3>1, <3>2
  <2>2. CASE UNCHANGED policies
    BY <2>2
  <2>. QED
    BY <1>1, <2>1, <2>2, Zenon
    DEF Policies!Next, Policies!Initialize, Policies!Upgrade, Policies!CheckSpend,
        Policies!CloseLedger, Policies!vars
<1>. QED  BY <1>1, PolicyInvariance, PTL DEF Policies!Spec, Policies!AdminSetsPolicies

(* -------------------------- mux-account-factory ------------------------ *)

\* The community operators as the contract's module sees them.
LEMMA FactoryOperators ==
  /\ \A s, e : Factory!Contains(s, e) <=> Contains(s, e)
  /\ \A s : Factory!IsInjective(s) <=> IsInjective(s)
  /\ \A s : Factory!ToSet(s) = ToSet(s)
  /\ \A s, t : Factory!IsPrefix(s, t) <=> IsPrefix(s, t)
BY DEF Factory!Contains, Contains, Factory!IsInjective, IsInjective,
       Factory!ToSet, ToSet, Factory!IsPrefix, IsPrefix

LEMMA FactoryConstants ==
  /\ Absent \notin Admin \cup Addresses /\ Absent \notin Factory!AccountMetadata
  /\ AccountMeta \subseteq Factory!AccountMetadata
  /\ IsFiniteSet(Addresses) /\ MaxAccountsPerOwner \in Nat
BY ConstantsAreValid DEF Factory!Assumptions, Factory!IsFiniteSet, IsFiniteSet

\* The pairs of an owner and an account that are registered.
RegisteredPairs == {p \in Addresses \X Addresses : Contains(accounts[p[1]], p[2])}

\* The list of an owner repeats nothing, does not hold the owner and is within
\* the cap, and metadata within the size limits belongs to listed accounts.
AccountsListed(o) ==
  /\ \A x : OccursOnce(accounts[o], x)
  /\ ~Contains(accounts[o], o)
  /\ Len(accounts[o]) <= MaxAccountsPerOwner
  /\ \A a \in Addresses : account_metadata[o][a] # Absent =>
       Contains(accounts[o], a) /\ Factory!ValidateMetadata(account_metadata[o][a])

FactoryInv ==
  /\ Factory!TypeOK
  /\ account_count = Cardinality(RegisteredPairs)
  /\ \A o \in Addresses : AccountsListed(o)

\* Both ways of deploying list the account with its owner, count it when it is
\* new and touch nothing of any other owner or account.
LEMMA AccountDeployed ==
  ASSUME Factory!TypeOK, NEW o \in Addresses, NEW a \in Addresses,
         \/ Factory!DeployAccount(o, a)
         \/ \E m \in AccountMeta : Factory!DeployAccountWithMetadata(o, a, m)
  PROVE  /\ a # o /\ factory_signers' = {o} /\ factory_admin' = factory_admin
         /\ NamedIn(accounts[o], accounts'[o], a, MaxAccountsPerOwner)
         /\ account_count' = IF Contains(accounts[o], a) THEN account_count ELSE account_count + 1
         /\ accounts' \in [Addresses -> Seq(Addresses)]
         /\ account_metadata' \in
              [Addresses -> [Addresses -> Factory!AccountMetadata \cup {Absent}]]
         /\ \A x \in Addresses \ {o} : /\ accounts'[x] = accounts[x]
                                       /\ account_metadata'[x] = account_metadata[x]
         /\ \A x \in Addresses \ {a} : account_metadata'[o][x] = account_metadata[o][x]
         /\ \/ account_metadata'[o][a] = account_metadata[o][a]
            \/ Factory!ValidateMetadata(account_metadata'[o][a])
<1>1. /\ accounts \in [Addresses -> Seq(Addresses)] /\ accounts[o] \in Seq(Addresses)
      /\ account_metadata \in [Addresses -> [Addresses -> Factory!AccountMetadata \cup {Absent}]]
  BY DEF Factory!TypeOK
<1>2. /\ a # o /\ factory_signers' = {o} /\ factory_admin' = factory_admin
      /\ Factory!LoadAccountsForDeploy(o, a) /\ Factory!Register(o, a)
      /\ \/ account_metadata' = account_metadata
         \/ \E m \in AccountMeta :
              /\ Factory!ValidateMetadata(m)
              /\ account_metadata' = [account_metadata EXCEPT ![o][a] = m]
  BY DEF Factory!DeployAccount, Factory!DeployAccountWithMetadata, Factory!RequireAuth
<1>3. /\ NamedIn(accounts[o], accounts'[o], a, MaxAccountsPerOwner)
      /\ account_count' = IF Contains(accounts[o], a) THEN account_count ELSE account_count + 1
      /\ accounts' \in [Addresses -> Seq(Addresses)]
      /\ \A x \in Addresses \ {o} : accounts'[x] = accounts[x]
  <2>1. CASE Contains(accounts[o], a)
    <3>1. UNCHANGED <<accounts, account_count>>
      BY <1>2, <2>1, FactoryOperators DEF Factory!Register, Factory!AlreadyRegistered
    <3>. QED  BY <1>1, <2>1, <3>1 DEF NamedIn
  <2>2. CASE ~Contains(accounts[o], a)
    <3>. PICK list : list = Append(accounts[o], a)
      OBVIOUS
    <3>1. /\ accounts' = [accounts EXCEPT ![o] = list]
          /\ account_count' = account_count + 1 /\ Len(accounts[o]) < MaxAccountsPerOwner
      BY <1>2, <2>2, FactoryOperators
      DEF Factory!Register, Factory!AlreadyRegistered, Factory!LoadAccountsForDeploy
    <3>2. list \in Seq(Addresses)
      BY <1>1
    <3>3. /\ accounts'[o] = list /\ accounts' \in [Addresses -> Seq(Addresses)]
          /\ \A x \in Addresses \ {o} : accounts'[x] = accounts[x]
      BY <1>1, <3>1, <3>2
    <3>. QED  BY <2>2, <3>1, <3>3, Zenon DEF NamedIn
  <2>. QED  BY <2>1, <2>2
<1>4. /\ account_metadata' \in [Addresses -> [Addresses -> Factory!AccountMetadata \cup {Absent}]]
      /\ \A x \in Addresses \ {o} : account_metadata'[x] = account_metadata[x]
      /\ \A x \in Addresses \ {a} : account_metadata'[o][x] = account_metadata[o][x]
      /\ \/ account_metadata'[o][a] = account_metadata[o][a]
         \/ Factory!ValidateMetadata(account_metadata'[o][a])
  <2>1. CASE account_metadata' = account_metadata
    BY <1>1, <2>1
  <2>2. CASE account_metadata' # account_metadata
    <3>1. PICK m \in AccountMeta :
            /\ Factory!ValidateMetadata(m)
            /\ account_metadata' = [account_metadata EXCEPT ![o][a] = m]
      BY <1>2, <2>2
    <3>2. m \in Factory!AccountMetadata
      BY FactoryConstants
    <3>3. account_metadata'[o][a] = m
      BY <1>1, <3>1
    <3>4. Factory!ValidateMetadata(account_metadata'[o][a])
      BY <3>1, <3>3
    <3>. QED  BY <1>1, <3>1, <3>2, <3>4
  <2>. QED  BY <2>1, <2>2
<1>. QED  BY <1>2, <1>3, <1>4, Zenon

\* Registering a new account adds one pair to a finite set of them.
LEMMA PairsCounted ==
  ASSUME NEW o \in Addresses, NEW a \in Addresses,
         \A x \in Addresses, y \in Addresses :
           Contains(accounts'[x], y) <=> Contains(accounts[x], y) \/ (x = o /\ y = a)
  PROVE  Cardinality(RegisteredPairs') =
           IF Contains(accounts[o], a) THEN Cardinality(RegisteredPairs)
           ELSE Cardinality(RegisteredPairs) + 1
<1>1. IsFiniteSet(RegisteredPairs)
  <2>1. IsFiniteSet(Addresses \X Addresses)
    BY FactoryConstants, FS_Product
  <2>. QED  BY <2>1, FS_Subset DEF RegisteredPairs
<1>2. RegisteredPairs' = RegisteredPairs \cup {<<o, a>>}
  BY DEF RegisteredPairs
<1>3. <<o, a>> \in RegisteredPairs <=> Contains(accounts[o], a)
  BY DEF RegisteredPairs
<1>4. Cardinality(RegisteredPairs \cup {<<o, a>>}) =
        IF <<o, a>> \in RegisteredPairs THEN Cardinality(RegisteredPairs)
        ELSE Cardinality(RegisteredPairs) + 1
  BY <1>1, FS_AddElement
<1>. QED  BY <1>2, <1>3, <1>4

LEMMA FactoryInvStep ==
  ASSUME FactoryInv, [Factory!Next]_(Factory!vars)
  PROVE  FactoryInv'
<1>1. /\ Factory!TypeOK /\ \A o \in Addresses : AccountsListed(o)
      /\ account_count = Cardinality(RegisteredPairs) /\ account_count \in Nat
      /\ accounts \in [Addresses -> Seq(Addresses)]
  BY DEF FactoryInv, Factory!TypeOK
<1>2. ASSUME UNCHANGED <<accounts, account_count, account_metadata>>,
             factory_admin' \in Admin \cup {Absent}, factory_signers' \subseteq Admin \cup Addresses
      PROVE  FactoryInv'
  <2>1. Factory!TypeOK' /\ RegisteredPairs' = RegisteredPairs
    BY <1>1, <1>2 DEF Factory!TypeOK, RegisteredPairs
  <2>2. \A o \in Addresses : AccountsListed(o)'
    BY <1>1, <1>2, Zenon DEF AccountsListed
  <2>. QED  BY <1>1, <1>2, <2>1, <2>2, Zenon DEF FactoryInv
<1>3. CASE \/ \E a \in Admin : Factory!Initialize(a)
           \/ Factory!Upgrade \/ UNCHANGED Factory!vars
  BY <1>1, <1>2, <1>3 DEF Factory!Initialize, Factory!Upgrade, Factory!RequireAuth, Factory!vars,
                          Factory!TypeOK
<1>4. ASSUME NEW o \in Addresses, NEW a \in Addresses,
             \/ Factory!DeployAccount(o, a)
             \/ \E m \in AccountMeta : Factory!DeployAccountWithMetadata(o, a, m)
      PROVE  FactoryInv'
  <2>1. /\ a # o /\ factory_signers' = {o} /\ factory_admin' = factory_admin
        /\ NamedIn(accounts[o], accounts'[o], a, MaxAccountsPerOwner)
        /\ account_count' = IF Contains(accounts[o], a) THEN account_count ELSE account_count + 1
        /\ accounts' \in [Addresses -> Seq(Addresses)]
        /\ account_metadata' \in [Addresses -> [Addresses -> Factory!AccountMetadata \cup {Absent}]]
        /\ \A x \in Addresses \ {o} : /\ accounts'[x] = accounts[x]
                                      /\ account_metadata'[x] = account_metadata[x]
        /\ \A x \in Addresses \ {a} : account_metadata'[o][x] = account_metadata[o][x]
        /\ \/ account_metadata'[o][a] = account_metadata[o][a]
           \/ Factory!ValidateMetadata(account_metadata'[o][a])
    BY <1>1, <1>4, AccountDeployed, Zenon
  <2>2. /\ \A x : Contains(accounts'[o], x) <=> Contains(accounts[o], x) \/ x = a
        /\ \A x : OccursOnce(accounts'[o], x)
        /\ Len(accounts'[o]) <= MaxAccountsPerOwner
    <3>1. accounts[o] \in Seq(Addresses) /\ AccountsListed(o)
      BY <1>1
    <3>2. /\ \A x : Contains(accounts'[o], x) <=> Contains(accounts[o], x) \/ x = a
          /\ (\A x : OccursOnce(accounts[o], x)) => \A x : OccursOnce(accounts'[o], x)
          /\ Len(accounts[o]) <= MaxAccountsPerOwner => Len(accounts'[o]) <= MaxAccountsPerOwner
      <4>. PICK before \in Seq(Addresses) : before = accounts[o]
        BY <3>1
      <4>. PICK after : after = accounts'[o]
        OBVIOUS
      <4>1. NamedIn(before, after, a, MaxAccountsPerOwner)
        BY <2>1
      <4>2. /\ \A x : Contains(after, x) <=> Contains(before, x) \/ x = a
            /\ (\A x : OccursOnce(before, x)) => \A x : OccursOnce(after, x)
            /\ Len(before) <= MaxAccountsPerOwner => Len(after) <= MaxAccountsPerOwner
        BY <4>1, NamedList, FactoryConstants
      <4>. QED  BY <4>2, Zenon
    <3>. QED  BY <3>1, <3>2, Zenon DEF AccountsListed
  <2>3. Factory!TypeOK'
    BY <1>1, <2>1 DEF Factory!TypeOK
  <2>4. account_count' = Cardinality(RegisteredPairs')
    <3>1. \A x \in Addresses, y \in Addresses :
            Contains(accounts'[x], y) <=> Contains(accounts[x], y) \/ (x = o /\ y = a)
      BY <2>1, <2>2, Zenon
    <3>2. Cardinality(RegisteredPairs') =
            IF Contains(accounts[o], a) THEN Cardinality(RegisteredPairs)
            ELSE Cardinality(RegisteredPairs) + 1
      BY <3>1, PairsCounted
    <3>. QED  BY <1>1, <2>1, <3>2, Zenon
  <2>5. AccountsListed(o)'
    <3>1. AccountsListed(o)
      BY <1>1
    <3>2. ASSUME NEW x \in Addresses, account_metadata'[o][x] # Absent
          PROVE  Contains(accounts'[o], x) /\ Factory!ValidateMetadata(account_metadata'[o][x])
      BY <2>1, <2>2, <3>1, <3>2, Zenon DEF AccountsListed
    <3>. QED  BY <2>1, <2>2, <3>1, <3>2, Zenon DEF AccountsListed
  <2>6. ASSUME NEW x \in Addresses, x # o  PROVE AccountsListed(x)'
    BY <1>1, <2>1, <2>6, Zenon DEF AccountsListed
  <2>. QED  BY <2>3, <2>4, <2>5, <2>6, Zenon DEF FactoryInv
<1>. QED  BY <1>3, <1>4, Zenon DEF Factory!Next

\* The inductive invariant holds in every reachable state.
THEOREM FactoryInvariance == Factory!Spec => []FactoryInv
<1>1. Factory!Init => FactoryInv
  <2> SUFFICES ASSUME Factory!Init  PROVE FactoryInv
    OBVIOUS
  <2>1. Factory!TypeOK
    BY EmptySeq DEF Factory!Init, Factory!TypeOK
  <2>2. \A n : OccursOnce(<<>>, n) /\ ~Contains(<<>>, n)
    BY DEF OccursOnce, Contains
  <2>3. RegisteredPairs = {}
    BY <2>2 DEF Factory!Init, RegisteredPairs
  <2>4. account_count = Cardinality(RegisteredPairs)
    BY <2>3, FS_EmptySet DEF Factory!Init
  <2>5. \A o \in Addresses : AccountsListed(o)
    BY <2>2, FactoryConstants DEF Factory!Init, AccountsListed
  <2>. QED  BY <2>1, <2>4, <2>5 DEF FactoryInv
<1>2. FactoryInv /\ [Factory!Next]_(Factory!vars) => FactoryInv'
  BY FactoryInvStep
<1>. QED  BY <1>1, <1>2, PTL DEF Factory!Spec

\* The counter is the number of registered pairs of an owner and an account,
\* the lists are within the cap and repeat nothing, and metadata belongs to
\* listed accounts (deploy_account, deploy_account_with_metadata).
THEOREM AccountsHold == Factory!Spec => []Factory!AccountsCounted
<1>1. FactoryInv => Factory!AccountsCounted
  <2> SUFFICES ASSUME FactoryInv  PROVE Factory!AccountsCounted
    OBVIOUS
  <2>1. account_count = Factory!Cardinality({p \in Addresses \X Addresses :
                                               Factory!AlreadyRegistered(p[1], p[2])})
    <3>1. RegisteredPairs = {p \in Addresses \X Addresses : Factory!AlreadyRegistered(p[1], p[2])}
      BY FactoryOperators DEF RegisteredPairs, Factory!AlreadyRegistered
    <3>2. \A S : Factory!Cardinality(S) = Cardinality(S)
      BY Zenon DEF Factory!Cardinality, Cardinality
    <3>. QED  BY <3>1, <3>2 DEF FactoryInv
  <2>2. ASSUME NEW o \in Addresses
        PROVE  /\ Factory!IsInjective(accounts[o])
               /\ o \notin Factory!ToSet(accounts[o])
               /\ Len(accounts[o]) <= MaxAccountsPerOwner
               /\ \A a \in Addresses : account_metadata[o][a] # Absent =>
                    /\ Factory!AlreadyRegistered(o, a)
                    /\ Factory!ValidateMetadata(account_metadata[o][a])
    <3>1. accounts[o] \in Seq(Addresses) /\ AccountsListed(o)
      BY DEF FactoryInv, Factory!TypeOK
    <3>2. IsInjective(accounts[o]) /\ \A x : x \in ToSet(accounts[o]) <=> Contains(accounts[o], x)
      BY <3>1, InjectiveOccursOnce, ToSetContains DEF AccountsListed
    <3>. QED
      BY <3>1, <3>2, FactoryOperators, Zenon DEF AccountsListed, Factory!AlreadyRegistered
  <2>. QED  BY <2>1, <2>2, Zenon DEF Factory!AccountsCounted
<1>. QED  BY <1>1, FactoryInvariance, PTL

\* Registered accounts stay registered in their order, nothing is registered
\* for an owner who did not sign, and the counter never goes back
\* (deploy_account, deploy_account_with_metadata).
THEOREM RegistrationsStay == Factory!Spec => Factory!RegistrationsArePermanent
<1> DEFINE Kept == /\ account_count' >= account_count
                   /\ \A o \in Addresses :
                        /\ Factory!IsPrefix(accounts[o], accounts'[o])
                        /\ o \notin factory_signers' =>
                             UNCHANGED <<accounts[o], account_metadata[o]>>
<1>1. ASSUME FactoryInv, [Factory!Next]_(Factory!vars)
      PROVE  Kept
  <2>1. account_count \in Nat /\ \A o \in Addresses : IsPrefix(accounts[o], accounts[o])
    BY <1>1 DEF FactoryInv, Factory!TypeOK, IsPrefix
  <2>2. CASE UNCHANGED <<accounts, account_count, account_metadata>>
    BY <2>1, <2>2, FactoryOperators
  <2>3. ASSUME NEW o \in Addresses, NEW a \in Addresses,
               \/ Factory!DeployAccount(o, a)
               \/ \E m \in AccountMeta : Factory!DeployAccountWithMetadata(o, a, m)
        PROVE  Kept
    <3>1. /\ factory_signers' = {o}
          /\ NamedIn(accounts[o], accounts'[o], a, MaxAccountsPerOwner)
          /\ account_count' = IF Contains(accounts[o], a) THEN account_count ELSE account_count + 1
          /\ \A x \in Addresses \ {o} : /\ accounts'[x] = accounts[x]
                                        /\ account_metadata'[x] = account_metadata[x]
      BY <1>1, <2>3, AccountDeployed, Zenon DEF FactoryInv
    <3>2. account_count' >= account_count
      BY <2>1, <3>1
    <3>3. IsPrefix(accounts[o], accounts'[o])
      <4>1. accounts[o] \in Seq(Addresses)
        BY <1>1 DEF FactoryInv, Factory!TypeOK
      <4>. QED  BY <3>1, <4>1, NamedList, FactoryConstants
    <3>4. \A x \in Addresses : IsPrefix(accounts[x], accounts'[x])
      BY <2>1, <3>1, <3>3, Zenon
    <3>. QED  BY <3>1, <3>2, <3>4, FactoryOperators, Zenon
  <2>. QED
    BY <1>1, <2>2, <2>3, Zenon
    DEF Factory!Next, Factory!Initialize, Factory!Upgrade, Factory!vars
<1>. QED  BY <1>1, FactoryInvariance, PTL DEF Factory!Spec, Factory!RegistrationsArePermanent

\* The accounts of each owner with their metadata are a directory bounded by the
\* cap per owner, and a deployment changes one entry of it at most.
THEOREM AccountsAreDirectory == Factory!Spec => Factory!AccountsImplementDirectory
<1> DEFINE entry(o, a) == <<IF Factory!AlreadyRegistered(o, a) THEN a ELSE Absent,
                           account_metadata[o][a]>>
           stored == [o \in Addresses |-> [a \in Addresses |-> entry(o, a)]]
           used(o) == Factory!Accounts!Used(o)
<1>1. Factory!Init => Factory!Accounts!Init
  <2>1. \A a : ~Factory!Contains(<<>>, a)
    BY DEF Factory!Contains
  <2>. QED
    BY <2>1 DEF Factory!Init, Factory!Accounts!Init, Factory!AlreadyRegistered
<1>2. ASSUME FactoryInv, NEW o \in Addresses, NEW a \in Addresses,
             \/ Factory!DeployAccount(o, a)
             \/ \E m \in AccountMeta : Factory!DeployAccountWithMetadata(o, a, m)
      PROVE  Factory!Accounts!Next
  <2>1. /\ accounts[o] \in Seq(Addresses) /\ AccountsListed(o) /\ Factory!TypeOK
        /\ accounts \in [Addresses -> Seq(Addresses)]
    BY <1>2 DEF FactoryInv, Factory!TypeOK
  <2>2. /\ NamedIn(accounts[o], accounts'[o], a, MaxAccountsPerOwner)
        /\ \A x \in Addresses \ {o} : /\ accounts'[x] = accounts[x]
                                      /\ account_metadata'[x] = account_metadata[x]
        /\ \A x \in Addresses \ {a} : account_metadata'[o][x] = account_metadata[o][x]
    BY <1>2, <2>1, AccountDeployed, Zenon
  <2>3. \A x : Contains(accounts'[o], x) <=> Contains(accounts[o], x) \/ x = a
    BY <2>1, <2>2, NamedList, FactoryConstants
  <2>4. /\ Cardinality(used(o)) = Len(accounts[o])
        /\ \A x \in Addresses : x \in used(o) <=> Contains(accounts[o], x)
    <3>1. /\ used(o) \subseteq Addresses
          /\ \A x \in Addresses : x \in used(o) <=> Contains(accounts[o], x)
      BY <2>1, FactoryOperators, FactoryConstants
      DEF AccountsListed, Factory!Accounts!Used, Factory!AlreadyRegistered
    <3>. QED  BY <2>1, <3>1, ListedCount DEF AccountsListed
  <2>5. a \in used(o) \/ Cardinality(used(o)) < MaxAccountsPerOwner
    BY <2>2, <2>4 DEF NamedIn
  <2>6. \A x, y \in Addresses : x # o \/ y # a => stored'[x][y] = stored[x][y]
    BY <2>2, <2>3, FactoryOperators DEF Factory!AlreadyRegistered
  <2>7. stored'[o][a] # <<Absent, Absent>>
    BY <2>3, FactoryOperators, FactoryConstants DEF Factory!AlreadyRegistered
  <2>8. stored' = [stored EXCEPT ![o][a] = stored'[o][a]]
    <3>1. /\ stored = [x \in Addresses |-> [y \in Addresses |-> stored[x][y]]]
          /\ stored' = [x \in Addresses |-> [y \in Addresses |-> stored'[x][y]]]
      OBVIOUS
    <3> HIDE DEF stored
    <3>. QED  BY <2>6, <3>1, OneEntry
  <2>9. Factory!Accounts!Put(o, a)
    BY <2>5, <2>7, <2>8, Zenon
    DEF Factory!Accounts!Put, Factory!Accounts!Cardinality, Cardinality
  <2>. QED  BY <2>9 DEF Factory!Accounts!Next
<1>3. ASSUME FactoryInv, [Factory!Next]_(Factory!vars)
      PROVE  Factory!Accounts!Next \/ UNCHANGED stored
  <2>1. CASE UNCHANGED <<accounts, account_metadata>>
    BY <2>1 DEF Factory!AlreadyRegistered
  <2>. QED
    BY <1>2, <1>3, <2>1, Zenon
    DEF Factory!Next, Factory!vars, Factory!Initialize, Factory!Upgrade
<1>. QED
  BY <1>1, <1>3, FactoryInvariance, PTL
  DEF Factory!Spec, Factory!AccountsImplementDirectory, Factory!Accounts!Spec

(* ------------------------ The contracts together ----------------------- *)

\* Every stored value of every contract keeps its type.
THEOREM TypeCorrect == Spec => []TypeOK
<1>1. Batcher!Spec => []Batcher!TypeOK
  BY ConstantsAreValid, Batcher!TypeCorrect
<1>2. Delegation!Spec => []Delegation!TypeOK
  BY ConstantsAreValid, Delegation!TypeCorrect
<1>3. Factory!Spec => []Factory!TypeOK
  <2>1. FactoryInv => Factory!TypeOK
    BY DEF FactoryInv
  <2>. QED  BY <2>1, FactoryInvariance, PTL
<1>4. Wallets!Spec => []Wallets!TypeOK
  <2>1. WalletInv => Wallets!TypeOK
    BY DEF WalletInv
  <2>. QED  BY <2>1, WalletInvariance, PTL
<1>5. Versions!Spec => []Versions!TypeOK
  <2>1. VersionInv => Versions!TypeOK
    BY DEF VersionInv
  <2>. QED  BY <2>1, VersionInvariance, PTL
<1>6. Policies!Spec => []Policies!TypeOK
  <2>1. PolicyInv => Policies!TypeOK
    BY DEF PolicyInv
  <2>. QED  BY <2>1, PolicyInvariance, PTL
<1>. QED
  BY <1>1, <1>2, <1>3, <1>4, <1>5, <1>6, BatcherRuns, DelegationRuns, FactoryRuns, WalletsRun,
     VersionsRun, PoliciesRun, PTL
  DEF TypeOK

\* The guard of the batcher follows the batch in flight and the counters
\* account for its effects (execute_batch).
THEOREM BatchesAreSound == Spec => []BatchSound
<1>1. Batcher!Assumptions
  BY ConstantsAreValid
<1>2. Batcher!Spec => []Batcher!GuardTracksBatch
  BY <1>1, Batcher!GuardHolds
<1>3. Batcher!Spec => []Batcher!BatchAccounted
  BY <1>1, Batcher!BatchAccountedHolds
<1>. QED
  BY <1>2, <1>3, BatcherRuns, PTL DEF BatchSound

\* A batch takes effect at once or not at all (execute_batch).
THEOREM BatchesAreAtomic == Spec => ImplementsAtomicBatch
<1>1. Batcher!Spec => Batcher!ImplementsAtomicBatch
  BY ConstantsAreValid, Batcher!BatchesAreAtomic
<1>. QED
  BY <1>1, BatcherRuns, PTL DEF ImplementsAtomicBatch

\* What a contract keeps in two places agrees: lists and records, the counter
\* of accounts and the lists it counts, approvals and the policy in force.
THEOREM RecordsHold == Spec => []RecordsAgree
<1>1. Delegation!Spec => []Delegation!DelegatesIndexed
  BY ConstantsAreValid, Delegation!DelegatesHold
<1>. QED
  BY <1>1, WalletsHold, ContractsHold, AccountsHold, ApprovalsHold, DelegationRuns, WalletsRun,
     VersionsRun, FactoryRuns, PoliciesRun, PTL
  DEF RecordsAgree

\* Delegations, deployed accounts, named wallets and registered versions are
\* bounded directories of their owner, whatever the other contracts do
\* meanwhile.
THEOREM DirectoriesHold == Spec => ImplementsDirectory
<1>1. Delegation!Spec => Delegation!DelegationsImplementDirectory
  BY ConstantsAreValid, Delegation!DelegationsAreDirectory
<1>. QED
  BY <1>1, AccountsAreDirectory, WalletsAreDirectory, ContractsAreDirectory, DelegationRuns,
     FactoryRuns, WalletsRun, VersionsRun, PTL
  DEF ImplementsDirectory

\* Every change is signed for by whom it belongs to, and what is written once
\* stays for everybody, whatever the other contracts do meanwhile.
THEOREM ChangesHold == Spec => ChangesArePermitted
<1>1. Delegation!Spec => Delegation!OwnerDelegates
  BY ConstantsAreValid, Delegation!OwnersDelegate
<1>2. Batcher!Spec => Batcher!WrittenOnce
  BY ConstantsAreValid, Batcher!WrittenOnceHolds
<1>. QED
  BY <1>1, <1>2, OwnersName, AdminsRegister, AdminsSetPolicies, RegistrationsStay, DelegationRuns,
     WalletsRun, VersionsRun, PoliciesRun, BatcherRuns, FactoryRuns, PTL
  DEF ChangesArePermitted
=============================================================================
