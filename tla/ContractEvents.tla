---------------------------- MODULE ContractEvents ----------------------------
(***************************************************************************)
(* The events of the six contract bindings.  The bindings are generated:   *)
(* for each event there is the same code (an iterator, Filter, Watch and   *)
(* Parse) with the contract, the name of the event and its indexed         *)
(* arguments filled in.  Those are the parameters of an event here; the    *)
(* code itself is modelled once, in EventIterator and EventSubscription,   *)
(* for any event.  An event is named like its Go struct.                   *)
(*                                                                         *)
(* A log is an emission of some event.  Its indexed arguments are its      *)
(* topics; of its data all that matters is whether it decodes.             *)
(***************************************************************************)
EXTENDS Integers, Sequences

Event(contract, name, indexed) ==
  [contract |-> contract, name |-> name, indexed |-> indexed]

\* L1StandardBridge
L1StandardBridgeERC20BridgeFinalized ==
  Event("L1StandardBridge", "ERC20BridgeFinalized",
        << "localToken", "remoteToken", "from" >>)
L1StandardBridgeERC20BridgeInitiated ==
  Event("L1StandardBridge", "ERC20BridgeInitiated",
        << "localToken", "remoteToken", "from" >>)
L1StandardBridgeERC20DepositInitiated ==
  Event("L1StandardBridge", "ERC20DepositInitiated",
        << "l1Token", "l2Token", "from" >>)
L1StandardBridgeERC20WithdrawalFinalized ==
  Event("L1StandardBridge", "ERC20WithdrawalFinalized",
        << "l1Token", "l2Token", "from" >>)
L1StandardBridgeETHBridgeFinalized ==
  Event("L1StandardBridge", "ETHBridgeFinalized", << "from", "to" >>)
L1StandardBridgeETHBridgeInitiated ==
  Event("L1StandardBridge", "ETHBridgeInitiated", << "from", "to" >>)
L1StandardBridgeETHDepositInitiated ==
  Event("L1StandardBridge", "ETHDepositInitiated", << "from", "to" >>)
L1StandardBridgeETHWithdrawalFinalized ==
  Event("L1StandardBridge", "ETHWithdrawalFinalized", << "from", "to" >>)
L1StandardBridgeInitialized ==
  Event("L1StandardBridge", "Initialized", << >>)

L1StandardBridgeEvents ==
  {L1StandardBridgeERC20BridgeFinalized,
   L1StandardBridgeERC20BridgeInitiated,
   L1StandardBridgeERC20DepositInitiated,
   L1StandardBridgeERC20WithdrawalFinalized,
   L1StandardBridgeETHBridgeFinalized, L1StandardBridgeETHBridgeInitiated,
   L1StandardBridgeETHDepositInitiated,
   L1StandardBridgeETHWithdrawalFinalized, L1StandardBridgeInitialized}

\* L2StandardBridge
L2StandardBridgeDepositFinalized ==
  Event("L2StandardBridge", "DepositFinalized",
        << "l1Token", "l2Token", "from" >>)
L2StandardBridgeERC20BridgeFinalized ==
  Event("L2StandardBridge", "ERC20BridgeFinalized",
        << "localToken", "remoteToken", "from" >>)
L2StandardBridgeERC20BridgeInitiated ==
  Event("L2StandardBridge", "ERC20BridgeInitiated",
        << "localToken", "remoteToken", "from" >>)
L2StandardBridgeETHBridgeFinalized ==
  Event("L2StandardBridge", "ETHBridgeFinalized", << "from", "to" >>)
L2StandardBridgeETHBridgeInitiated ==
  Event("L2StandardBridge", "ETHBridgeInitiated", << "from", "to" >>)
L2StandardBridgeInitialized ==
  Event("L2StandardBridge", "Initialized", << >>)
L2StandardBridgeWithdrawalInitiated ==
  Event("L2StandardBridge", "WithdrawalInitiated",
        << "l1Token", "l2Token", "from" >>)

L2StandardBridgeEvents ==
  {L2StandardBridgeDepositFinalized, L2StandardBridgeERC20BridgeFinalized,
   L2StandardBridgeERC20BridgeInitiated,
   L2StandardBridgeETHBridgeFinalized, L2StandardBridgeETHBridgeInitiated,
   L2StandardBridgeInitialized, L2StandardBridgeWithdrawalInitiated}

\* L2CrossDomainMessenger
L2CrossDomainMessengerFailedRelayedMessage ==
  Event("L2CrossDomainMessenger", "FailedRelayedMessage", << "msgHash" >>)
L2CrossDomainMessengerInitialized ==
  Event("L2CrossDomainMessenger", "Initialized", << >>)
L2CrossDomainMessengerRelayedMessage ==
  Event("L2CrossDomainMessenger", "RelayedMessage", << "msgHash" >>)
L2CrossDomainMessengerSentMessage ==
  Event("L2CrossDomainMessenger", "SentMessage", << "target" >>)
L2CrossDomainMessengerSentMessageExtension1 ==
  Event("L2CrossDomainMessenger", "SentMessageExtension1", << "sender" >>)

L2CrossDomainMessengerEvents ==
  {L2CrossDomainMessengerFailedRelayedMessage,
   L2CrossDomainMessengerInitialized,
   L2CrossDomainMessengerRelayedMessage,
   L2CrossDomainMessengerSentMessage,
   L2CrossDomainMessengerSentMessageExtension1}

\* L2ToL1MessagePasser
L2ToL1MessagePasserMessagePassed ==
  Event("L2ToL1MessagePasser", "MessagePassed",
        << "nonce", "sender", "target" >>)
L2ToL1MessagePasserWithdrawerBalanceBurnt ==
  Event("L2ToL1MessagePasser", "WithdrawerBalanceBurnt", << "amount" >>)

L2ToL1MessagePasserEvents ==
  {L2ToL1MessagePasserMessagePassed,
   L2ToL1MessagePasserWithdrawerBalanceBurnt}

\* LightLinkPortal
LightLinkPortalInitialized ==
  Event("LightLinkPortal", "Initialized", << >>)
LightLinkPortalOwnershipTransferred ==
  Event("LightLinkPortal", "OwnershipTransferred",
        << "previousOwner", "newOwner" >>)
LightLinkPortalPause ==
  Event("LightLinkPortal", "Pause", << >>)
LightLinkPortalTransactionDeposited ==
  Event("LightLinkPortal", "TransactionDeposited",
        << "from", "to", "version" >>)
LightLinkPortalUnpause ==
  Event("LightLinkPortal", "Unpause", << >>)
LightLinkPortalWithdrawalFinalized ==
  Event("LightLinkPortal", "WithdrawalFinalized", << "withdrawalHash" >>)
LightLinkPortalWithdrawalProven ==
  Event("LightLinkPortal", "WithdrawalProven",
        << "withdrawalHash", "from", "to" >>)

LightLinkPortalEvents ==
  {LightLinkPortalInitialized, LightLinkPortalOwnershipTransferred,
   LightLinkPortalPause, LightLinkPortalTransactionDeposited,
   LightLinkPortalUnpause, LightLinkPortalWithdrawalFinalized,
   LightLinkPortalWithdrawalProven}

\* CanonicalStateChain
CanonicalStateChainBlockAdded ==
  Event("CanonicalStateChain", "BlockAdded", << "blockNumber" >>)
CanonicalStateChainChallengeChanged ==
  Event("CanonicalStateChain", "ChallengeChanged", << "challenge" >>)
CanonicalStateChainInitialized ==
  Event("CanonicalStateChain", "Initialized", << >>)
CanonicalStateChainOutputProposed ==
  Event("CanonicalStateChain", "OutputProposed",
        << "outputRoot", "l2OutputIndex", "l2BlockNumber" >>)
CanonicalStateChainOwnershipTransferred ==
  Event("CanonicalStateChain", "OwnershipTransferred",
        << "previousOwner", "newOwner" >>)
CanonicalStateChainPublisherChanged ==
  Event("CanonicalStateChain", "PublisherChanged", << "publisher" >>)
CanonicalStateChainRolledBack ==
  Event("CanonicalStateChain", "RolledBack", << "blockNumber" >>)
CanonicalStateChainUpgraded ==
  Event("CanonicalStateChain", "Upgraded", << "implementation" >>)

CanonicalStateChainEvents ==
  {CanonicalStateChainBlockAdded, CanonicalStateChainChallengeChanged,
   CanonicalStateChainInitialized, CanonicalStateChainOutputProposed,
   CanonicalStateChainOwnershipTransferred,
   CanonicalStateChainPublisherChanged, CanonicalStateChainRolledBack,
   CanonicalStateChainUpgraded}

Events ==
  L1StandardBridgeEvents \cup L2StandardBridgeEvents
    \cup L2CrossDomainMessengerEvents \cup L2ToL1MessagePasserEvents
    \cup LightLinkPortalEvents \cup CanonicalStateChainEvents

-----------------------------------------------------------------------------
(***************************************************************************)
(* What the library does with the parameters.                              *)
(***************************************************************************)
Log(e, topics, decodes) ==
  [contract |-> e.contract, name |-> e.name, topics |-> topics,
   decodes |-> decodes]

\* The logs that a node may hold: emissions of any of the events.
Logs(values) ==
  UNION {{Log(e, topics, decodes) : topics \in [DOMAIN e.indexed -> values],
                                    decodes \in BOOLEAN} : e \in Events}

\* The address, the topic of the event itself, and the topics of its arguments:
\* for each argument the values that are asked for, none of which means any.
Matches(e, asked, log) ==
  /\ log.contract = e.contract
  /\ log.name = e.name
  /\ \A i \in DOMAIN e.indexed : asked = {} \/ log.topics[i] \in asked

\* UnpackLog looks at the topic of the event, and not at the address.
Unpacks(e, log) == log.name = e.name /\ log.decodes
=============================================================================
