SPECIFICATION Spec
CONSTANTS
  Wallets <- MCWallets
  Zero = "zero"
  Bundles <- MCBundles
  DrainCount = 2
  ReadCount = 2
  MaxTxs = 3
  MaxFaults = 1
  MaxDrainFaults = 1
  MaxExpiries = 1
INVARIANTS TypeOK SupplyConserved MakerIsParty 
CHECK_DEADLOCK FALSE
