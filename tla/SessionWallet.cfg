SPECIFICATION AuthSpec
CONSTANTS
  alice = alice
  bob = bob
  Wallets = {alice, bob}
  NoWallet = NoWallet
  ChallengeTTL = 1
  TokenTTL = 1
  MaxTime = 2
  MaxNonces = 2
INVARIANTS
  SessionIsConnectedWallet
