SPECIFICATION Spec
CONSTANTS
  Proposals = {}
  Finals = {1, 2}
  Masternodes = {1, 2}
  Leaving = {2}
  Votes <- MCVotes
  Own = {2}
  Young = {1}
  UpdateMin = 2
  MaxAhead = 2
  Times = {1, 2}
  Enabled = 30
  MaxClears = 1
INVARIANTS VotesCounted SyncedWasOffered FilledIsAccepted
