SPECIFICATION CreditsSpec
CONSTANTS
  o1 = o1
  o2 = o2
  s1 = s1
  s2 = s2
  d1 = d1
  d2 = d2
  d3 = d3
  u1 = u1
  u2 = u2
  Orders = {o1, o2}
  Books <- MCBooks
  Procs = {p1, p2}
  NodeOf <- MCNodeOf
  MaxQuota = 4
  PlanLimit = 1
  MaxFaults = 1
  Subs = {s1, s2}
  Offers <- MCOffers
  Actors = {a1}
  Task = task
  Horizon = 3
  Claimants = {c1, c2}
  Days = {mon, tue}
  Deals = {d1, d2, d3}
  InviteeOf <- MCInviteeOf
  Reward = 2
  InviteeCap = 3
  RewardLimit = 4
  InviteLimit = 2
  QuotaForInviter = 1
  Newcomers = {u1, u2, u3}
  MaxEdits = 2
INVARIANTS OrdersHold SubscriptionsHold RewardsHold
PROPERTIES PaidIsDelivered
CHECK_DEADLOCK FALSE
