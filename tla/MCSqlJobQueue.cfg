SPECIFICATION Spec
CONSTANTS
  m1 = m1
  m2 = m2
  p1 = p1
  p2 = p2
  t1 = t1
  t2 = t2
  t3 = t3
  Messages <- MCMessages
  Queues <- MCQueues
  QueueOf <- MCQueueOf
  Delay <- MCDelay
  Consumers <- MCConsumers
  Processes <- MCProcesses
  Ticks <- MCTicks
  ProcessOf <- MCProcessOf
  MaxAttempts = 3
  BatchSize = 2
PROPERTIES
  ImplementsJobQueue
  EveryMessageSettles
