SPECIFICATION StopSpec
CONSTANTS TcpClients = {t1}  WsClients = {w1}  MaxConnections = 1
CHECK_DEADLOCK FALSE

PROPERTIES LiveClientsAreTold
